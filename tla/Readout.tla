------------------------------- MODULE Readout -------------------------------
(***************************************************************************)
(* What the page shows of a mower (web-server/static/app.js): the polls of *)
(* its status and of its heading, each a chain of one timer that the last  *)
(* answer arms again, and the controls that both the user and the answers  *)
(* write, the headlight's button and the height slider.                    *)
(*                                                                         *)
(* An answer comes late, or not at all, and to a page that may have        *)
(* switched to another mower and back, or be hidden.                       *)
(***************************************************************************)

CONSTANTS
  ViewMowers,
  Nowhere     \* no mower

ASSUME ReadoutAssumption == Nowhere \notin ViewMowers

VARIABLES
  viewed,                     \* currentMower
  away,                       \* document.hidden
  statusMower, statusTimer,
  status,                     \* the poll that holds statusInFlight
  camera,                     \* agora is set
  headingMower, headingTimer,
  heading,                    \* the poll that holds headingInFlight
  compassOf,                  \* whose heading the compass shows
  lightOn,
  light,                      \* the headlight's POST: light-on or light-off in `pending`
  lightOf,                    \* history: the mower lightOn was last assigned for
  heightTouchedFor, heightDragging,
  heightOf                    \* history: who put the slider where it is

statusVars  == <<statusMower, statusTimer, status>>
headingVars == <<camera, headingMower, headingTimer, heading, compassOf>>
lightVars   == <<lightOn, light, lightOf>>
heightVars  == <<heightTouchedFor, heightDragging, heightOf>>
viewVars    == <<viewed, away, statusVars, headingVars, lightVars, heightVars>>

View == ViewMowers \union {Nowhere}

\* A poll, and whether a tick of the chain awaits it.
Polls  == [asked: BOOLEAN, name: View, tick: BOOLEAN]
NoPoll == [asked |-> FALSE, name |-> Nowhere, tick |-> FALSE]

NoLight == [target |-> Nowhere, want |-> FALSE]

ViewTypeOK ==
  /\ viewed \in View /\ away \in BOOLEAN
  /\ statusMower \in View /\ statusTimer \in BOOLEAN /\ status \in Polls
  /\ camera \in BOOLEAN
  /\ headingMower \in View /\ headingTimer \in BOOLEAN /\ heading \in Polls
  /\ compassOf \in View
  /\ lightOn \in BOOLEAN /\ lightOf \in View
  /\ light \in [target: View, want: BOOLEAN]
  /\ heightTouchedFor \in View /\ heightDragging \in BOOLEAN
  /\ heightOf \in View \union {"user"}

ViewInit ==
  /\ viewed = Nowhere /\ away = FALSE
  /\ statusMower = Nowhere /\ statusTimer = FALSE /\ status = NoPoll
  /\ camera = FALSE
  /\ headingMower = Nowhere /\ headingTimer = FALSE /\ heading = NoPoll /\ compassOf = Nowhere
  /\ lightOn = FALSE /\ light = NoLight /\ lightOf = Nowhere
  /\ heightTouchedFor = Nowhere /\ heightDragging = FALSE /\ heightOf = Nowhere

\* scheduleStatus() and scheduleHeading(): whether a timer is armed.
Scheduled(mower, isHidden) == mower # Nowhere /\ ~isHidden

-----------------------------------------------------------------------------
(* The mower on the screen.                                                *)

\* selectMower(), with startStatusPolling() and the stopCompass() of stopCamera().
ViewMower(m) ==
  /\ viewed' = m
  /\ statusMower' = m /\ statusTimer' = Scheduled(m, away)
  /\ camera' = FALSE
  /\ headingMower' = Nowhere /\ headingTimer' = FALSE /\ compassOf' = Nowhere
  /\ lightOn' = FALSE /\ lightOf' = Nowhere
  /\ heightTouchedFor' = Nowhere /\ heightDragging' = FALSE
  /\ UNCHANGED <<away, status, heading, light, heightOf>>

\* loadMowers() finds the list empty: currentMower stays.
NoMowers ==
  /\ statusMower' = Nowhere /\ statusTimer' = FALSE
  /\ UNCHANGED <<viewed, away, status, headingVars, lightVars, heightVars>>

\* A start of the camera sets agora; one that fails clears it.
AgoraChanges ==
  /\ camera' = ~camera
  /\ UNCHANGED <<viewed, away, statusVars, headingMower, headingTimer, heading, compassOf,
                 lightVars, heightVars>>

\* A start that has joined: startCompass().
StartCompass ==
  /\ viewed # Nowhere /\ camera
  /\ headingMower' = viewed /\ headingTimer' = Scheduled(viewed, away)
  /\ UNCHANGED <<viewed, away, statusVars, camera, heading, compassOf, lightVars, heightVars>>

\* stopCamera(): stopCompass().
StopCompass ==
  /\ camera' = FALSE
  /\ headingMower' = Nowhere /\ headingTimer' = FALSE /\ compassOf' = Nowhere
  /\ UNCHANGED <<viewed, away, statusVars, heading, lightVars, heightVars>>

-----------------------------------------------------------------------------
(* The two chains of polls.                                                *)

StatusTick ==
  /\ statusTimer
  /\ IF status.asked \/ statusMower # viewed
       THEN statusTimer' = Scheduled(statusMower, away) /\ UNCHANGED status
       ELSE /\ statusTimer' = FALSE
            /\ status' = [asked |-> TRUE, name |-> viewed, tick |-> TRUE]
  /\ UNCHANGED <<viewed, away, statusMower, headingVars, lightVars, heightVars>>

\* A poll outside the chain: after a reconnect, or of repoll(), which follows up
\* a press on the headlight, the blades or a slider.
StatusAsked ==
  /\ ~status.asked
  /\ status' = [asked |-> TRUE, name |-> viewed, tick |-> FALSE]
  /\ UNCHANGED <<viewed, away, statusMower, statusTimer, headingVars, lightVars, heightVars>>

\* The light and the height of the answer, each of which it may lack.
PaintsLight ==
  \/ /\ light = NoLight
     /\ lightOn' = ~lightOn /\ lightOf' = status.name
  \/ UNCHANGED <<lightOn, lightOf>>

PaintsHeight ==
  \/ /\ heightTouchedFor # status.name /\ ~heightDragging
     /\ heightOf' = status.name
  \/ UNCHANGED heightOf

\* Bug: an answer is painted whatever mower is on the screen by now.
Answered_Anyway ==
  PaintsLight /\ PaintsHeight

\* An error and the deadline paint nothing either.
Answered ==
  IF status.name = viewed THEN PaintsLight /\ PaintsHeight
                          ELSE UNCHANGED <<lightOn, lightOf, heightOf>>

StatusSettles ==
  /\ status.asked
  /\ Answered
  /\ status' = NoPoll
  /\ statusTimer' = IF status.tick /\ statusMower = status.name
                    THEN Scheduled(statusMower, away) ELSE statusTimer
  /\ UNCHANGED <<viewed, away, statusMower, headingVars, light, heightTouchedFor, heightDragging>>

HeadingTick ==
  /\ headingTimer
  /\ IF heading.asked \/ headingMower # viewed \/ ~camera
       THEN headingTimer' = Scheduled(headingMower, away) /\ UNCHANGED heading
       ELSE /\ headingTimer' = FALSE
            /\ heading' = [asked |-> TRUE, name |-> viewed, tick |-> TRUE]
  /\ UNCHANGED <<viewed, away, statusVars, camera, headingMower, compassOf, lightVars, heightVars>>

HeadingSettles ==
  /\ heading.asked
  /\ compassOf' \in {compassOf} \union (IF heading.name = viewed THEN {viewed, Nowhere} ELSE {})
  /\ heading' = NoPoll
  /\ headingTimer' = IF headingMower = heading.name
                     THEN Scheduled(headingMower, away) ELSE headingTimer
  /\ UNCHANGED <<viewed, away, statusVars, camera, headingMower, lightVars, heightVars>>

-----------------------------------------------------------------------------
(* The document.                                                           *)

Leaves ==
  /\ ~away
  /\ away' = TRUE
  /\ statusTimer' = FALSE /\ headingTimer' = FALSE
  /\ UNCHANGED <<viewed, statusMower, status, camera, headingMower, heading, compassOf,
                 lightVars, heightVars>>

\* Bug: only the status is asked for again.
Returns_StatusOnly ==
  /\ away' = FALSE
  /\ statusTimer' = Scheduled(statusMower, FALSE)
  /\ UNCHANGED <<viewed, statusMower, status, headingVars, lightVars, heightVars>>

\* visibilitychange, or a pageshow without one.
Returns ==
  /\ away' = FALSE
  /\ statusTimer' = Scheduled(statusMower, FALSE)
  /\ headingTimer' = Scheduled(headingMower, FALSE)
  /\ UNCHANGED <<viewed, statusMower, status, camera, headingMower, heading, compassOf,
                 lightVars, heightVars>>

BackOnline ==
  /\ statusTimer' = Scheduled(statusMower, away)
  /\ UNCHANGED <<viewed, away, statusMower, status, headingVars, lightVars, heightVars>>

-----------------------------------------------------------------------------
(* The headlight's button and the height slider.                           *)

LightPressed ==
  /\ light = NoLight /\ viewed # Nowhere
  /\ light' = [target |-> viewed, want |-> ~lightOn]
  /\ lightOn' = ~lightOn /\ lightOf' = viewed
  /\ UNCHANGED <<viewed, away, statusVars, headingVars, heightVars>>

\* The POST has landed, or failed: the flip is taken back if it is still there.
LightSettles(landed) ==
  /\ light # NoLight
  /\ light' = NoLight
  /\ IF ~landed /\ viewed = light.target /\ lightOn = light.want
       THEN lightOn' = ~light.want /\ lightOf' = light.target
       ELSE UNCHANGED <<lightOn, lightOf>>
  /\ UNCHANGED <<viewed, away, statusVars, headingVars, heightVars>>

SliderMoves ==
  /\ heightDragging' = TRUE /\ heightTouchedFor' = viewed /\ heightOf' = "user"
  /\ UNCHANGED <<viewed, away, statusVars, headingVars, lightVars>>

SliderReleased ==
  /\ heightDragging
  /\ heightDragging' = FALSE
  /\ UNCHANGED <<viewed, away, statusVars, headingVars, lightVars, heightTouchedFor, heightOf>>

ReadoutNext ==
  \/ \E m \in ViewMowers : ViewMower(m)
  \/ NoMowers \/ AgoraChanges \/ StartCompass \/ StopCompass
  \/ StatusTick \/ StatusAsked \/ StatusSettles \/ HeadingTick \/ HeadingSettles
  \/ Leaves \/ Returns \/ BackOnline
  \/ LightPressed \/ (\E landed \in BOOLEAN : LightSettles(landed))
  \/ SliderMoves \/ SliderReleased

ReadoutSpec == ViewInit /\ [][ReadoutNext]_viewVars

-----------------------------------------------------------------------------
(* Properties.                                                             *)

\* On a visible page each chain of polls has a timer, or a poll under way that
\* will arm it: no order of switches, hiding, camera stops and polls that find
\* another one in flight lets the readout go stale for good.
PollingGoesOn ==
  /\ statusMower # Nowhere /\ ~away
       => statusTimer \/ (status.tick /\ status.name = statusMower)
  /\ headingMower # Nowhere /\ ~away
       => headingTimer \/ (heading.tick /\ heading.name = headingMower)

\* A light shown as on and a compass that shows degrees are of the mower on the
\* screen, and a slider that telemetry may no longer move stands where the user
\* put it: no late answer and no late failure of a POST writes across a switch.
ShownIsThisMowers ==
  /\ lightOn => lightOf = viewed
  /\ compassOf \in {Nowhere, viewed}
  /\ viewed # Nowhere /\ heightTouchedFor = viewed => heightOf = "user"
=============================================================================
