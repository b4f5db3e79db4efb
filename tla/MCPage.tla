------------------------------- MODULE MCPage -------------------------------
(***************************************************************************)
(* The four parts of the page: the joystick's link, the action buttons,    *)
(* the camera, and what it shows.  All they share is the mower on the      *)
(* screen, and each does its own with a switch, so a behaviour is of one   *)
(* of them.                                                                *)
(***************************************************************************)
EXTENDS BrowserLink, Controls, Camera, Readout, TLC

VARIABLE part

pageVars == <<part, browserVars, ctlVars, camVars, viewVars>>

\* A part that stands still has one initial state.
PageInit ==
  /\ part \in {"link", "controls", "camera", "readout"}
  /\ BrowserInit /\ ControlsInit /\ CameraInit /\ ViewInit
  /\ part # "link" => nipple = "ready"
  /\ part # "controls" => currentMower = CHOOSE m \in CtlMowers : TRUE

PageNext ==
  \/ part = "link" /\ BrowserNext /\ UNCHANGED <<part, ctlVars, camVars, viewVars>>
  \/ part = "controls" /\ ControlsNext /\ UNCHANGED <<part, browserVars, camVars, viewVars>>
  \/ part = "camera" /\ CameraNext /\ UNCHANGED <<part, browserVars, ctlVars, viewVars>>
  \/ part = "readout" /\ ReadoutNext /\ UNCHANGED <<part, browserVars, ctlVars, camVars>>

PageSpec == PageInit /\ [][PageNext]_pageVars

\* Of the sets with a model value each, the ones that are worth it.
MCSymmetry == Permutations(Clients) \union Permutations(Stops) \union Permutations(CamMowers)
=============================================================================
