------------------------------- MODULE Uplink -------------------------------
(***************************************************************************)
(* The HC33's uplink: association with the HaLow access point at boot      *)
(* (main.cpp, halow_init.cpp), and the softAP with NAPT that lets the      *)
(* mower use it (soft_ap.cpp), which the main loop takes up and down with  *)
(* the association (halow_softap_sync()).                                  *)
(*                                                                         *)
(* The association changes under the loop task's feet; every step of       *)
(* soft_ap_begin() may fail, and leaves behind what the steps before it    *)
(* did.  A reboot, planned or by the task watchdog, starts over.           *)
(***************************************************************************)
EXTENDS Naturals

CONSTANT MaxAttempts    \* attempts to associate before a reboot (8)

ASSUME UplinkAssumption == MaxAttempts \in Nat \ {0}

VARIABLES
  sta,         \* mmwlan_get_sta_state()
  leased,      \* the IP layer has an address for this association
  at,          \* where the loop task is: a step of net_connect() or of
               \* soft_ap_begin(), "loop", or "reboot"
  attempt,
  polled,      \* `state` of the halow_softap_sync() that called soft_ap_begin();
               \* "setup" when setup() did
  last_state,  \* its static
  s_softap_up,
  begun,       \* how the last soft_ap_begin() ended
  ap           \* the WiFi driver, the AP's netif and its DHCP server

upVars == <<sta, leased, at, attempt, polled, last_state, s_softap_up, begun, ap>>

Sta == {"disabled", "connecting", "connected"}

Connects == {"init", "enable", "wait", "check", "address"}
Begins   == {"mode", "stop_dhcps", "ip_info", "offer", "softAP", "dhcps", "napt"}

\* `starting`: the driver has been started and its AP-start event not yet
\* handled.  `offer`: the resolver the DHCP server hands out.
NoAp == [mode |-> FALSE, starting |-> FALSE, dhcps |-> FALSE, ip |-> FALSE,
         offer |-> "itself", radio |-> FALSE, napt |-> FALSE]

ApState == [mode: BOOLEAN, starting: BOOLEAN, dhcps: BOOLEAN, ip: BOOLEAN,
            offer: {"itself", "lease", "other"}, radio: BOOLEAN, napt: BOOLEAN]

UplinkTypeOK ==
  /\ sta \in Sta
  /\ leased \in BOOLEAN
  /\ at \in Connects \union Begins \union {"loop", "reboot"}
  /\ attempt \in 1..MaxAttempts
  /\ polled \in Sta \union {"setup"}
  /\ last_state \in Sta
  /\ s_softap_up \in BOOLEAN
  /\ begun \in {"never", "ok", "failed"}
  /\ ap \in ApState

UplinkInit ==
  /\ sta = "disabled"
  /\ leased = FALSE
  /\ at = "init"
  /\ attempt = 1
  /\ polled = "setup"
  /\ last_state = "disabled"
  /\ s_softap_up = FALSE
  /\ begun = "never"
  /\ ap = NoAp

-----------------------------------------------------------------------------
(* The HaLow link and the system's event task.                             *)

LinkUp ==
  /\ sta = "connecting"
  /\ sta' = "connected"
  /\ UNCHANGED <<leased, at, attempt, polled, last_state, s_softap_up, begun, ap>>

LinkDown ==
  /\ sta = "connected"
  /\ sta' = "connecting"
  /\ leased' = FALSE
  /\ UNCHANGED <<at, attempt, polled, last_state, s_softap_up, begun, ap>>

Lease ==
  /\ sta = "connected" /\ ~leased
  /\ leased' = TRUE
  /\ UNCHANGED <<sta, at, attempt, polled, last_state, s_softap_up, begun, ap>>

\* esp_netif's handler of the AP-start event starts the DHCP server.
ApStarted ==
  /\ ap.starting
  /\ ap' = [ap EXCEPT !.starting = FALSE, !.dhcps = TRUE]
  /\ UNCHANGED <<sta, leased, at, attempt, polled, last_state, s_softap_up, begun>>

-----------------------------------------------------------------------------
(* net_connect().                                                          *)

ConnectStep(here, there) ==
  /\ at = here
  /\ at' = there
  /\ UNCHANGED <<polled, last_state, s_softap_up, begun, ap>>

\* The next attempt, or the reboot after the last one.
NextAttempt(here) ==
  /\ ConnectStep(here, IF attempt < MaxAttempts THEN "enable" ELSE "reboot")
  /\ attempt' = IF attempt < MaxAttempts THEN attempt + 1 ELSE attempt

halow_init == \* FALSE is retried for ever
  /\ ConnectStep("init", "enable")
  /\ UNCHANGED <<sta, leased, attempt>>

EnableOk ==
  /\ ConnectStep("enable", "wait")
  /\ sta' = IF sta = "disabled" THEN "connecting" ELSE sta
  /\ UNCHANGED <<leased, attempt>>

EnableFails ==
  /\ NextAttempt("enable")
  /\ sta' = "disabled" /\ leased' = FALSE

\* Connected, as far as the `while` has seen.
SeesConnected ==
  /\ sta = "connected"
  /\ ConnectStep("wait", "check")
  /\ UNCHANGED <<sta, leased, attempt>>

Stuck ==
  /\ sta # "connected"
  /\ NextAttempt("wait")
  /\ sta' = "disabled" /\ leased' = FALSE

\* The state is read once more, and may have changed.
Check ==
  /\ IF sta = "connected"
       THEN ConnectStep("check", "address") /\ UNCHANGED attempt
       ELSE NextAttempt("check")
  /\ UNCHANGED <<sta, leased>>

AddressBound ==
  /\ leased
  /\ ConnectStep("address", "mode")
  /\ UNCHANGED <<sta, leased, attempt>>

NoAddress ==
  /\ ~leased
  /\ ConnectStep("address", "reboot")
  /\ UNCHANGED <<sta, leased, attempt>>

NetConnect ==
  \/ halow_init \/ EnableOk \/ EnableFails \/ SeesConnected
  \/ Stuck \/ Check \/ AddressBound \/ NoAddress

\* RAM and radios start over.
StartsOver ==
  /\ sta' = "disabled" /\ leased' = FALSE
  /\ at' = "init" /\ attempt' = 1
  /\ polled' = "setup" /\ last_state' = "disabled"
  /\ s_softap_up' = FALSE /\ begun' = "never" /\ ap' = NoAp

Restart == at = "reboot" /\ StartsOver

\* The task watchdog is armed at the end of setup().
Panic ==
  /\ at = "loop" \/ (at \in Begins /\ polled # "setup")
  /\ StartsOver

-----------------------------------------------------------------------------
(* soft_ap_begin(), a step at a time, and the sync that calls it.          *)

\* Bug: the flag that says the AP is up is set before NAPT is on.
Return_UpEarly(outcome) ==
  /\ begun' = outcome
  /\ s_softap_up' = (outcome = "ok" \/ s_softap_up \/ at = "napt")
  /\ at' = "loop"
  /\ last_state' = IF polled = "setup" THEN last_state ELSE polled
  /\ polled' = "setup"

\* soft_ap_begin() returns; the sync then records the state it had read,
\* whatever the outcome.
Return(outcome) ==
  /\ begun' = outcome
  /\ s_softap_up' = (outcome = "ok" \/ s_softap_up)
  /\ at' = "loop"
  /\ last_state' = IF polled = "setup" THEN last_state ELSE polled
  /\ polled' = "setup"

FailAt(here) ==
  /\ at = here
  /\ Return("failed")
  /\ UNCHANGED <<sta, leased, attempt, ap>>

Does(here, there, newAp) ==
  /\ at = here
  /\ at' = there
  /\ ap' = newAp
  /\ UNCHANGED <<sta, leased, attempt, polled, last_state, s_softap_up, begun>>

\* Starting a driver that runs already is a no-op.
Mode == Does("mode", "stop_dhcps",
             IF ap.mode THEN ap ELSE [ap EXCEPT !.mode = TRUE, !.starting = TRUE])

StopDhcps == Does("stop_dhcps", "ip_info", [ap EXCEPT !.dhcps = FALSE])

SetIpInfo == Does("ip_info", "offer", [ap EXCEPT !.ip = TRUE])

\* The resolver of the lease, if there is one; a server that runs already
\* refuses the option, and the return value is not looked at.
Offer == Does("offer", "softAP",
              IF ap.dhcps THEN ap
              ELSE [ap EXCEPT !.offer = IF leased THEN "lease" ELSE "other"])

SoftAP == Does("softAP", "dhcps", [ap EXCEPT !.radio = TRUE])

StartDhcps == Does("dhcps", "napt", [ap EXCEPT !.dhcps = TRUE])

EnableNapt ==
  /\ at = "napt"
  /\ ap' = [ap EXCEPT !.napt = TRUE]
  /\ Return("ok")
  /\ UNCHANGED <<sta, leased, attempt>>

soft_ap_begin ==
  \/ Mode \/ StopDhcps \/ SetIpInfo \/ Offer \/ SoftAP \/ StartDhcps \/ EnableNapt
  \/ \E here \in {"mode", "stop_dhcps", "ip_info", "softAP", "dhcps", "napt"} : FailAt(here)

\* Bug: the flag is cleared and the AP left as it is.
soft_ap_stop_LeavesRadio == UNCHANGED ap /\ s_softap_up' = FALSE

\* softAPdisconnect(true): the DHCP server, the netif and the driver go.
soft_ap_stop == ap' = NoAp /\ s_softap_up' = FALSE

\* Bug: the state is recorded on the way up only.
SyncDown_Forgets ==
  /\ at = "loop" /\ sta # last_state /\ sta # "connected"
  /\ UNCHANGED last_state
  /\ IF s_softap_up THEN soft_ap_stop ELSE UNCHANGED <<ap, s_softap_up>>
  /\ UNCHANGED <<sta, leased, at, attempt, polled, begun>>

\* halow_softap_sync() when the polled state has changed; otherwise it does nothing.
SyncDown ==
  /\ at = "loop" /\ sta # last_state /\ sta # "connected"
  /\ last_state' = sta
  /\ IF s_softap_up THEN soft_ap_stop ELSE UNCHANGED <<ap, s_softap_up>>
  /\ UNCHANGED <<sta, leased, at, attempt, polled, begun>>

SyncUp ==
  /\ at = "loop" /\ sta # last_state /\ sta = "connected"
  /\ IF s_softap_up
       THEN last_state' = sta /\ UNCHANGED <<at, polled>>
       ELSE at' = "mode" /\ polled' = sta /\ UNCHANGED last_state
  /\ UNCHANGED <<sta, leased, attempt, s_softap_up, begun, ap>>

halow_softap_sync == SyncDown \/ SyncUp

LoopTask == NetConnect \/ Restart \/ soft_ap_begin \/ halow_softap_sync

UplinkNext == LoopTask \/ LinkUp \/ LinkDown \/ Lease \/ ApStarted \/ Panic

\* The loop task runs on; nothing is promised of the link.
UplinkFairness == WF_upVars(LoopTask)

UplinkSpec == UplinkInit /\ [][UplinkNext]_upVars /\ UplinkFairness

-----------------------------------------------------------------------------
(* Properties.                                                             *)

\* An AP the flag calls up serves the mower: every step of soft_ap_begin() has
\* been taken, in one call or over a failed one, and none undone since.
UpMeansServing ==
  s_softap_up => ap.mode /\ ap.radio /\ ap.ip /\ ap.dhcps /\ ap.napt

\* A mower sees the AP only while the association the loop last saw is up,
\* unless a soft_ap_begin() failed half-way and left the AP on the air.
OnAirMeansUplink ==
  at = "loop" /\ last_state = "connecting" /\ ap.radio
    => begun = "failed" /\ ~s_softap_up

\* An uplink that is gone for good takes the flagged AP with it, and one that
\* stays brings it up, unless the last soft_ap_begin() failed: no edge is missed
\* although the state is only polled.
FollowsTheLink ==
  /\ <>[](sta # "connected") => <>[](~s_softap_up)
  /\ <>[](sta = "connected" /\ begun # "failed") => <>[]s_softap_up
=============================================================================
