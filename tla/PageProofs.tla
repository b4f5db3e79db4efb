----------------------------- MODULE PageProofs ------------------------------
(***************************************************************************)
(* The page's controls, camera and readouts, of which MCPage checks small  *)
(* instances: for any mowers, stops, clients of a channel and runs of      *)
(* stopCamera().                                                           *)
(***************************************************************************)
EXTENDS Controls, Camera, Readout, FiniteSetTheorems, TLAPS

-----------------------------------------------------------------------------
(* The action buttons.                                                     *)

PostState == [to: CtlMowers \union {NoPost}, act: Actions \union {NoPost},
              at: {"free", "network", "done", "lost"}, awaited: BOOLEAN]

New(m, a) == [to |-> m, act |-> a, at |-> "network", awaited |-> TRUE]

Awaited(a) == {p \in Posts : post[p].awaited /\ post[p].act = a}

OneOrNone == \A a \in Actions : IF a \in pending THEN \E p \in Posts : Awaited(a) = {p}
                                                 ELSE Awaited(a) = {}

\* The arm is of the mower on the screen, and nothing has come after it.
ArmIsHere == armed => armedFor = currentMower /\ ~broken

\* After such a STOP the blade POSTs under way all turn the disc off.
OnlyOffs ==
  \A m \in CtlMowers : stopped[m] =>
    /\ \A p \in BladePosts(m) : post[p].act = "blades-off"
    /\ BladePosts(m) = {} => ~blades[m]

ControlsInv == ControlsTypeOK /\ OneOrNone /\ ArmIsHere /\ OnlyOffs

-----------------------------------------------------------------------------
(* What runAction() makes of the POSTs.                                    *)

LEMMA NewFields ==
  \A m, a : /\ New(m, a).to = m /\ New(m, a).act = a
            /\ New(m, a).at = "network" /\ New(m, a).awaited = TRUE
BY DEF New

LEMMA Firing ==
  ASSUME ControlsTypeOK, NEW acts \in SUBSET Actions, runActions(acts)
  PROVE  /\ pending' = pending \union acts
         /\ post' \in [Posts -> PostState]
         /\ \E slot \in [acts \ pending -> Posts] :
              /\ \A a, b \in acts \ pending : a # b => slot[a] # slot[b]
              /\ \A a \in acts \ pending : post[slot[a]] = Idle /\ post'[slot[a]] = New(currentMower, a)
              /\ \A p \in Posts : (\A a \in acts \ pending : slot[a] # p) => post'[p] = post[p]
<1> DEFINE fired == acts \ pending
<1>1. PICK slot \in [fired -> {p \in Posts : post[p] = Idle}] :
        /\ \A a, b \in fired : a # b => slot[a] # slot[b]
        /\ post' = [p \in Posts |->
             IF \E a \in fired : slot[a] = p
             THEN New(currentMower, CHOOSE a \in fired : slot[a] = p)
             ELSE post[p]]
  BY DEF runActions, Fires, New
<1>2. \A a \in fired : (CHOOSE b \in fired : slot[b] = slot[a]) = a
  BY <1>1
<1>3. \A a \in fired : post[slot[a]] = Idle /\ post'[slot[a]] = New(currentMower, a)
  BY <1>1, <1>2
<1>4. \A p \in Posts : (\A a \in fired : slot[a] # p) => post'[p] = post[p]
  BY <1>1
<1>5. \A a \in fired : New(currentMower, a) \in PostState
  BY DEF New, PostState, ControlsTypeOK
<1>6. \A p \in Posts : post[p] \in PostState
  BY DEF PostState, ControlsTypeOK
<1>7. \A p \in Posts : post'[p] \in PostState
  <2> SUFFICES ASSUME NEW p \in Posts PROVE post'[p] \in PostState
    OBVIOUS
  <2>1. CASE \E a \in fired : slot[a] = p
    BY <1>3, <1>5, <2>1
  <2>2. CASE \A a \in fired : slot[a] # p
    BY <1>4, <1>6, <2>2
  <2> QED
    BY <2>1, <2>2
<1>8. post' \in [Posts -> PostState]
  BY <1>1, <1>7
<1>9. slot \in [fired -> Posts]
  BY <1>1
<1>10. pending' = pending \union acts
  BY DEF runActions, Fires
<1> QED
  BY <1>1, <1>3, <1>4, <1>8, <1>9, <1>10

\* No action is awaited twice after it.
LEMMA FiringAwaits ==
  ASSUME ControlsTypeOK, OneOrNone, NEW acts \in SUBSET Actions, runActions(acts)
  PROVE  OneOrNone'
<1>1. PICK slot \in [acts \ pending -> Posts] :
        /\ \A a, b \in acts \ pending : a # b => slot[a] # slot[b]
        /\ \A a \in acts \ pending : post[slot[a]] = Idle /\ post'[slot[a]] = New(currentMower, a)
        /\ \A p \in Posts : (\A a \in acts \ pending : slot[a] # p) => post'[p] = post[p]
  BY Firing
<1>2. pending' = pending \union acts
  BY Firing
<1> SUFFICES ASSUME NEW a \in Actions
             PROVE  IF a \in pending' THEN \E p \in Posts : Awaited(a)' = {p} ELSE Awaited(a)' = {}
  BY DEF OneOrNone
<1>3. \A p \in Posts : post[p] = Idle => ~post[p].awaited
  BY DEF Idle
<1>4. CASE a \in acts \ pending
  <2>1. Awaited(a) = {}
    BY <1>4 DEF OneOrNone
  <2>2. \A p \in Posts : post'[p].awaited /\ post'[p].act = a <=> p = slot[a]
    <3> TAKE p \in Posts
    <3>1. CASE \E b \in acts \ pending : slot[b] = p
      <4>1. PICK b \in acts \ pending : slot[b] = p
        BY <3>1
      <4>2. post'[p].awaited = TRUE /\ post'[p].act = b
        BY <1>1, <4>1, NewFields
      <4>3. p = slot[a] <=> b = a
        BY <1>1, <1>4, <4>1
      <4> QED
        BY <4>2, <4>3
    <3>2. CASE \A b \in acts \ pending : slot[b] # p
      BY <1>1, <1>4, <2>1, <3>2 DEF Awaited
    <3> QED
      BY <3>1, <3>2
  <2>3. Awaited(a)' = {slot[a]}
    BY <1>4, <2>2 DEF Awaited
  <2> QED
    BY <1>2, <1>4, <2>3
<1>5. CASE a \notin acts \ pending
  <2>1. \A p \in Posts : post'[p].awaited /\ post'[p].act = a <=> post[p].awaited /\ post[p].act = a
    <3> TAKE p \in Posts
    <3>1. CASE \E b \in acts \ pending : slot[b] = p
      <4>1. PICK b \in acts \ pending : slot[b] = p
        BY <3>1
      <4>2. post'[p].act = b /\ ~post[p].awaited
        BY <1>1, <1>3, <4>1, NewFields
      <4> QED
        BY <1>5, <4>1, <4>2
    <3>2. CASE \A b \in acts \ pending : slot[b] # p
      BY <1>1, <3>2
    <3> QED
      BY <3>1, <3>2
  <2>2. Awaited(a)' = Awaited(a)
    BY <2>1 DEF Awaited
  <2>3. a \in pending' <=> a \in pending
    BY <1>2, <1>5
  <2> QED
    BY <2>2, <2>3 DEF OneOrNone
<1> QED
  BY <1>4, <1>5

\* The blade POSTs of a mower after it: the ones before, and new ones if the mower
\* is on the screen.
LEMMA FiringBlades ==
  ASSUME ControlsTypeOK, NEW acts \in SUBSET Actions, runActions(acts), NEW m \in CtlMowers
  PROVE  /\ BladePosts(m) \subseteq BladePosts(m)'
         /\ \A p \in BladePosts(m)' \ BladePosts(m) :
              m = currentMower /\ post'[p].act \in acts \ pending
         /\ \A p \in BladePosts(m) : post'[p] = post[p]
         /\ m = currentMower /\ "blades-off" \in acts \ pending => BladePosts(m)' # {}
<1>1. PICK slot \in [acts \ pending -> Posts] :
        /\ \A a \in acts \ pending : post[slot[a]] = Idle /\ post'[slot[a]] = New(currentMower, a)
        /\ \A p \in Posts : (\A a \in acts \ pending : slot[a] # p) => post'[p] = post[p]
  BY Firing
<1>2. \A p \in BladePosts(m) : post'[p] = post[p]
  BY <1>1 DEF BladePosts, Idle
<1>3. BladePosts(m) \subseteq BladePosts(m)'
  BY <1>2 DEF BladePosts
<1>4. \A p \in BladePosts(m)' \ BladePosts(m) : m = currentMower /\ post'[p].act \in acts \ pending
  <2> TAKE p \in BladePosts(m)' \ BladePosts(m)
  <2>1. p \in Posts /\ post'[p].to = m /\ post'[p] # post[p]
    BY DEF BladePosts
  <2>2. PICK a \in acts \ pending : slot[a] = p
    BY <1>1, <2>1
  <2>3. post'[p].to = currentMower /\ post'[p].act = a
    BY <1>1, <2>2, NewFields
  <2> QED
    BY <2>1, <2>2, <2>3
<1>5. ASSUME m = currentMower, "blades-off" \in acts \ pending
      PROVE  slot["blades-off"] \in BladePosts(m)'
  BY <1>1, <1>5, NewFields DEF BladePosts
<1> QED
  BY <1>2, <1>3, <1>4, <1>5

-----------------------------------------------------------------------------
(* The invariant.                                                          *)

LEMMA ControlsInvInit == ControlsInit => ControlsInv
<1> SUFFICES ASSUME ControlsInit PROVE ControlsInv
  OBVIOUS
<1>1. ControlsTypeOK
  BY DEF ControlsInit, ControlsTypeOK, Idle
<1>2. OneOrNone
  BY DEF ControlsInit, OneOrNone, Awaited, Idle
<1> QED
  BY <1>1, <1>2 DEF ControlsInit, ControlsInv, ArmIsHere, OnlyOffs

LEMMA ControlsInvTap ==
  ControlsInv /\ (Arm \/ ArmTimesOut \/ PageHides \/ \E m \in CtlMowers : SelectMower(m) \/ DiscStops(m))
    => ControlsInv'
<1> SUFFICES ASSUME ControlsInv, Arm \/ ArmTimesOut \/ PageHides \/ \E m \in CtlMowers : SelectMower(m) \/ DiscStops(m)
             PROVE  ControlsInv'
  OBVIOUS
<1>1. ControlsTypeOK'
  BY DEF ControlsInv, ControlsTypeOK, Arm, ArmTimesOut, PageHides, BreaksTaps, SelectMower, DiscStops, disarmBlades
<1>2. post' = post /\ pending' = pending /\ stopped' = stopped
  BY DEF Arm, ArmTimesOut, PageHides, BreaksTaps, SelectMower, DiscStops
<1>3. OneOrNone'
  BY <1>2 DEF ControlsInv, OneOrNone, Awaited
<1>4. ArmIsHere'
  BY DEF ControlsInv, ArmIsHere, Arm, ArmTimesOut, PageHides, BreaksTaps, SelectMower, DiscStops, disarmBlades
<1>5. \A m \in CtlMowers : ~blades[m] => ~blades'[m]
  BY DEF ControlsInv, ControlsTypeOK, Arm, ArmTimesOut, PageHides, BreaksTaps, SelectMower, DiscStops
<1>6. OnlyOffs'
  BY <1>2, <1>5 DEF ControlsInv, OnlyOffs, BladePosts
<1> QED
  BY <1>1, <1>3, <1>4, <1>6 DEF ControlsInv

LEMMA ControlsInvFire == ControlsInv /\ (Confirm \/ BladesOff \/ Stop) => ControlsInv'
<1> SUFFICES ASSUME ControlsInv, Confirm \/ BladesOff \/ Stop PROVE ControlsInv'
  OBVIOUS
<1>1. PICK acts \in SUBSET Actions : runActions(acts) /\
        \/ acts = {"blades-on"} /\ Confirm
        \/ acts = {"blades-off"} /\ BladesOff
        \/ acts = {"stop", "blades-off"} /\ Stop
  BY DEF Confirm, BladesOff, Stop, Actions
<1>2. OneOrNone'
  BY <1>1, FiringAwaits DEF ControlsInv
<1>3. ControlsTypeOK'
  <2>1. post' \in [Posts -> PostState] /\ pending' \subseteq Actions
    BY <1>1, Firing DEF ControlsInv, ControlsTypeOK
  <2>2. stopped' \in [CtlMowers -> BOOLEAN]
    BY DEF ControlsInv, ControlsTypeOK, Confirm, BladesOff, Stop
  <2> QED
    BY <2>1, <2>2 DEF ControlsInv, ControlsTypeOK, PostState, Confirm, BladesOff, Stop, disarmBlades,
       BreaksTaps
<1>4. ArmIsHere'
  BY DEF ArmIsHere, Confirm, BladesOff, Stop, disarmBlades
<1>5. ASSUME NEW m \in CtlMowers, stopped'[m]
      PROVE  /\ \A p \in BladePosts(m)' : post'[p].act = "blades-off"
             /\ BladePosts(m)' = {} => ~blades'[m]
  <2>1. /\ BladePosts(m) \subseteq BladePosts(m)'
        /\ \A p \in BladePosts(m)' \ BladePosts(m) :
             m = currentMower /\ post'[p].act \in acts \ pending
        /\ \A p \in BladePosts(m) : post'[p] = post[p]
        /\ m = currentMower /\ "blades-off" \in acts \ pending => BladePosts(m)' # {}
    BY <1>1, FiringBlades DEF ControlsInv
  <2>2. blades' = blades
    BY DEF Confirm, BladesOff, Stop
  <2>3. \A p \in BladePosts(m)' : post'[p].act \in {"blades-on", "blades-off"}
    BY DEF BladePosts
  <2>4. CASE Stop /\ m = currentMower /\ acts = {"stop", "blades-off"}
    <3>1. BladePosts(m) = {} /\ "blades-off" \notin pending
      BY <1>5, <2>4 DEF Stop, ControlsInv, ControlsTypeOK
    <3> QED
      BY <2>1, <2>3, <2>4, <3>1
  <2>5. CASE m # currentMower \/ (BladesOff /\ acts = {"blades-off"})
    <3>1. stopped[m]
      BY <1>5, <2>5 DEF Confirm, BladesOff, Stop, ControlsInv, ControlsTypeOK
    <3>2. /\ \A p \in BladePosts(m) : post[p].act = "blades-off"
          /\ BladePosts(m) = {} => ~blades[m]
      BY <3>1 DEF ControlsInv, OnlyOffs
    <3> QED
      BY <2>1, <2>2, <2>5, <3>2
  <2>6. CASE Confirm /\ m = currentMower
    BY <1>5, <2>6 DEF Confirm, ControlsInv, ControlsTypeOK
  <2> QED
    BY <1>1, <2>4, <2>5, <2>6
<1>6. OnlyOffs'
  BY <1>5 DEF OnlyOffs
<1> QED
  BY <1>2, <1>3, <1>4, <1>6 DEF ControlsInv

\* A POST on the network that is handled or lost leaves its mower's blade POSTs,
\* and is awaited as before.
LEMMA StopAnswered ==
  ASSUME ControlsTypeOK, NEW p \in Posts, post[p].at = "network", NEW at \in {"done", "lost"},
         Frees(p, at, post[p].awaited)
  PROVE  /\ post' \in [Posts -> PostState]
         /\ \A a \in Actions : Awaited(a)' = Awaited(a)
         /\ \A m \in CtlMowers : /\ BladePosts(m)' = BladePosts(m) \ {p}
                                 /\ \A q \in BladePosts(m)' : post'[q] = post[q]
<1>1. post[p] \in PostState /\ post \in [Posts -> PostState]
  BY DEF ControlsTypeOK, PostState
<1>2. Idle \in PostState /\ Idle.awaited = FALSE /\ Idle.at = "free"
  BY DEF Idle, PostState
<1>3. PICK new \in PostState : /\ post' = [post EXCEPT ![p] = new]
                               /\ new.at # "network" /\ (new.awaited <=> post[p].awaited)
                              /\ (post[p].awaited => new.act = post[p].act)
  <2>1. CASE post[p].awaited
    <3>1. [post[p] EXCEPT !.at = at, !.awaited = post[p].awaited] \in PostState
      BY <1>1 DEF PostState
    <3> QED
      BY <1>1, <2>1, <3>1 DEF Frees, PostState
  <2>2. CASE ~post[p].awaited
    BY <1>1, <1>2, <2>2 DEF Frees, PostState
  <2> QED
    BY <2>1, <2>2
<1>4. \A q \in Posts : q # p => post'[q] = post[q]
  BY <1>1, <1>3
<1>5. post'[p] = new /\ post' \in [Posts -> PostState]
  BY <1>1, <1>3
<1>6. \A a \in Actions : Awaited(a)' = Awaited(a)
  BY <1>3, <1>4, <1>5 DEF Awaited
<1>7. ASSUME NEW m \in CtlMowers
      PROVE  /\ BladePosts(m)' = BladePosts(m) \ {p}
             /\ \A q \in BladePosts(m)' : post'[q] = post[q]
  BY <1>3, <1>4, <1>5 DEF BladePosts
<1> QED
  BY <1>5, <1>6, <1>7

LEMMA ControlsInvHandled ==
  ASSUME ControlsInv, NEW p \in Posts, Handled(p) \/ Lost(p)
  PROVE  ControlsInv'
<1>1. post[p].at = "network" /\ \E at \in {"done", "lost"} : Frees(p, at, post[p].awaited)
  BY DEF Handled, Lost
<1>2. /\ post' \in [Posts -> PostState]
      /\ \A a \in Actions : Awaited(a)' = Awaited(a)
      /\ \A m \in CtlMowers : /\ BladePosts(m)' = BladePosts(m) \ {p}
                              /\ \A q \in BladePosts(m)' : post'[q] = post[q]
  BY <1>1, StopAnswered DEF ControlsInv
<1>3. blades' \in [CtlMowers -> BOOLEAN] /\ stopped' \in [CtlMowers -> BOOLEAN]
  BY DEF ControlsInv, ControlsTypeOK, Handled, Lost
<1>4. UNCHANGED <<currentMower, armed, armedFor, broken, pending>>
  BY DEF Handled, Lost
<1>5. ControlsTypeOK'
  BY <1>2, <1>3, <1>4 DEF ControlsInv, ControlsTypeOK, PostState
<1>6. OneOrNone' /\ ArmIsHere'
  BY <1>2, <1>4 DEF ControlsInv, OneOrNone, ArmIsHere
<1>7. ASSUME NEW m \in CtlMowers, stopped'[m]
      PROVE  /\ \A q \in BladePosts(m)' : post'[q].act = "blades-off"
             /\ BladePosts(m)' = {} => ~blades'[m]
  <2>1. stopped[m]
    BY <1>7 DEF Handled, Lost, ControlsInv, ControlsTypeOK
  <2>2. /\ \A q \in BladePosts(m) : post[q].act = "blades-off"
        /\ BladePosts(m) = {} => ~blades[m]
    BY <2>1 DEF ControlsInv, OnlyOffs
  <2>3. CASE p \in BladePosts(m)
    <3>1. post[p].act = "blades-off" /\ post[p].to = m
      BY <2>2, <2>3 DEF BladePosts
    <3>2. blades'[m] = FALSE
      BY <1>7, <3>1 DEF Handled, Lost, ControlsInv, ControlsTypeOK
    <3> QED
      BY <1>2, <2>2, <3>2
  <2>4. CASE p \notin BladePosts(m)
    <3>1. post[p].to # m \/ post[p].act \notin {"blades-on", "blades-off"}
      BY <1>1, <2>4 DEF BladePosts
    <3>2. blades'[m] = blades[m]
      BY <3>1 DEF Handled, Lost, ControlsInv, ControlsTypeOK
    <3> QED
      BY <1>2, <2>2, <2>4, <3>2
  <2> QED
    BY <2>3, <2>4
<1> QED
  BY <1>5, <1>6, <1>7 DEF ControlsInv, OnlyOffs

LEMMA ControlsInvSettle ==
  ASSUME ControlsInv, NEW p \in Posts, Settle(p)
  PROVE  ControlsInv'
<1>1. post[p] \in PostState /\ post \in [Posts -> PostState] /\ post[p].awaited
  BY DEF ControlsInv, ControlsTypeOK, PostState, Settle
<1>2. Idle \in PostState /\ Idle.awaited = FALSE /\ Idle.at = "free"
  BY DEF Idle, PostState
<1>3. PICK new \in PostState :
        /\ post' = [post EXCEPT ![p] = new]
        /\ ~new.awaited
        /\ IF post[p].at = "network" THEN new.at = "network" /\ new.to = post[p].to /\ new.act = post[p].act
                                    ELSE new.at # "network"
  <2>1. CASE post[p].at = "network"
    <3>1. [post[p] EXCEPT !.at = post[p].at, !.awaited = FALSE] \in PostState
      BY <1>1 DEF PostState
    <3> QED
      BY <1>1, <2>1, <3>1 DEF Settle, Frees, PostState
  <2>2. CASE post[p].at # "network"
    BY <1>2, <2>2 DEF Settle, Frees
  <2> QED
    BY <2>1, <2>2
<1>4. /\ \A q \in Posts : q # p => post'[q] = post[q]
      /\ post'[p] = new /\ post' \in [Posts -> PostState]
  BY <1>1, <1>3
<1>5. UNCHANGED <<currentMower, armed, armedFor, broken, blades, stopped>> /\ pending' = pending \ {post[p].act}
  BY DEF Settle
<1>6. ControlsTypeOK'
  BY <1>4, <1>5 DEF ControlsInv, ControlsTypeOK, PostState
<1>7. \A a \in Actions : Awaited(a)' = Awaited(a) \ {p}
  BY <1>3, <1>4 DEF Awaited
<1>8. \A a \in Actions : p \in Awaited(a) <=> a = post[p].act
  BY <1>1 DEF Awaited
<1>9. ASSUME NEW a \in Actions
      PROVE  IF a \in pending' THEN \E q \in Posts : Awaited(a)' = {q} ELSE Awaited(a)' = {}
  BY <1>5, <1>7, <1>8 DEF ControlsInv, OneOrNone
<1>10. \A m \in CtlMowers : /\ BladePosts(m)' = BladePosts(m)
                            /\ \A q \in BladePosts(m) : post'[q].act = post[q].act
  BY <1>3, <1>4 DEF BladePosts
<1>11. OnlyOffs'
  BY <1>5, <1>10 DEF ControlsInv, OnlyOffs
<1> QED
  BY <1>5, <1>6, <1>9, <1>11 DEF ControlsInv, OneOrNone, ArmIsHere

LEMMA ControlsInvStep == ControlsInv /\ [ControlsNext]_ctlVars => ControlsInv'
<1>1. ControlsInv /\ UNCHANGED ctlVars => ControlsInv'
  BY DEF ctlVars, ControlsInv, ControlsTypeOK, OneOrNone, Awaited, ArmIsHere, OnlyOffs, BladePosts
<1> QED
  BY <1>1, ControlsInvTap, ControlsInvFire, ControlsInvHandled, ControlsInvSettle DEF ControlsNext

LEMMA ControlsInvAlways == ControlsSpec => []ControlsInv
BY ControlsInvInit, ControlsInvStep, PTL DEF ControlsSpec

-----------------------------------------------------------------------------
(* The theorems.                                                           *)

\* The types of the page's action buttons.
THEOREM ControlsTypes == ControlsSpec => []ControlsTypeOK
<1>1. ControlsInv => ControlsTypeOK
  BY DEF ControlsInv
<1> QED
  BY <1>1, ControlsInvAlways, PTL

\* runAction() and its `finally`: an action in `pending` has one POST that the page
\* awaits, and no other action has one.
THEOREM EachAwaitedOnce == ControlsSpec => []OneAwaited
<1>1. ControlsInv => OneAwaited
  <2> SUFFICES ASSUME ControlsInv, NEW a \in Actions
               PROVE  Cardinality(Awaited(a)) = IF a \in pending THEN 1 ELSE 0
    BY DEF OneAwaited, Awaited
  <2> QED
    BY FS_Singleton, FS_EmptySet DEF ControlsInv, OneOrNone
<1> QED
  BY <1>1, ControlsInvAlways, PTL

\* bladesActionWithConfirm(): blades start only on the mower that was on the screen
\* at both taps, and STOP, blades-off, a switch, a hidden page and the timer each undo
\* the first.
THEOREM TapsMeetOneMower == ControlsSpec => TwoTapsOneMower
<1>1. ControlsInv /\ [ControlsNext]_ctlVars =>
        [\A p \in Posts : post[p] = Idle /\ post'[p].act = "blades-on"
           => armed /\ ~broken /\ armedFor = currentMower /\ post'[p].to = armedFor]_ctlVars
  <2> SUFFICES ASSUME ControlsInv, ControlsNext, NEW p \in Posts,
                      post[p] = Idle, post'[p].act = "blades-on"
               PROVE  armed /\ ~broken /\ armedFor = currentMower /\ post'[p].to = armedFor
    OBVIOUS
  <2>1. Idle.act = NoPost /\ Idle.at = "free" /\ Idle.awaited = FALSE /\ NoPost # "blades-on"
    BY ControlsAssumption DEF Idle, Actions
  <2>2. post'[p] # post[p]
    BY <2>1
  <2>3. ~(\E q \in Posts : Handled(q) \/ Lost(q) \/ Settle(q))
    <3> SUFFICES ASSUME NEW q \in Posts, Handled(q) \/ Lost(q) \/ Settle(q) PROVE FALSE
      OBVIOUS
    <3>1. q # p
      BY <2>1 DEF Handled, Lost, Settle
    <3>2. PICK new : post' = [post EXCEPT ![q] = new]
      BY DEF Handled, Lost, Settle, Frees
    <3> QED
      BY <2>2, <3>1, <3>2 DEF ControlsInv, ControlsTypeOK
  <2>4. PICK acts \in SUBSET Actions : runActions(acts) /\
          \/ acts = {"blades-on"} /\ Confirm
          \/ acts = {"blades-off"} /\ BladesOff
          \/ acts = {"stop", "blades-off"} /\ Stop
    BY <2>2, <2>3 DEF ControlsNext, Arm, ArmTimesOut, PageHides, BreaksTaps, SelectMower, DiscStops,
                      Confirm, BladesOff, Stop, Actions
  <2>5. \E a \in acts : post'[p] = New(currentMower, a)
    <3>1. PICK slot \in [acts \ pending -> Posts] :
            /\ \A a, b \in acts \ pending : a # b => slot[a] # slot[b]
            /\ \A a \in acts \ pending : post[slot[a]] = Idle /\ post'[slot[a]] = New(currentMower, a)
            /\ \A q \in Posts : (\A a \in acts \ pending : slot[a] # q) => post'[q] = post[q]
      BY <2>4, Firing DEF ControlsInv
    <3> QED
      BY <2>2, <3>1
  <2>6. Confirm /\ post'[p].to = currentMower
    BY <2>4, <2>5, NewFields
  <2> QED
    BY <2>6 DEF Confirm, ControlsInv, ArmIsHere
<1> QED
  BY <1>1, ControlsInvAlways, PTL DEF ControlsSpec, TwoTapsOneMower

\* STOP, as bound in app.js: when it finds no blade command of its mower under way,
\* the disc is at rest once the mower's blade commands have been delivered.
THEOREM StopCuts == ControlsSpec => []StopCutsBlades
<1>1. ControlsInv => StopCutsBlades
  BY DEF ControlsInv, OnlyOffs, StopCutsBlades
<1> QED
  BY <1>1, ControlsInvAlways, PTL

-----------------------------------------------------------------------------
(* The camera.                                                             *)

InChannel(c) == client[c].state \in {"joining", "joined"}

\* The client the page holds is in its channel, or on its way, and of this mower.
HeldIsHere == agora # NoCam => InChannel(agora) /\ client[agora].target = shown

\* What a start has made so far, and what it may find in its way.
StartKnows ==
  /\ start.phase = "none" => start = NoStart
  /\ start.phase \in {"posted", "token"} => start.client = NoCam
  /\ start.phase \in {"joining", "superseded", "failed"} => start.client \in Clients
  /\ start.phase = "joining" => agora \in {NoCam, start.client}
  /\ start.phase \in {"superseded", "failed"} => agora = NoCam /\ ~InChannel(start.client)
  /\ start.phase \in {"posted", "token"} /\ agora # NoCam => lateStop
  /\ start.phase # "none" => camUI # "live"

\* "Start" is offered with nothing running, but for what a late stop has done.
OfferedAtRest == "start" \in buttons /\ (agora # NoCam \/ start.phase # "none") => lateStop

LiveIsJoined == camUI = "live" => agora # NoCam /\ client[agora].state = "joined"

CameraInv ==
  /\ CameraTypeOK
  /\ HeldIsHere /\ StartKnows /\ OfferedAtRest /\ LiveIsJoined /\ NoClientForgotten

-----------------------------------------------------------------------------
(* The records.                                                            *)

LEMMA Blank ==
  /\ NoClient \in ClientState /\ NoClient.state = "none"
  /\ NoStart \in StartState /\ NoStart.phase = "none" /\ NoStart.client = NoCam
  /\ NoStop \in StopState
BY DEF NoClient, ClientState, NoStart, StartState, NoStop, StopState, OrNone

LEMMA LeftSet ==
  ASSUME client \in [Clients -> ClientState], NEW c \in Clients
  PROVE  /\ Left(c) \in [Clients -> ClientState]
         /\ Left(c)[c].state \notin {"joining", "joined"}
         /\ \A d \in Clients \ {c} : Left(c)[d] = client[d]
<1>1. client[c] \in ClientState
  OBVIOUS
<1>2. /\ [client[c] EXCEPT !.state = "leaving"] \in ClientState
      /\ [client[c] EXCEPT !.state = "leaving"].state = "leaving"
  BY <1>1 DEF ClientState
<1> QED
  BY <1>1, <1>2, Blank DEF Left

LEMMA Posted == ASSUME CameraTypeOK, NEW kind \in {"start", "stop"}, NEW m \in CamMowers, PostTo(kind, m)
                PROVE  cameraPost' \in [{"start", "stop"} \X CamMowers -> 0..MaxPosts]
BY CameraAssumption DEF CameraTypeOK, PostTo

LEMMA CameraInvInit == CameraInit => CameraInv
<1> SUFFICES ASSUME CameraInit PROVE CameraInv
  OBVIOUS
<1>1. client \in [Clients -> ClientState] /\ \A c \in Clients : client[c].state = "none"
  BY Blank DEF CameraInit
<1>2. start \in StartState /\ stop \in [Stops -> StopState] /\ start.phase = "none" /\ start = NoStart
  BY Blank DEF CameraInit
<1>3. cameraPost \in [{"start", "stop"} \X CamMowers -> 0..MaxPosts]
  BY CameraAssumption DEF CameraInit
<1>4. CameraTypeOK
  BY <1>1, <1>2, <1>3 DEF CameraInit, CameraTypeOK, OrNone
<1> QED
  BY <1>1, <1>2, <1>4 DEF CameraInit, CameraInv, HeldIsHere, StartKnows, OfferedAtRest, LiveIsJoined,
                          NoClientForgotten, InChannel

-----------------------------------------------------------------------------
(* Starting.                                                               *)

\* What all the parts of the invariant need of a step.
LEMMA CameraCallback ==
  ASSUME CameraInv,
         shown' \in CamMowers, agora' \in OrNone(Clients), client' \in [Clients -> ClientState],
         start' \in StartState, stop' \in [Stops -> StopState], buttons' \subseteq {"start", "stop"},
         camUI' \in {"off", "joining", "live"}, compass' \in OrNone(CamMowers),
         cameraPost' \in [{"start", "stop"} \X CamMowers -> 0..MaxPosts],
         publishing' \in [CamMowers -> BOOLEAN], lateStop' \in BOOLEAN,
         HeldIsHere', StartKnows', OfferedAtRest', LiveIsJoined', NoClientForgotten'
  PROVE  CameraInv'
BY DEF CameraInv, CameraTypeOK

LEMMA CameraInvPressed == CameraInv /\ StartPressed => CameraInv'
<1> SUFFICES ASSUME CameraInv, StartPressed PROVE CameraInv'
  OBVIOUS
<1>1. /\ start' = [phase |-> "posted", target |-> shown, client |-> NoCam]
      /\ UNCHANGED <<shown, agora, client, stop, compass, publishing, lateStop>>
      /\ buttons' = buttons \ {"start"} /\ camUI' = "joining"
      /\ start = NoStart /\ "start" \in buttons
  BY DEF StartPressed
<1>2. start' \in StartState /\ start'.phase = "posted" /\ start'.client = NoCam
  BY <1>1 DEF StartState, OrNone, CameraInv, CameraTypeOK
<1>3. cameraPost' \in [{"start", "stop"} \X CamMowers -> 0..MaxPosts]
  BY Posted DEF StartPressed, CameraInv, CameraTypeOK
<1>4. HeldIsHere' /\ LiveIsJoined' /\ OfferedAtRest'
  BY <1>1 DEF CameraInv, HeldIsHere, LiveIsJoined, OfferedAtRest, InChannel
<1>5. StartKnows'
  BY <1>1, <1>2 DEF CameraInv, StartKnows, OfferedAtRest
<1>6. NoClientForgotten'
  BY <1>1, Blank, CameraAssumption DEF CameraInv, NoClientForgotten
<1> QED
  BY <1>1, <1>2, <1>3, <1>4, <1>5, <1>6, CameraCallback DEF CameraInv, CameraTypeOK

\* A start that ends without a client.
LEMMA CameraInvNoToken == CameraInv /\ (StartFails \/ SwitchedBeforeToken) => CameraInv'
<1> SUFFICES ASSUME CameraInv, StartFails \/ SwitchedBeforeToken PROVE CameraInv'
  OBVIOUS
<1>1. /\ start' = NoStart /\ camUI' = "off"
      /\ UNCHANGED <<shown, agora, client, stop, compass, cameraPost, publishing, lateStop>>
      /\ start.phase \in {"posted", "token"}
      /\ buttons' = buttons \union {"start"} \/ buttons' = Synced(agora)
  BY DEF StartFails, SwitchedBeforeToken
<1>2. start.client = NoCam /\ (agora # NoCam => lateStop)
  BY <1>1 DEF CameraInv, StartKnows
<1>3. HeldIsHere' /\ LiveIsJoined' /\ StartKnows'
  BY <1>1, Blank DEF CameraInv, HeldIsHere, LiveIsJoined, StartKnows, InChannel
<1>4. OfferedAtRest'
  BY <1>1, <1>2, Blank DEF OfferedAtRest
<1>5. NoClientForgotten'
  BY <1>1, <1>2, CameraAssumption DEF CameraInv, NoClientForgotten
<1>6. buttons' \subseteq {"start", "stop"}
  BY <1>1 DEF Synced, CameraInv, CameraTypeOK
<1> QED
  BY <1>1, <1>3, <1>4, <1>5, <1>6, Blank, CameraCallback DEF CameraInv, CameraTypeOK

LEMMA CameraInvJoins == CameraInv /\ Joins => CameraInv'
<1> SUFFICES ASSUME CameraInv, Joins PROVE CameraInv'
  OBVIOUS
<1>1. PICK c \in Clients :
        /\ client[c] = NoClient /\ agora' = c
        /\ client' = [client EXCEPT ![c] = [target |-> start.target, state |-> "joining"]]
        /\ start' = [start EXCEPT !.phase = "joining", !.client = c]
  BY DEF Joins
<1>2. /\ start.phase = "token" /\ start.target = shown
      /\ UNCHANGED <<shown, stop, buttons, camUI, compass, cameraPost, publishing, lateStop>>
  BY DEF Joins
<1>3. /\ client' \in [Clients -> ClientState]
      /\ client'[c].target = shown /\ client'[c].state = "joining"
      /\ \A d \in Clients \ {c} : client'[d] = client[d]
  BY <1>1, <1>2 DEF CameraInv, CameraTypeOK, ClientState, OrNone
<1>4. start' \in StartState /\ start'.phase = "joining" /\ start'.client = c
  BY <1>1 DEF CameraInv, CameraTypeOK, StartState, OrNone
<1>5. /\ start.client = NoCam /\ (agora # NoCam => lateStop)
      /\ camUI # "live"
  BY <1>2 DEF CameraInv, StartKnows
<1>6. HeldIsHere' /\ LiveIsJoined' /\ StartKnows'
  BY <1>1, <1>2, <1>3, <1>4, <1>5, CameraAssumption DEF HeldIsHere, LiveIsJoined, StartKnows, InChannel
<1>7. OfferedAtRest'
  BY <1>2 DEF CameraInv, OfferedAtRest
<1>8. NoClientForgotten'
  BY <1>1, <1>2, <1>3, <1>4, <1>5, CameraAssumption DEF CameraInv, NoClientForgotten
<1> QED
  BY <1>1, <1>2, <1>3, <1>4, <1>6, <1>7, <1>8, CameraCallback DEF CameraInv, CameraTypeOK, OrNone

LEMMA CameraInvJoined == CameraInv /\ Joined => CameraInv'
<1> SUFFICES ASSUME CameraInv, Joined PROVE CameraInv'
  OBVIOUS
<1>1. /\ start.phase = "joining" /\ start.target = shown /\ start.client = agora
      /\ client' = [client EXCEPT ![agora].state = "joined"]
      /\ start' = NoStart /\ buttons' = buttons \union {"stop"}
      /\ camUI' = "live" /\ compass' = start.target
      /\ UNCHANGED <<shown, agora, stop, cameraPost, publishing, lateStop>>
  BY DEF Joined
<1>2. agora \in Clients
  BY <1>1 DEF CameraInv, StartKnows
<1>3. client[agora] \in ClientState /\ [client[agora] EXCEPT !.state = "joined"] \in ClientState
      /\ [client[agora] EXCEPT !.state = "joined"].state = "joined"
      /\ [client[agora] EXCEPT !.state = "joined"].target = client[agora].target
  BY <1>2 DEF CameraInv, CameraTypeOK, ClientState
<1>4. /\ client' \in [Clients -> ClientState]
      /\ client'[agora].state = "joined" /\ client'[agora].target = client[agora].target
      /\ \A d \in Clients \ {agora} : client'[d] = client[d]
  BY <1>1, <1>2, <1>3 DEF CameraInv, CameraTypeOK
<1>5. HeldIsHere' /\ LiveIsJoined' /\ StartKnows' /\ OfferedAtRest'
  BY <1>1, <1>2, <1>4, Blank, CameraAssumption
  DEF CameraInv, HeldIsHere, LiveIsJoined, StartKnows, OfferedAtRest, InChannel
<1>6. NoClientForgotten'
  BY <1>1, <1>4 DEF CameraInv, NoClientForgotten
<1> QED
  BY <1>1, <1>4, <1>5, <1>6, Blank, CameraCallback DEF CameraInv, CameraTypeOK, OrNone

\* The client of a start that was superseded or has failed leaves.
LEMMA CameraInvLeaves == CameraInv /\ (JoinSuperseded \/ JoinFails) => CameraInv'
<1> SUFFICES ASSUME CameraInv, JoinSuperseded \/ JoinFails PROVE CameraInv'
  OBVIOUS
<1>1. /\ start.phase = "joining" /\ client' = Left(start.client)
      /\ agora' = IF agora = start.client THEN NoCam ELSE agora
      /\ UNCHANGED <<shown, stop, buttons, camUI, compass, cameraPost, publishing, lateStop>>
  BY DEF JoinSuperseded, JoinFails
<1>2. PICK phase \in {"superseded", "failed"} : start' = [start EXCEPT !.phase = phase]
  BY DEF JoinSuperseded, JoinFails
<1>3. start' \in StartState /\ start'.phase = phase /\ start'.client = start.client
  BY <1>2 DEF CameraInv, CameraTypeOK, StartState
<1>4. /\ start.client \in Clients /\ agora \in {NoCam, start.client} /\ agora' = NoCam
      /\ camUI # "live"
  BY <1>1 DEF CameraInv, StartKnows
<1>5. /\ client' \in [Clients -> ClientState]
      /\ client'[start.client].state \notin {"joining", "joined"}
      /\ \A d \in Clients \ {start.client} : client'[d] = client[d]
  BY <1>1, <1>4, LeftSet DEF CameraInv, CameraTypeOK
<1>6. HeldIsHere' /\ LiveIsJoined' /\ StartKnows' /\ OfferedAtRest'
  BY <1>1, <1>3, <1>4, <1>5
  DEF CameraInv, HeldIsHere, LiveIsJoined, StartKnows, OfferedAtRest, InChannel
<1>7. NoClientForgotten'
  BY <1>1, <1>3, <1>4, <1>5 DEF CameraInv, NoClientForgotten
<1> QED
  BY <1>1, <1>3, <1>4, <1>5, <1>6, <1>7, CameraCallback DEF CameraInv, CameraTypeOK, OrNone

LEMMA CameraInvStartEnds == CameraInv /\ StartEnds => CameraInv'
<1> SUFFICES ASSUME CameraInv, StartEnds PROVE CameraInv'
  OBVIOUS
<1>1. /\ start.phase \in {"superseded", "failed"} /\ camUI' = "off" /\ start' = NoStart
      /\ buttons' = IF start.phase = "superseded" THEN Synced(agora) ELSE buttons \union {"start"}
      /\ UNCHANGED <<shown, agora, stop, compass, cameraPost, publishing, lateStop>>
      /\ client' = [client EXCEPT ![start.client] = IF @.state = "leaving" THEN NoClient ELSE @]
  BY DEF StartEnds
<1>2. /\ client' \in [Clients -> ClientState]
      /\ \A d \in Clients : client'[d] = client[d] \/ (~InChannel(d) /\ client'[d] = NoClient)
  BY <1>1, Blank DEF CameraInv, CameraTypeOK, InChannel
<1>3. start.client \in Clients /\ agora = NoCam /\ ~InChannel(start.client)
  BY <1>1 DEF CameraInv, StartKnows
<1>4. HeldIsHere' /\ LiveIsJoined' /\ StartKnows' /\ OfferedAtRest'
  BY <1>1, <1>3, Blank DEF HeldIsHere, LiveIsJoined, StartKnows, OfferedAtRest
<1>5. NoClientForgotten'
  BY <1>1, <1>2, <1>3, Blank DEF CameraInv, NoClientForgotten, InChannel
<1>6. buttons' \subseteq {"start", "stop"}
  BY <1>1 DEF Synced, CameraInv, CameraTypeOK
<1> QED
  BY <1>1, <1>2, <1>4, <1>5, <1>6, Blank, CameraCallback DEF CameraInv, CameraTypeOK

-----------------------------------------------------------------------------
(* Stopping.                                                               *)

\* stopCamera() up to its first await: nothing is held after it.
LEMMA CameraInvStopBegins ==
  ASSUME CameraInv, NEW k \in Stops, NEW target \in OrNone(CamMowers), NEW button \in BOOLEAN,
         StopBegins(k, target, button), shown' \in CamMowers
  PROVE  CameraInv'
<1>1. /\ compass' = NoCam /\ camUI' = "off" /\ agora' = NoCam
      /\ client' = IF agora = NoCam THEN client ELSE Left(agora)
      /\ stop' = [stop EXCEPT ![k] = [phase |-> IF agora = NoCam THEN "posting" ELSE "leaving",
                                      target |-> target, client |-> agora, button |-> button]]
      /\ UNCHANGED <<start, buttons, cameraPost, publishing, lateStop>>
  BY DEF StopBegins
<1>2. /\ client' \in [Clients -> ClientState]
      /\ agora # NoCam => client'[agora].state \notin {"joining", "joined"}
      /\ \A d \in Clients \ {agora} : client'[d] = client[d]
  BY <1>1, LeftSet DEF CameraInv, CameraTypeOK, OrNone
<1>3. [phase |-> IF agora = NoCam THEN "posting" ELSE "leaving",
       target |-> target, client |-> agora, button |-> button] \in StopState
  BY DEF CameraInv, CameraTypeOK, StopState
<1>4. stop' \in [Stops -> StopState]
  BY <1>1, <1>3 DEF CameraInv, CameraTypeOK
<1>5. start.phase \in {"superseded", "failed"} =>
        start.client \in Clients /\ agora = NoCam /\ ~InChannel(start.client)
  BY DEF CameraInv, StartKnows
<1>6. HeldIsHere' /\ LiveIsJoined' /\ OfferedAtRest'
  BY <1>1 DEF CameraInv, HeldIsHere, LiveIsJoined, OfferedAtRest
<1>7. StartKnows'
  BY <1>1, <1>5 DEF CameraInv, StartKnows, InChannel
<1>8. NoClientForgotten'
  BY <1>1, <1>2 DEF CameraInv, NoClientForgotten
<1> QED
  BY <1>1, <1>2, <1>4, <1>6, <1>7, <1>8, CameraCallback DEF CameraInv, CameraTypeOK, OrNone

LEMMA CameraInvStopPressed == CameraInv /\ StopPressed => CameraInv'
BY CameraInvStopBegins DEF StopPressed, OrNone, CameraInv, CameraTypeOK

LEMMA CameraInvSwitch == ASSUME NEW m \in CamMowers, CameraInv, Switch(m) PROVE CameraInv'
BY CameraInvStopBegins DEF Switch, OrNone, CameraInv, CameraTypeOK

LEMMA CameraInvStopLeft == ASSUME NEW k \in Stops, CameraInv, StopLeft(k) PROVE CameraInv'
<1>1. /\ stop' = [stop EXCEPT ![k].phase = "posting", ![k].client = NoCam]
      /\ client' = [client EXCEPT ![stop[k].client] =
                      IF @.state = "leaving" /\ start.client # stop[k].client THEN NoClient ELSE @]
      /\ UNCHANGED <<shown, agora, start, buttons, camUI, compass, cameraPost, publishing, lateStop>>
  BY DEF StopLeft
<1>2. /\ client' \in [Clients -> ClientState]
      /\ \A d \in Clients : client'[d] = client[d] \/ (~InChannel(d) /\ client'[d] = NoClient)
  BY <1>1, Blank DEF CameraInv, CameraTypeOK, InChannel
<1>3. stop' \in [Stops -> StopState]
  <2>1. [stop[k] EXCEPT !.phase = "posting", !.client = NoCam] \in StopState
    BY DEF CameraInv, CameraTypeOK, StopState, OrNone
  <2> QED
    BY <1>1, <2>1 DEF CameraInv, CameraTypeOK
<1>4. HeldIsHere' /\ LiveIsJoined'
  BY <1>1, <1>2 DEF CameraInv, CameraTypeOK, HeldIsHere, LiveIsJoined, InChannel, OrNone
<1>5. start.phase \in {"superseded", "failed"} => ~InChannel(start.client)'
  BY <1>1, <1>2, Blank DEF CameraInv, StartKnows, InChannel
<1>6. StartKnows' /\ OfferedAtRest'
  BY <1>1, <1>5 DEF CameraInv, StartKnows, OfferedAtRest
<1>7. NoClientForgotten'
  BY <1>1, <1>2, Blank DEF CameraInv, NoClientForgotten
<1> QED
  BY <1>1, <1>2, <1>3, <1>4, <1>6, <1>7, CameraCallback DEF CameraInv, CameraTypeOK

\* What neither the page's camera nor its buttons are touched by.
LEMMA CameraInvElsewhere ==
  ASSUME CameraInv, UNCHANGED <<shown, agora, client, start, buttons, camUI, compass, lateStop>>,
         stop' \in [Stops -> StopState], publishing' \in [CamMowers -> BOOLEAN],
         cameraPost' \in [{"start", "stop"} \X CamMowers -> 0..MaxPosts]
  PROVE  CameraInv'
BY DEF CameraInv, CameraTypeOK, HeldIsHere, StartKnows, OfferedAtRest, LiveIsJoined,
       NoClientForgotten, InChannel

LEMMA CameraInvStopPosts == ASSUME NEW k \in Stops, CameraInv, StopPosts(k) PROVE CameraInv'
<1>1. PICK m \in CamMowers : PostTo("stop", m)
  BY DEF StopPosts, CameraInv, CameraTypeOK, StopState, OrNone
<1>2. [stop[k] EXCEPT !.phase = "posted"] \in StopState
  BY DEF CameraInv, CameraTypeOK, StopState
<1>3. stop' \in [Stops -> StopState]
  BY <1>2 DEF StopPosts, CameraInv, CameraTypeOK
<1>4. cameraPost' \in [{"start", "stop"} \X CamMowers -> 0..MaxPosts]
  BY <1>1, Posted DEF CameraInv
<1> QED
  BY <1>3, <1>4, CameraInvElsewhere DEF StopPosts, CameraInv, CameraTypeOK

LEMMA CameraInvStopEnds == ASSUME NEW k \in Stops, CameraInv, StopEnds(k) PROVE CameraInv'
<1>1. /\ stop' = [stop EXCEPT ![k] = NoStop] /\ buttons' = {"start"}
      /\ lateStop' = (lateStop \/ agora # NoCam \/ start # NoStart)
      /\ UNCHANGED <<shown, agora, client, start, camUI, compass, cameraPost, publishing>>
  BY DEF StopEnds
<1>2. lateStop' \in BOOLEAN /\ (lateStop => lateStop')
  BY <1>1, Zenon
<1>3. stop' \in [Stops -> StopState] /\ buttons' \subseteq {"start", "stop"}
  BY <1>1, Blank DEF CameraInv, CameraTypeOK
<1>4. agora # NoCam \/ start.phase # "none" => lateStop'
  <2>1. agora # NoCam => lateStop'
    BY <1>1, Zenon
  <2>2. start # NoStart => lateStop'
    BY <1>1, Zenon
  <2> QED
    BY <2>1, <2>2, Blank, Zenon
<1>5. HeldIsHere' /\ LiveIsJoined'
  BY <1>1 DEF CameraInv, HeldIsHere, LiveIsJoined, InChannel
<1>6. StartKnows'
  <2>1. (start.phase \in {"posted", "token"} /\ agora # NoCam => lateStop)'
    BY <1>1, <1>4
  <2> QED
    BY <1>1, <2>1 DEF CameraInv, StartKnows, InChannel
<1>7. OfferedAtRest'
  BY <1>1, <1>4 DEF OfferedAtRest
<1>8. NoClientForgotten'
  BY <1>1, <1>2 DEF CameraInv, NoClientForgotten
<1> QED
  BY <1>1, <1>2, <1>3, <1>5, <1>6, <1>7, <1>8, CameraCallback DEF CameraInv, CameraTypeOK

-----------------------------------------------------------------------------
(* The server, and the specification.                                      *)

\* A POST that is taken.
LEMMA Taken == ASSUME CameraTypeOK, NEW kind \in {"start", "stop"}, NEW m \in CamMowers,
                      cameraPost[<<kind, m>>] > 0,
                      cameraPost' = [cameraPost EXCEPT ![<<kind, m>>] = @ - 1]
               PROVE  cameraPost' \in [{"start", "stop"} \X CamMowers -> 0..MaxPosts]
BY CameraAssumption DEF CameraTypeOK

LEMMA CameraInvStart == ASSUME NEW m \in CamMowers, CameraInv, camera_start(m) PROVE CameraInv'
<1>1. /\ cameraPost[<<"start", m>>] > 0
      /\ cameraPost' = [cameraPost EXCEPT ![<<"start", m>>] = @ - 1]
      /\ UNCHANGED <<shown, agora, client, stop, buttons, camUI, compass, lateStop>>
      /\ publishing' = [publishing EXCEPT ![m] = TRUE] \/ publishing' = publishing
      /\ \/ start' = start
         \/ start.phase = "posted" /\ start' = [start EXCEPT !.phase = "token"]
  BY DEF camera_start
<1>2. cameraPost' \in [{"start", "stop"} \X CamMowers -> 0..MaxPosts]
  BY <1>1, Taken DEF CameraInv
<1>3. publishing' \in [CamMowers -> BOOLEAN]
  BY <1>1 DEF CameraInv, CameraTypeOK
<1>4. CASE start' = start
  BY <1>1, <1>2, <1>3, <1>4, CameraInvElsewhere DEF CameraInv, CameraTypeOK
<1>5. CASE start.phase = "posted" /\ start' = [start EXCEPT !.phase = "token"]
  <2>1. start' \in StartState /\ start'.phase = "token" /\ start'.client = start.client
    BY <1>5 DEF CameraInv, CameraTypeOK, StartState
  <2>2. HeldIsHere' /\ LiveIsJoined' /\ OfferedAtRest'
    BY <1>1, <1>5, <2>1 DEF CameraInv, HeldIsHere, LiveIsJoined, OfferedAtRest, InChannel
  <2>3. StartKnows'
    BY <1>1, <1>5, <2>1 DEF CameraInv, StartKnows
  <2>4. NoClientForgotten'
    BY <1>1, <2>1 DEF CameraInv, NoClientForgotten
  <2> QED
    BY <1>1, <1>2, <1>3, <2>1, <2>2, <2>3, <2>4, CameraCallback DEF CameraInv, CameraTypeOK
<1> QED
  BY <1>1, <1>4, <1>5

LEMMA CameraInvStop == ASSUME NEW m \in CamMowers, CameraInv, camera_stop(m) PROVE CameraInv'
<1>1. cameraPost' \in [{"start", "stop"} \X CamMowers -> 0..MaxPosts]
  BY Taken DEF camera_stop, CameraInv
<1> QED
  BY <1>1, CameraInvElsewhere DEF camera_stop, CameraInv, CameraTypeOK

LEMMA CameraInvStep == CameraInv /\ [CameraNext]_camVars => CameraInv'
<1> SUFFICES ASSUME CameraInv, [CameraNext]_camVars PROVE CameraInv'
  OBVIOUS
<1>1. CASE StartPressed \/ StartFails \/ SwitchedBeforeToken \/ Joins \/ Joined
           \/ JoinSuperseded \/ JoinFails \/ StartEnds \/ StopPressed
  BY <1>1, CameraInvPressed, CameraInvNoToken, CameraInvJoins, CameraInvJoined, CameraInvLeaves,
     CameraInvStartEnds, CameraInvStopPressed
<1>2. ASSUME NEW k \in Stops, StopLeft(k) \/ StopPosts(k) \/ StopEnds(k) PROVE CameraInv'
  BY <1>2, CameraInvStopLeft, CameraInvStopPosts, CameraInvStopEnds
<1>3. ASSUME NEW m \in CamMowers, Switch(m) \/ camera_start(m) \/ camera_stop(m) PROVE CameraInv'
  BY <1>3, CameraInvSwitch, CameraInvStart, CameraInvStop
<1>4. CASE UNCHANGED camVars
  BY <1>4, CameraInvElsewhere DEF camVars, CameraInv, CameraTypeOK
<1> QED
  BY <1>1, <1>2, <1>3, <1>4 DEF CameraNext

LEMMA CameraInvAlways == CameraSpec => []CameraInv
BY CameraInvInit, CameraInvStep, PTL DEF CameraSpec

\* The page's camera and the server's part of it keep their types.
THEOREM CameraTypes == CameraSpec => []CameraTypeOK
<1>1. CameraInv => CameraTypeOK
  BY DEF CameraInv
<1> QED
  BY <1>1, CameraInvAlways, PTL

\* Whichever await of startCameraInner() or stopCamera() a switch of mowers
\* falls into, the client the page holds is for the mower on the screen, and
\* "live" is said of a client that has joined.
THEOREM CameraFollows == CameraSpec => []CameraIsThisMowers
<1>1. CameraInv => CameraIsThisMowers
  BY DEF CameraInv, HeldIsHere, LiveIsJoined, CameraIsThisMowers
<1> QED
  BY <1>1, CameraInvAlways, PTL

\* A client in a channel is held by the page or by the start that made it,
\* unless a stopCamera() that ended late has offered "Start" over another.
THEOREM NoneForgotten == CameraSpec => []NoClientForgotten
<1>1. CameraInv => NoClientForgotten
  BY DEF CameraInv
<1> QED
  BY <1>1, CameraInvAlways, PTL

-----------------------------------------------------------------------------
(* What the page shows.  A poll that does not arm its timer again, because *)
(* it was asked for another mower or outside the chain, leaves the timer   *)
(* that PollingGoesOn says there is.                                       *)

\* What a tick awaits is under way: a poll outside the chain takes its place
\* only when it has been answered.
TicksAsk == (status.tick => status.asked) /\ (heading.tick => heading.asked)

ReadoutInv == ViewTypeOK /\ TicksAsk /\ PollingGoesOn /\ ShownIsThisMowers

LEMMA ReadoutInit == ViewInit => ReadoutInv
<1> SUFFICES ASSUME ViewInit PROVE ReadoutInv
  OBVIOUS
<1> USE DEF ViewInit, NoPoll, NoLight
<1>1. ViewTypeOK
  BY DEF ViewTypeOK, View, Polls
<1>2. TicksAsk /\ PollingGoesOn
  BY DEF TicksAsk, PollingGoesOn
<1>3. ShownIsThisMowers
  BY DEF ShownIsThisMowers
<1> QED
  BY <1>1, <1>2, <1>3 DEF ReadoutInv

LEMMA ViewTypes == ViewTypeOK /\ [ReadoutNext]_viewVars => ViewTypeOK'
<1> SUFFICES ASSUME ViewTypeOK, [ReadoutNext]_viewVars PROVE ViewTypeOK'
  OBVIOUS
<1>a. Nowhere \in View /\ ViewMowers \subseteq View
  BY DEF View
<1>b. /\ NoPoll \in Polls
      /\ \A name \in View, tick \in BOOLEAN :
           [asked |-> TRUE, name |-> name, tick |-> tick] \in Polls
      /\ status.name \in View /\ heading.name \in View
  BY <1>a DEF ViewTypeOK, Polls, NoPoll
<1>c. /\ NoLight \in [target: View, want: BOOLEAN]
      /\ light.target \in View /\ light.want \in BOOLEAN
  BY <1>a DEF ViewTypeOK, NoLight
<1> USE <1>a, <1>b, <1>c
<1> USE DEF ViewTypeOK, Scheduled,
         statusVars, headingVars, lightVars, heightVars
<1>1. ASSUME NEW m \in ViewMowers, ViewMower(m)
      PROVE  ViewTypeOK'
  BY <1>1 DEF ViewMower
<1>2. ASSUME NEW landed \in BOOLEAN, LightSettles(landed)
      PROVE  ViewTypeOK'
  BY <1>2 DEF LightSettles
<1>3. CASE NoMowers
  BY <1>3 DEF NoMowers
<1>4. CASE AgoraChanges
  BY <1>4 DEF AgoraChanges
<1>5. CASE StartCompass
  BY <1>5 DEF StartCompass
<1>6. CASE StopCompass
  BY <1>6 DEF StopCompass
<1>7. CASE StatusTick
  BY <1>7 DEF StatusTick
<1>8. CASE StatusAsked
  BY <1>8 DEF StatusAsked
<1>9. CASE StatusSettles
  BY <1>9 DEF StatusSettles, Answered, PaintsLight, PaintsHeight
<1>10. CASE HeadingTick
  BY <1>10 DEF HeadingTick
<1>11. CASE HeadingSettles
  BY <1>11 DEF HeadingSettles
<1>12. CASE Leaves
  BY <1>12 DEF Leaves
<1>13. CASE Returns
  BY <1>13 DEF Returns
<1>14. CASE BackOnline
  BY <1>14 DEF BackOnline
<1>15. CASE LightPressed
  BY <1>15 DEF LightPressed
<1>16. CASE SliderMoves
  BY <1>16 DEF SliderMoves
<1>17. CASE SliderReleased
  BY <1>17 DEF SliderReleased
<1>18. CASE UNCHANGED viewVars
  BY <1>18 DEF viewVars
<1> QED
  BY <1>1, <1>2, <1>3, <1>4, <1>5, <1>6, <1>7, <1>8, <1>9,
     <1>10, <1>11, <1>12, <1>13, <1>14, <1>15, <1>16, <1>17, <1>18 DEF ReadoutNext

LEMMA ChainsStep ==
  TicksAsk /\ PollingGoesOn /\ [ReadoutNext]_viewVars => (TicksAsk /\ PollingGoesOn)'
<1> SUFFICES ASSUME TicksAsk, PollingGoesOn, [ReadoutNext]_viewVars
             PROVE  (TicksAsk /\ PollingGoesOn)'
  OBVIOUS
<1> USE DEF PollingGoesOn, TicksAsk, NoPoll, Scheduled,
         statusVars, headingVars, lightVars, heightVars
<1>1. ASSUME NEW m \in ViewMowers, ViewMower(m)
      PROVE  (TicksAsk /\ PollingGoesOn)'
  BY <1>1 DEF ViewMower
<1>2. ASSUME NEW landed \in BOOLEAN, LightSettles(landed)
      PROVE  (TicksAsk /\ PollingGoesOn)'
  BY <1>2 DEF LightSettles
<1>3. CASE NoMowers
  BY <1>3 DEF NoMowers
<1>4. CASE AgoraChanges
  BY <1>4 DEF AgoraChanges
<1>5. CASE StartCompass
  BY <1>5 DEF StartCompass
<1>6. CASE StopCompass
  BY <1>6 DEF StopCompass
<1>7. CASE StatusTick
  <2>1. CASE status.asked \/ statusMower # viewed
    BY <1>7, <2>1 DEF StatusTick
  <2>2. CASE ~(status.asked \/ statusMower # viewed)
    <3>1. status'.tick = TRUE /\ status'.name = statusMower /\ status'.asked = TRUE
      BY <1>7, <2>2 DEF StatusTick
    <3> QED
      BY <1>7, <2>2, <3>1 DEF StatusTick
  <2> QED
    BY <2>1, <2>2
<1>8. CASE StatusAsked
  BY <1>8 DEF StatusAsked
<1>9. CASE StatusSettles
  BY <1>9 DEF StatusSettles
<1>10. CASE HeadingTick
  <2>1. CASE heading.asked \/ headingMower # viewed \/ ~camera
    BY <1>10, <2>1 DEF HeadingTick
  <2>2. CASE ~(heading.asked \/ headingMower # viewed \/ ~camera)
    <3>1. heading'.tick = TRUE /\ heading'.name = headingMower /\ heading'.asked = TRUE
      BY <1>10, <2>2 DEF HeadingTick
    <3> QED
      BY <1>10, <2>2, <3>1 DEF HeadingTick
  <2> QED
    BY <2>1, <2>2
<1>11. CASE HeadingSettles
  BY <1>11 DEF HeadingSettles
<1>12. CASE Leaves
  BY <1>12 DEF Leaves
<1>13. CASE Returns
  BY <1>13 DEF Returns
<1>14. CASE BackOnline
  BY <1>14 DEF BackOnline
<1>15. CASE LightPressed
  BY <1>15 DEF LightPressed
<1>16. CASE SliderMoves
  BY <1>16 DEF SliderMoves
<1>17. CASE SliderReleased
  BY <1>17 DEF SliderReleased
<1>18. CASE UNCHANGED viewVars
  BY <1>18 DEF viewVars
<1> QED
  BY <1>1, <1>2, <1>3, <1>4, <1>5, <1>6, <1>7, <1>8, <1>9,
     <1>10, <1>11, <1>12, <1>13, <1>14, <1>15, <1>16, <1>17, <1>18 DEF ReadoutNext

LEMMA ShownStep == ViewTypeOK /\ ShownIsThisMowers /\ [ReadoutNext]_viewVars => ShownIsThisMowers'
<1> SUFFICES ASSUME ViewTypeOK, ShownIsThisMowers, [ReadoutNext]_viewVars PROVE ShownIsThisMowers'
  OBVIOUS
<1> USE ReadoutAssumption DEF ShownIsThisMowers, statusVars, headingVars, lightVars, heightVars
<1>1. ASSUME NEW m \in ViewMowers, ViewMower(m)
      PROVE  ShownIsThisMowers'
  BY <1>1 DEF ViewMower
<1>2. ASSUME NEW landed \in BOOLEAN, LightSettles(landed)
      PROVE  ShownIsThisMowers'
  BY <1>2 DEF LightSettles
<1>3. CASE NoMowers
  BY <1>3 DEF NoMowers
<1>4. CASE AgoraChanges
  BY <1>4 DEF AgoraChanges
<1>5. CASE StartCompass
  BY <1>5 DEF StartCompass
<1>6. CASE StopCompass
  BY <1>6 DEF StopCompass
<1>7. CASE StatusTick
  BY <1>7 DEF StatusTick
<1>8. CASE StatusAsked
  BY <1>8 DEF StatusAsked
<1>9. CASE StatusSettles
  <2>1. CASE status.name = viewed
    <3>1. PaintsLight /\ PaintsHeight
      BY <1>9, <2>1 DEF StatusSettles, Answered
    <3>2. lightOn' => lightOf' = viewed
      BY <2>1, <3>1 DEF PaintsLight
    <3>3. viewed # Nowhere /\ heightTouchedFor = viewed => heightOf' = "user"
      BY <2>1, <3>1 DEF PaintsHeight
    <3> QED
      BY <1>9, <3>2, <3>3 DEF StatusSettles
  <2>2. CASE status.name # viewed
    BY <1>9, <2>2 DEF StatusSettles, Answered
  <2> QED
    BY <2>1, <2>2
<1>10. CASE HeadingTick
  BY <1>10 DEF HeadingTick
<1>11. CASE HeadingSettles
  BY <1>11 DEF HeadingSettles
<1>12. CASE Leaves
  BY <1>12 DEF Leaves
<1>13. CASE Returns
  BY <1>13 DEF Returns
<1>14. CASE BackOnline
  BY <1>14 DEF BackOnline
<1>15. CASE LightPressed
  BY <1>15 DEF LightPressed
<1>16. CASE SliderMoves
  BY <1>16 DEF SliderMoves
<1>17. CASE SliderReleased
  BY <1>17 DEF SliderReleased
<1>18. CASE UNCHANGED viewVars
  BY <1>18 DEF viewVars
<1> QED
  BY <1>1, <1>2, <1>3, <1>4, <1>5, <1>6, <1>7, <1>8, <1>9,
     <1>10, <1>11, <1>12, <1>13, <1>14, <1>15, <1>16, <1>17, <1>18 DEF ReadoutNext

LEMMA ReadoutStep == ReadoutInv /\ [ReadoutNext]_viewVars => ReadoutInv'
BY ViewTypes, ChainsStep, ShownStep DEF ReadoutInv

\* The types of the polls, their timers and what they paint.
THEOREM ReadoutTypes == ReadoutSpec => []ViewTypeOK
<1>1. ReadoutInv => ViewTypeOK
  BY DEF ReadoutInv
<1> QED
  BY <1>1, ReadoutInit, ReadoutStep, PTL DEF ReadoutSpec

\* scheduleStatus() and scheduleHeading(): while the page is visible the chain
\* of polls of the mower on the screen does not break, however ticks, switches
\* and polls outside the chain fall.
THEOREM ChainsHold == ReadoutSpec => []PollingGoesOn
<1>1. ReadoutInv => PollingGoesOn
  BY DEF ReadoutInv
<1> QED
  BY <1>1, ReadoutInit, ReadoutStep, PTL DEF ReadoutSpec

\* pollStatus(), pollHeading(), the headlight's revert and the slider that
\* telemetry seeds once: what one mower answers is not shown as another's.
THEOREM NothingCrosses == ReadoutSpec => []ShownIsThisMowers
<1>1. ReadoutInv => ShownIsThisMowers
  BY DEF ReadoutInv
<1> QED
  BY <1>1, ReadoutInit, ReadoutStep, PTL DEF ReadoutSpec
=============================================================================
