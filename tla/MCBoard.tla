------------------------------ MODULE MCBoard -------------------------------
(***************************************************************************)
(* Two parts of the HC33's firmware that the proxy rests on: its uplink    *)
(* and the pool of TX packets.  They have no state in common, so a         *)
(* behaviour is of the one or of the other.                                *)
(***************************************************************************)
EXTENDS Uplink, TxPool

CONSTANTS t1, t2, t3, t4

MCTasks == {t1, t2, t3, t4}

VARIABLE part

boardVars == <<part, upVars, poolVars>>

BoardInit == part \in {"uplink", "pool"} /\ UplinkInit /\ PoolInit

UplinkPart(step) == part = "uplink" /\ step /\ UNCHANGED <<part, poolVars>>
PoolPart(step)   == part = "pool" /\ step /\ UNCHANGED <<part, upVars>>

BoardNext == UplinkPart(UplinkNext) \/ PoolPart(PoolNext)

BoardSpec ==
  /\ BoardInit /\ [][BoardNext]_boardVars
  /\ WF_boardVars(UplinkPart(LoopTask))
=============================================================================
