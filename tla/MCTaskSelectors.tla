--------------------------- MODULE MCTaskSelectors ---------------------------
(***************************************************************************)
(* Two dispatchers side by side for TLC: one with StrictPriorityStrategy   *)
(* on three queues, two of them of the same weight, the heaviest last; and *)
(* one with WeightStrategy on any configuration of up to three queues.     *)
(***************************************************************************)
EXTENDS StrictPriorityStrategy, WeightStrategy

Weights == <<10, 10, 90>>

UpToThreeQueues ==
  {W \in UNION {[1..n -> 0..2] : n \in 1..3} : SumFunction(W) > 0}

SelectorsInit == Init /\ DrawInit

SelectorsNext == (Next /\ UNCHANGED draw) \/ (Draw /\ UNCHANGED vars)

SelectorsSpec ==
  /\ SelectorsInit
  /\ [][SelectorsNext]_<<vars, draw>>
  /\ SF_vars(PickTask \/ PickNothing)
=============================================================================
