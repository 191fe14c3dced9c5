--------------------------- MODULE WeightStrategy ---------------------------
(***************************************************************************)
(* The dispatcher's default strategy: the queue to poll is drawn at random,*)
(* each with a chance proportional to its weight.  A configuration is the  *)
(* sequence of the queues' weights; the queues are its indices.            *)
(***************************************************************************)
EXTENDS FiniteSetsExt, Functions, Integers, Sequences

CONSTANT Configurations    \* the configurations a dispatcher may have

\* A dispatcher needs a weight above 0 for this strategy: mt_rand(1, 0) fails.
ASSUME ConfigurationsAssumption ==
  \A W \in Configurations : W \in Seq(Nat) /\ SumFunction(W) > 0

VARIABLES
  weights,    \* the configuration of the dispatcher
  rand,       \* the number drawn last, 0 before
  chosen      \* the queue it picked, 0 before and when it picked none

draw == <<weights, rand, chosen>>

\* The numbers mt_rand() may return.
Numbers == 1..SumFunction(weights)

\* What is left of the number r after the weights of the queues 1..i.
Left(r) ==
  LET left[i \in 0..Len(weights)] ==
        IF i = 0 THEN r ELSE left[i - 1] - weights[i]
  IN left

\* Mutant of PickQueue: the border belongs to the next queue.
PickQueueBelow(r) ==
  LET hits == {i \in 1..Len(weights) : Left(r)[i] < 0} IN
    IF hits = {} THEN 0 ELSE Min(hits)

\* The first queue that leaves nothing of the number; 0 if the loop ends
\* without one and nothing is returned.
PickQueue(r) ==
  LET hits == {i \in 1..Len(weights) : Left(r)[i] <= 0} IN
    IF hits = {} THEN 0 ELSE Min(hits)

DrawInit ==
  /\ weights \in Configurations
  /\ rand = 0 /\ chosen = 0

\* pickQueueByWight().
Draw ==
  /\ rand' \in Numbers
  /\ chosen' = PickQueue(rand')
  /\ UNCHANGED weights

DrawSpec == DrawInit /\ [][Draw]_draw

-----------------------------------------------------------------------------
\* The sum of the weights of the first i queues.
WeightUpTo(i) == SumFunction([j \in 1..i |-> weights[j]])

\* The numbers that are a queue's share: as many as it has weight.
Share(q) == (WeightUpTo(q - 1) + 1)..WeightUpTo(q)

\* Every number picks the queue whose share it is in, so that each queue is
\* picked in proportion to its weight and one without weight never is: "the
\* value with the weight of 2 has about a 66% chance of being selected".
ProportionalChance == rand # 0 => chosen # 0 /\ rand \in Share(chosen)
=============================================================================
