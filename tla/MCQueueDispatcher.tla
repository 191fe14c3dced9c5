-------------------------- MODULE MCQueueDispatcher --------------------------
(* Two queues, a worker that serves both and one dedicated to the second.   *)
EXTENDS QueueDispatcher, TLC

CONSTANTS w1, w2, standard, priority

OneDedicated == (w1 :> NoQueue) @@ (w2 :> priority)
=============================================================================
