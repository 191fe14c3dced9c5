--------------------------- MODULE SelectorProofs ---------------------------
(***************************************************************************)
(* Theorems about the task selectors.  Strict priority and the wait time   *)
(* for any number of queues and any weights: "before in the sorted order"  *)
(* is shown to make sortedQueues a numbering of the queues from 0.  The    *)
(* weighted draw for any configurations: SumFunction and the loop of the   *)
(* draw are recursive functions, about which the least element of a set of *)
(* natural numbers gives induction.                                        *)
(***************************************************************************)
EXTENDS StrictPriorityStrategy, WeightStrategy, FiniteSetTheorems,
        FunctionTheorems, WellFoundedInduction, TLAPS

-----------------------------------------------------------------------------
(* The sorted queues.                                                       *)

LEMMA QueueFinite == IsFiniteSet(Queue) /\ Cardinality(Queue) = Queues
<1>1. Queues \in Nat \ {0}
  BY SelectorAssumption
<1> QED BY <1>1, FS_Interval DEF Queue

LEMMA AboveFinite ==
  ASSUME NEW q \in Queue
  PROVE  IsFiniteSet(Above(q)) /\ Cardinality(Above(q)) \in 0..(Queues - 1)
<1>1. Queues \in Nat \ {0}
  BY SelectorAssumption
<1>2. Above(q) \in SUBSET (Queue \ {q})
  BY SelectorAssumption DEF Above, Heavier, Queue
<1>3. IsFiniteSet(Queue \ {q}) /\ Cardinality(Queue \ {q}) = Queues - 1
  BY QueueFinite, FS_RemoveElement
<1>4. IsFiniteSet(Above(q)) /\ Cardinality(Above(q)) <= Queues - 1
  BY <1>2, <1>3, FS_Subset
<1>5. Cardinality(Above(q)) \in Nat
  BY <1>4, FS_CardinalityType
<1> QED BY <1>1, <1>4, <1>5

\* The order of usort() is total and transitive.
LEMMA HeavierTotal ==
  ASSUME NEW q \in Queue, NEW r \in Queue, q # r
  PROVE  Heavier(q, r) \/ Heavier(r, q)
BY SelectorAssumption DEF Heavier, Queue

LEMMA HeavierFirst ==
  ASSUME NEW q \in Queue, NEW r \in Queue, Heavier(r, q)
  PROVE  Cardinality(Above(r)) < Cardinality(Above(q))
<1>1. Above(r) \in SUBSET Above(q)
  BY SelectorAssumption DEF Above, Heavier, Queue
<1>2. r \in Above(q) /\ r \notin Above(r)
  BY SelectorAssumption DEF Above, Heavier, Queue
<1>3. IsFiniteSet(Above(q))
  BY AboveFinite
<1>4. /\ Cardinality(Above(r)) <= Cardinality(Above(q))
      /\ Cardinality(Above(q)) = Cardinality(Above(r)) => Above(q) = Above(r)
  BY <1>1, <1>3, FS_Subset
<1>5. Cardinality(Above(q)) \in Int /\ Cardinality(Above(r)) \in Int
  BY AboveFinite
<1> QED BY <1>2, <1>4, <1>5

LEMMA SameRankSameQueue ==
  ASSUME NEW q \in Queue, NEW r \in Queue,
         Cardinality(Above(q)) = Cardinality(Above(r))
  PROVE  q = r
<1> SUFFICES ASSUME q # r PROVE FALSE
  OBVIOUS
<1>1. Cardinality(Above(q)) \in Int /\ Cardinality(Above(r)) \in Int
  BY AboveFinite
<1> QED BY <1>1, HeavierTotal, HeavierFirst

\* Every queue is at its place in sortedQueues.
LEMMA SortedQueueOfRank ==
  ASSUME NEW q \in Queue
  PROVE  SortedQueue(Cardinality(Above(q))) = q
BY SameRankSameQueue DEF SortedQueue

\* Every place in sortedQueues holds a queue.
LEMMA SortedQueueIsQueue ==
  ASSUME NEW i \in 0..(Queues - 1)
  PROVE  SortedQueue(i) \in Queue /\ Cardinality(Above(SortedQueue(i))) = i
<1> DEFINE places == 0..(Queues - 1)
           rank == [q \in Queue |-> Cardinality(Above(q))]
<1>1. rank \in Injection(Queue, places)
  <2>1. rank \in [Queue -> places]
    BY AboveFinite
  <2>2. \A q, r \in Queue : rank[q] = rank[r] => q = r
    BY SameRankSameQueue
  <2> QED BY <2>1, <2>2, Fun_IsInj
<1>2. IsFiniteSet(places) /\ Cardinality(places) = Queues
  <2>1. Queues \in Nat \ {0}
    BY SelectorAssumption
  <2>2. 0 \in Int /\ Queues - 1 \in Int /\ ~(0 > Queues - 1) /\ Queues - 1 - 0 + 1 = Queues
    BY <2>1
  <2>3. /\ IsFiniteSet(places)
        /\ Cardinality(places) = IF 0 > Queues - 1 THEN 0 ELSE Queues - 1 - 0 + 1
    BY <2>2, FS_Interval
  <2> QED BY <2>2, <2>3
<1>3. rank \in Surjection(Queue, places)
  BY <1>1, <1>2, QueueFinite, FS_Injection
<1>4. \E q \in Queue : rank[q] = i
  BY <1>3, Fun_SurjectionProperties DEF Surjection
<1>5. \E q \in Queue : Cardinality(Above(q)) = i
  BY <1>4
<1> QED BY <1>5 DEF SortedQueue

-----------------------------------------------------------------------------
\* What has been polled in vain in this round: the queues before the next one.
\* A task begins a new round.
RoundInv ==
  /\ \A i \in 0..(nextQueueIndex - 1) : SortedQueue(i) \in barren
  /\ picked # 0 => nextQueueIndex = 0

PriorityInv == TypeOK /\ RoundInv /\ StrictPriority /\ SleepsAfterRound

\* The queues before the one that is polled next are barren.
LEMMA HeavierAreBarren ==
  ASSUME TypeOK, RoundInv, NEW r \in Queue, Cardinality(Above(r)) < Index
  PROVE  r \in RoundBarren
<1>1. Cardinality(Above(r)) \in 0..(Queues - 1)
  BY AboveFinite
<1>2. Index # 0 /\ Index = nextQueueIndex /\ RoundBarren = barren
  <2>1. Index # 0 /\ Index = nextQueueIndex
    BY <1>1, SelectorAssumption DEF Index, TypeOK
  <2> QED BY <2>1 DEF RoundBarren, RoundInv
<1>3. Cardinality(Above(r)) \in 0..(nextQueueIndex - 1)
  BY <1>1, <1>2, SelectorAssumption DEF TypeOK
<1> QED BY <1>2, <1>3, SortedQueueOfRank DEF RoundInv

LEMMA IndexInRange == TypeOK => Index \in 0..(Queues - 1)
BY SelectorAssumption DEF TypeOK, Index

LEMMA PriorityInit == Init => PriorityInv
<1> SUFFICES ASSUME Init PROVE PriorityInv
  OBVIOUS
<1> QED BY SelectorAssumption
        DEF Init, PriorityInv, TypeOK, RoundInv, StrictPriority, SleepsAfterRound

LEMMA PriorityStep == PriorityInv /\ [Next]_vars => PriorityInv'
<1> SUFFICES ASSUME PriorityInv, [Next]_vars PROVE PriorityInv'
  OBVIOUS
<1> DEFINE polled == SortedQueue(Index)
<1>0. /\ polled \in Queue /\ Cardinality(Above(polled)) = Index
      /\ Index \in 0..(Queues - 1)
      /\ RoundBarren \in SUBSET Queue
  BY IndexInRange, SortedQueueIsQueue DEF PriorityInv, TypeOK, RoundBarren
<1>1. ASSUME NEW q \in Queue, Arrive(q) PROVE PriorityInv'
  BY <1>1, SelectorAssumption
     DEF Arrive, PriorityInv, TypeOK, RoundInv, StrictPriority, SleepsAfterRound
<1>2. ASSUME NEW q \in Queue, Taken(q) PROVE PriorityInv'
  BY <1>2 DEF Taken, PriorityInv, TypeOK, RoundInv, StrictPriority, SleepsAfterRound
<1>3. CASE PickTask
  <2>1. TypeOK'
    BY <1>0, <1>3, SelectorAssumption DEF PickTask, PriorityInv, TypeOK
  <2>2. RoundInv'
    BY <1>3 DEF PickTask, RoundInv
  <2>3. StrictPriority'
    <3>1. SUFFICES ASSUME NEW r \in Queue, Weight[r] > Weight[polled]
                   PROVE  r \in RoundBarren
      BY <1>3 DEF PickTask, StrictPriority
    <3>2. Heavier(r, polled)
      BY <3>1 DEF Heavier
    <3> QED BY <1>0, <3>2, HeavierFirst, HeavierAreBarren DEF PriorityInv
  <2>4. SleepsAfterRound'
    BY <1>3 DEF PickTask, SleepsAfterRound
  <2> QED BY <2>1, <2>2, <2>3, <2>4 DEF PriorityInv
<1>4. CASE PickNothing
  <2>0. /\ picked' = 0 /\ nextQueueIndex' = Index + 1
        /\ slept' = WaitTime(Index + 1)
        /\ barren' = RoundBarren \cup {polled}
    BY <1>4 DEF PickNothing
  <2>1. TypeOK'
    <3>1. pending' \in [Queue -> Nat]
      BY <1>0, <1>4 DEF PickNothing, BadMessage, PriorityInv, TypeOK
    <3>2. sent' = sent
      BY <1>4 DEF PickNothing
    <3> QED BY <1>0, <2>0, <3>1, <3>2, SelectorAssumption
            DEF WaitTime, PriorityInv, TypeOK
  <2>2. RoundInv'
    <3>1. SUFFICES ASSUME NEW i \in 0..Index PROVE SortedQueue(i) \in barren'
      BY <1>0, <2>0 DEF RoundInv
    <3>2. CASE i = Index
      BY <3>2, <2>0
    <3>3. CASE i # Index
      <4>1. i \in 0..(Queues - 1) /\ i < Index
        BY <1>0, <3>1, <3>3, SelectorAssumption
      <4>2. SortedQueue(i) \in Queue /\ Cardinality(Above(SortedQueue(i))) < Index
        BY <4>1, SortedQueueIsQueue
      <4> QED BY <2>0, <4>2, HeavierAreBarren DEF PriorityInv
    <3> QED BY <3>2, <3>3
  <2>3. StrictPriority'
    BY <2>0 DEF StrictPriority
  <2>4. SleepsAfterRound'
    <3>1. SUFFICES ASSUME slept' = 5, NEW r \in Queue PROVE r \in barren'
      BY <2>0, <1>0 DEF SleepsAfterRound
    <3>2. Index = Queues - 1
      BY <1>0, <2>0, <3>1, SelectorAssumption DEF WaitTime
    <3>3. Cardinality(Above(r)) \in 0..Index
      BY <3>2, AboveFinite
    <3>4. CASE Cardinality(Above(r)) = Index
      BY <1>0, <2>0, <3>4, SameRankSameQueue
    <3>5. CASE Cardinality(Above(r)) < Index
      BY <2>0, <3>5, HeavierAreBarren DEF PriorityInv
    <3> QED BY <1>0, <3>3, <3>4, <3>5
  <2> QED BY <2>1, <2>2, <2>3, <2>4 DEF PriorityInv
<1>5. CASE PickFails
  <2>0. /\ picked' = 0 /\ nextQueueIndex' = Index /\ slept' = 0
        /\ barren' = RoundBarren
    BY <1>5 DEF PickFails
  <2>1. TypeOK'
    <3>1. pending' \in [Queue -> Nat]
      BY <1>0, <1>5 DEF PickFails, BadMessage, PriorityInv, TypeOK
    <3>2. sent' = sent
      BY <1>5 DEF PickFails
    <3> QED BY <1>0, <2>0, <3>1, <3>2, SelectorAssumption DEF PriorityInv, TypeOK
  <2>2. RoundInv'
    <3>1. SUFFICES ASSUME NEW i \in 0..(Index - 1) PROVE SortedQueue(i) \in barren'
      BY <1>0, <2>0 DEF RoundInv
    <3>2. i \in 0..(Queues - 1) /\ i < Index
      BY <1>0, <3>1, SelectorAssumption
    <3>3. SortedQueue(i) \in Queue /\ Cardinality(Above(SortedQueue(i))) < Index
      BY <3>2, SortedQueueIsQueue
    <3> QED BY <2>0, <3>3, HeavierAreBarren DEF PriorityInv
  <2>3. StrictPriority' /\ SleepsAfterRound'
    BY <2>0 DEF StrictPriority, SleepsAfterRound
  <2> QED BY <2>1, <2>2, <2>3 DEF PriorityInv
<1>6. CASE UNCHANGED vars
  BY <1>6 DEF vars, PriorityInv, TypeOK, RoundInv, StrictPriority, SleepsAfterRound
<1> QED BY <1>1, <1>2, <1>3, <1>4, <1>5, <1>6 DEF Next

\* The strategy's index stays within the queues, its wait time is one of two.
THEOREM StrategyTypeCorrect == Spec => []TypeOK
<1>1. PriorityInv => TypeOK
  BY DEF PriorityInv
<1> QED BY PriorityInit, PriorityStep, <1>1, PTL DEF Spec

\* StrictPriorityStrategy::pickNextTask(): no task is picked from a queue
\* before all the heavier ones gave none in the same round.
THEOREM PriorityIsStrict == Spec => []StrictPriority
<1>1. PriorityInv => StrictPriority
  BY DEF PriorityInv
<1> QED BY PriorityInit, PriorityStep, <1>1, PTL DEF Spec

\* StrictPriorityStrategy::getWaitTime(): five seconds only after a round in
\* which no queue gave a task.
THEOREM SleepAfterFullRound == Spec => []SleepsAfterRound
<1>1. PriorityInv => SleepsAfterRound
  BY DEF PriorityInv
<1> QED BY PriorityInit, PriorityStep, <1>1, PTL DEF Spec

-----------------------------------------------------------------------------
(* Induction.                                                               *)

\* Every set of natural numbers has a least element.
LEMMA Least ==
  ASSUME NEW T \in SUBSET Nat, T # {}
  PROVE  \E m \in T : \A k \in T : m <= k
<1>1. PICK m \in T : \A y \in T : ~ (<<y, m>> \in OpToRel(<, Nat))
  BY WFMin, NatLessThanWellFounded, Zenon
<1>2. \A k \in T : ~ (k < m)
  <2> SUFFICES ASSUME NEW k \in T, k < m PROVE FALSE
    OBVIOUS
  <2>1. <<k, m>> \in {ss \in Nat \X Nat : ss[1] < ss[2]}
    OBVIOUS
  <2> QED
    BY <1>1, <2>1, Zenon DEF OpToRel
<1> QED
  BY <1>2

\* Induction on natural numbers, for a set of them.
LEMMA InductionUpTo ==
  ASSUME NEW n \in Nat, NEW G, 0 \in G, \A i \in 1..n : i - 1 \in G => i \in G
  PROVE  0..n \subseteq G
<1> SUFFICES ASSUME ~(0..n \subseteq G) PROVE FALSE
  OBVIOUS
<1> DEFINE B == (0..n) \ G
<1>1. B \in SUBSET Nat /\ B # {}
  OBVIOUS
<1>2. PICK m \in B : \A k \in B : m <= k
  BY <1>1, Least
<1>3. m \in 1..n /\ m - 1 \notin B
  BY <1>2
<1> QED
  BY <1>2, <1>3

\* Induction on the subsets of a finite set, for a set of them.
LEMMA SubsetInduction ==
  ASSUME NEW S, IsFiniteSet(S), NEW G,
         \A T \in SUBSET S : (\A U \in SUBSET T : U # T => U \in G) => T \in G
  PROVE  SUBSET S \subseteq G
<1> SUFFICES ASSUME ~(SUBSET S \subseteq G) PROVE FALSE
  OBVIOUS
<1> DEFINE B == (SUBSET S) \ G
           C == {Cardinality(T) : T \in B}
<1>1. \A T \in SUBSET S : IsFiniteSet(T) /\ Cardinality(T) \in Nat
  BY FS_Subset, FS_CardinalityType
<1>2. C \in SUBSET Nat /\ C # {}
  BY <1>1
<1>3. PICK m \in C : \A k \in C : m <= k
  BY <1>2, Least
<1>4. PICK T \in B : \A U \in B : Cardinality(T) <= Cardinality(U)
  BY <1>3
<1>5. ASSUME NEW U \in SUBSET T, U # T PROVE U \in G
  <2>1. U \in SUBSET S /\ IsFiniteSet(T) /\ Cardinality(T) \in Nat /\ Cardinality(U) \in Nat
    BY <1>1, <1>4
  <2>2. Cardinality(U) <= Cardinality(T) /\ Cardinality(U) # Cardinality(T)
    BY <1>5, <2>1, FS_Subset
  <2>3. ~ (Cardinality(T) <= Cardinality(U))
    BY <2>1, <2>2
  <2> QED
    BY <1>4, <2>1, <2>3
<1> QED
  BY <1>4, <1>5

-----------------------------------------------------------------------------
(* Sums.                                                                    *)

Pick(s) == CHOOSE x \in s : TRUE

\* What SumFunction's recursive function is defined by.
IsSum(g, S, f) ==
  g = [s \in SUBSET S |-> IF s = {} THEN 0 ELSE f[Pick(s)] + g[s \ {Pick(s)}]]

Total(f, S) == (CHOOSE g : IsSum(g, S, f))[S]

LEMMA SumIsTotal == ASSUME NEW f PROVE SumFunction(f) = Total(f, DOMAIN f)
BY DEF SumFunction, SumFunctionOnSet, FoldFunctionOnSet, MapThenFoldSet, Total, IsSum, Pick

\* Sums of functions that agree on a set agree there.
LEMMA SumsAgree ==
  ASSUME NEW S, NEW T, NEW f, NEW e, NEW g, NEW h, IsSum(g, S, f), IsSum(h, T, e),
         NEW V, IsFiniteSet(V), V \subseteq S \cap T, \A x \in V : f[x] = e[x]
  PROVE  g[V] = h[V]
<1> DEFINE G == {U \in SUBSET V : g[U] = h[U]}
<1>1. ASSUME NEW U \in SUBSET V, \A W \in SUBSET U : W # U => W \in G
      PROVE  U \in G
  <2>1. U \in SUBSET S /\ U \in SUBSET T
    OBVIOUS
  <2>2. /\ g[U] = IF U = {} THEN 0 ELSE f[Pick(U)] + g[U \ {Pick(U)}]
        /\ h[U] = IF U = {} THEN 0 ELSE e[Pick(U)] + h[U \ {Pick(U)}]
    BY <2>1 DEF IsSum
  <2>3. U # {} => Pick(U) \in U
    BY DEF Pick
  <2>4. U # {} => g[U \ {Pick(U)}] = h[U \ {Pick(U)}] /\ f[Pick(U)] = e[Pick(U)]
    BY <1>1, <2>3
  <2> QED
    BY <2>2, <2>4
<1>2. SUBSET V \subseteq G
  <2> HIDE DEF G
  <2> QED
    BY <1>1, SubsetInduction
<1> QED
  BY <1>2

\* A finite set has a sum.
LEMMA SumExists ==
  ASSUME NEW S, IsFiniteSet(S), NEW f
  PROVE  IsSum(CHOOSE g : IsSum(g, S, f), S, f)
<1> DEFINE The(T) == CHOOSE g : IsSum(g, T, f)
           G == {T \in SUBSET S : IsSum(The(T), T, f)}
<1>1. ASSUME NEW T \in SUBSET S, \A U \in SUBSET T : U # T => U \in G
      PROVE  T \in G
  <2> DEFINE g == [s \in SUBSET T |-> IF s = {} THEN 0
                                      ELSE f[Pick(s)] + Total(f, s \ {Pick(s)})]
  <2>1. ASSUME NEW t \in SUBSET T, t # T PROVE g[t] = Total(f, t)
    <3>1. IsSum(The(t), t, f) /\ Total(f, t) = The(t)[t]
      BY <1>1, <2>1 DEF Total
    <3>2. CASE t = {}
      <4>1. The(t)[t] = 0
        <5> HIDE DEF The
        <5> QED BY <3>1, <3>2 DEF IsSum
      <4> QED BY <3>1, <3>2, <4>1
    <3>3. CASE t # {}
      <4> DEFINE u == t \ {Pick(t)}
      <4>1. Pick(t) \in t /\ u \in SUBSET t /\ u # T
        BY <3>3 DEF Pick
      <4>2. IsSum(The(u), u, f) /\ Total(f, u) = The(u)[u]
        BY <1>1, <4>1 DEF Total
      <4>3. The(t)[t] = f[Pick(t)] + The(t)[u]
        <5> HIDE DEF The
        <5> QED BY <3>1, <3>3 DEF IsSum
      <4>4. IsFiniteSet(u)
        BY FS_Subset
      <4>5. The(t)[u] = The(u)[u]
        <5> HIDE DEF The, u
        <5> QED BY <3>1, <4>1, <4>2, <4>4, SumsAgree
      <4>6. g[t] = f[Pick(t)] + Total(f, u)
        BY <3>3
      <4> QED
        BY <3>1, <4>2, <4>3, <4>5, <4>6
    <3> QED
      BY <3>2, <3>3
  <2>2. \A s \in SUBSET T : s # {} => Pick(s) \in s /\ s \ {Pick(s)} # T
    BY DEF Pick
  <2>3. \A s \in SUBSET T : s # {} => g[s \ {Pick(s)}] = Total(f, s \ {Pick(s)})
    <3> HIDE DEF g
    <3> QED BY <2>1, <2>2
  <2>4. g = [s \in SUBSET T |-> IF s = {} THEN 0 ELSE f[Pick(s)] + g[s \ {Pick(s)}]]
    BY <2>3
  <2>5. IsSum(g, T, f)
    BY <2>4 DEF IsSum
  <2>6. IsSum(The(T), T, f)
    <3> HIDE DEF g
    <3> QED BY <2>5
  <2> QED
    BY <2>6
<1>2. SUBSET S \subseteq G
  <2> HIDE DEF G
  <2> QED
    BY <1>1, SubsetInduction
<1> QED
  BY <1>2

\* One element is taken out and the rest is summed up.
LEMMA TotalStep ==
  ASSUME NEW S, IsFiniteSet(S), NEW f
  PROVE  Total(f, S) = IF S = {} THEN 0 ELSE f[Pick(S)] + Total(f, S \ {Pick(S)})
<1> DEFINE R == S \ {Pick(S)}
           g == CHOOSE g : IsSum(g, S, f)
           h == CHOOSE h : IsSum(h, R, f)
<1>1. IsFiniteSet(R) /\ R \subseteq S
  BY FS_Subset
<1>2. IsSum(g, S, f) /\ IsSum(h, R, f)
  BY <1>1, SumExists
<1>3. g[R] = h[R]
  <2> HIDE DEF g, h, R
  <2> QED BY <1>1, <1>2, SumsAgree
<1>4. g[S] = IF S = {} THEN 0 ELSE f[Pick(S)] + g[R]
  <2> HIDE DEF g
  <2> QED BY <1>2 DEF IsSum
<1> QED
  BY <1>3, <1>4 DEF Total

\* The sum over a set depends on the values on that set only.
LEMMA TotalAgrees ==
  ASSUME NEW S, IsFiniteSet(S), NEW f, NEW e, \A x \in S : f[x] = e[x]
  PROVE  Total(f, S) = Total(e, S)
<1> DEFINE g == CHOOSE g : IsSum(g, S, f)
           h == CHOOSE h : IsSum(h, S, e)
<1>1. IsSum(g, S, f) /\ IsSum(h, S, e)
  BY SumExists
<1>2. g[S] = h[S]
  <2> HIDE DEF g, h
  <2> QED BY <1>1, SumsAgree
<1> QED
  BY <1>2 DEF Total

LEMMA TotalType ==
  ASSUME NEW S, IsFiniteSet(S), NEW f, \A x \in S : f[x] \in Nat
  PROVE  \A T \in SUBSET S : Total(f, T) \in Nat
<1> DEFINE G == {T \in SUBSET S : Total(f, T) \in Nat}
<1>1. ASSUME NEW T \in SUBSET S, \A U \in SUBSET T : U # T => U \in G
      PROVE  T \in G
  <2>1. Total(f, T) = IF T = {} THEN 0 ELSE f[Pick(T)] + Total(f, T \ {Pick(T)})
    BY FS_Subset, TotalStep
  <2>2. T # {} => Pick(T) \in T
    BY DEF Pick
  <2>3. T # {} => f[Pick(T)] \in Nat /\ Total(f, T \ {Pick(T)}) \in Nat
    BY <1>1, <2>2
  <2>4. Total(f, T) \in Nat
    BY <2>1, <2>3
  <2> QED
    BY <2>4
<1>2. SUBSET S \subseteq G
  <2> HIDE DEF G
  <2> QED
    BY <1>1, SubsetInduction
<1> QED
  BY <1>2

\* Whichever element is taken out.
LEMMA TotalRemove ==
  ASSUME NEW S, IsFiniteSet(S), NEW f, \A x \in S : f[x] \in Nat, NEW e \in S
  PROVE  Total(f, S) = f[e] + Total(f, S \ {e})
<1> DEFINE Good(T) == \A x \in T : Total(f, T) = f[x] + Total(f, T \ {x})
           G == {T \in SUBSET S : Good(T)}
<1>1. ASSUME NEW T \in SUBSET S, \A U \in SUBSET T : U # T => U \in G
      PROVE  T \in G
  <2>1. ASSUME NEW x \in T PROVE Total(f, T) = f[x] + Total(f, T \ {x})
    <3> DEFINE c == Pick(T)
    <3>1. c \in T /\ Total(f, T) = f[c] + Total(f, T \ {c})
      BY FS_Subset, TotalStep DEF Pick
    <3>2. CASE x = c
      BY <3>1, <3>2
    <3>3. CASE x # c
      <4> HIDE DEF c
      <4>1. Good(T \ {c}) /\ Good(T \ {x})
        BY <1>1, <2>1, <3>1
      <4>2. Total(f, T \ {c}) = f[x] + Total(f, (T \ {c}) \ {x})
        BY <2>1, <3>3, <4>1
      <4>3. Total(f, T \ {x}) = f[c] + Total(f, (T \ {x}) \ {c})
        BY <3>1, <3>3, <4>1
      <4>4. (T \ {c}) \ {x} = (T \ {x}) \ {c}
        OBVIOUS
      <4>5. f[x] \in Nat /\ f[c] \in Nat /\ Total(f, (T \ {x}) \ {c}) \in Nat
        BY <2>1, <3>1, TotalType
      <4> QED
        BY <3>1, <4>2, <4>3, <4>4, <4>5
    <3> QED
      BY <3>2, <3>3
  <2> QED
    BY <2>1
<1>2. SUBSET S \subseteq G
  <2> HIDE DEF G
  <2> QED
    BY <1>1, SubsetInduction
<1>3. Good(S)
  BY <1>2
<1> QED
  BY <1>3

-----------------------------------------------------------------------------
(* The weights.                                                             *)

Count == Len(weights)

WeightsOK == weights \in Seq(Nat) /\ SumFunction(weights) > 0

LEMMA UpToTotal ==
  ASSUME WeightsOK, NEW i \in 0..Count
  PROVE  WeightUpTo(i) = Total(weights, 1..i) /\ WeightUpTo(i) \in Nat
<1> DEFINE f == [j \in 1..i |-> weights[j]]
<1>1. Count \in Nat /\ \A j \in 1..i : weights[j] \in Nat
  BY DEF WeightsOK, Count
<1>2. IsFiniteSet(1..i)
  BY <1>1, FS_Interval
<1>3. WeightUpTo(i) = Total(f, 1..i)
  BY SumIsTotal DEF WeightUpTo
<1>4. Total(f, 1..i) = Total(weights, 1..i)
  BY <1>2, TotalAgrees
<1>5. Total(weights, 1..i) \in Nat
  BY <1>1, <1>2, TotalType
<1> QED
  BY <1>3, <1>4, <1>5

\* The borders of the shares: each queue adds its weight.
LEMMA Borders ==
  ASSUME WeightsOK
  PROVE  /\ Count \in Nat \ {0}
         /\ WeightUpTo(0) = 0 /\ WeightUpTo(Count) = SumFunction(weights)
         /\ \A i \in 0..Count : WeightUpTo(i) \in Nat
         /\ \A i \in 1..Count : weights[i] \in Nat /\ WeightUpTo(i) = WeightUpTo(i - 1) + weights[i]
<1>1. Count \in Nat /\ DOMAIN weights = 1..Count /\ \A j \in 1..Count : weights[j] \in Nat
  BY DEF WeightsOK, Count
<1>2. WeightUpTo(Count) = SumFunction(weights)
  BY <1>1, UpToTotal, SumIsTotal
<1>3. Total(weights, {}) = 0
  BY FS_EmptySet, TotalStep
<1>4. WeightUpTo(0) = 0
  BY <1>1, <1>3, UpToTotal
<1>5. Count # 0
  BY <1>2, <1>4 DEF WeightsOK
<1>6. ASSUME NEW i \in 1..Count PROVE WeightUpTo(i) = WeightUpTo(i - 1) + weights[i]
  <2>1. IsFiniteSet(1..i) /\ i - 1 \in 0..Count /\ i \in 0..Count
    BY <1>1, FS_Interval
  <2>0. (1..i) \ {i} = 1..(i - 1)
    <3>1. \A k \in Int : k \in 1..i /\ k # i <=> k \in 1..(i - 1)
      BY <1>1
    <3> QED
      BY <3>1
  <2>2. \A j \in 1..i : weights[j] \in Nat
    BY <1>1
  <2>3. Total(weights, 1..i) = weights[i] + Total(weights, 1..(i - 1))
    BY <1>1, <2>0, <2>1, <2>2, TotalRemove
  <2>4. /\ WeightUpTo(i) = Total(weights, 1..i)
        /\ WeightUpTo(i - 1) = Total(weights, 1..(i - 1)) /\ WeightUpTo(i - 1) \in Nat
    BY <2>1, UpToTotal
  <2> QED
    BY <1>1, <2>3, <2>4
<1> QED
  BY <1>1, <1>2, <1>4, <1>5, <1>6, UpToTotal

\* Later borders are not below earlier ones.
LEMMA BordersGrow ==
  ASSUME WeightsOK, NEW i \in 0..Count, NEW j \in 0..Count, i <= j
  PROVE  WeightUpTo(i) <= WeightUpTo(j)
<1> DEFINE G == {k \in 0..Count : i <= k => WeightUpTo(i) <= WeightUpTo(k)}
<1>1. Count \in Nat
  BY Borders
<1>2. 0 \in G
  BY <1>1, Borders
<1>3. ASSUME NEW k \in 1..Count, k - 1 \in G PROVE k \in G
  <2>1. /\ WeightUpTo(k) = WeightUpTo(k - 1) + weights[k] /\ weights[k] \in Nat
        /\ WeightUpTo(i) \in Nat /\ WeightUpTo(k - 1) \in Nat
    BY <1>1, Borders
  <2> QED
    BY <1>1, <1>3, <2>1
<1>4. 0..Count \subseteq G
  <2> HIDE DEF G
  <2> QED
    BY <1>1, <1>2, <1>3, InductionUpTo
<1> QED
  BY <1>4

\* What the loop of pickQueueByWight() has left of the number.
LEMMA LeftIs ==
  ASSUME WeightsOK, NEW r \in Int, NEW i \in 0..Count
  PROVE  Left(r)[i] = r - WeightUpTo(i)
<1> DEFINE IsLeft(l) == l = [k \in 0..Count |-> IF k = 0 THEN r ELSE l[k - 1] - weights[k]]
           a == [k \in 0..Count |-> r - WeightUpTo(k)]
<1>1. Count \in Nat
  BY Borders
<1>2. \A k \in 0..Count : a[k] = IF k = 0 THEN r ELSE a[k - 1] - weights[k]
  <2> SUFFICES ASSUME NEW k \in 0..Count PROVE a[k] = IF k = 0 THEN r ELSE a[k - 1] - weights[k]
    OBVIOUS
  <2>1. CASE k = 0
    BY <2>1, Borders
  <2>2. CASE k # 0
    <3>1. k \in 1..Count /\ k - 1 \in 0..Count
      BY <1>1, <2>2
    <3>2. /\ WeightUpTo(k) = WeightUpTo(k - 1) + weights[k]
          /\ weights[k] \in Nat /\ WeightUpTo(k - 1) \in Nat
      BY <3>1, Borders
    <3> QED
      BY <2>2, <3>1, <3>2
  <2> QED
    BY <2>1, <2>2
<1>3. IsLeft(a)
  BY <1>2
<1>4. Left(r) = CHOOSE l : IsLeft(l)
  BY DEF Left, Count
<1>5. IsLeft(Left(r))
  <2> HIDE DEF a, IsLeft
  <2> QED
    BY <1>3, <1>4
<1> DEFINE G == {k \in 0..Count : Left(r)[k] = a[k]}
<1>6. 0 \in G
  <2>1. 0 \in 0..Count
    BY <1>1
  <2>2. Left(r)[0] = r
    BY <1>5, <2>1
  <2>3. a[0] = r
    <3> HIDE DEF a
    <3> QED BY <1>2, <2>1
  <2> QED
    BY <2>1, <2>2, <2>3
<1>7. ASSUME NEW k \in 1..Count, k - 1 \in G PROVE k \in G
  <2>1. k \in 0..Count /\ k # 0
    BY <1>1
  <2>2. Left(r)[k] = Left(r)[k - 1] - weights[k]
    BY <1>5, <2>1
  <2>3. a[k] = a[k - 1] - weights[k]
    <3> HIDE DEF a
    <3> QED BY <1>2, <2>1
  <2> QED
    BY <1>7, <2>1, <2>2, <2>3
<1>8. 0..Count \subseteq G
  <2> HIDE DEF G
  <2> QED
    BY <1>1, <1>6, <1>7, InductionUpTo
<1> QED
  BY <1>8

\* The queue picked for a number is the one whose share the number is in.
LEMMA PicksOwner ==
  ASSUME WeightsOK, NEW r \in Numbers
  PROVE  PickQueue(r) \in 1..Count /\ r \in Share(PickQueue(r))
<1> DEFINE hits == {i \in 1..Count : Left(r)[i] <= 0}
<1>1. /\ Count \in Nat \ {0}
      /\ r \in Nat /\ r > 0 /\ r <= WeightUpTo(Count)
      /\ \A i \in 0..Count : WeightUpTo(i) \in Nat
  <2>1. WeightUpTo(Count) \in Nat /\ SumFunction(weights) = WeightUpTo(Count)
    BY Borders
  <2> QED
    BY <2>1, Borders DEF Numbers
<1>2. hits = {i \in 1..Count : r <= WeightUpTo(i)}
  <2>1. \A i \in 1..Count : Left(r)[i] = r - WeightUpTo(i) /\ WeightUpTo(i) \in Nat
    BY <1>1, LeftIs
  <2> QED
    BY <1>1, <2>1
<1>3. Count \in hits /\ hits \in SUBSET Nat
  BY <1>1, <1>2
<1>4. PickQueue(r) \in hits /\ \A i \in hits : PickQueue(r) <= i
  <2>1. \E m \in hits : \A i \in hits : m <= i
    <3> HIDE DEF hits
    <3> QED BY <1>3, Least
  <2>2. PickQueue(r) = Min(hits)
    BY <1>3 DEF PickQueue, Count
  <2> HIDE DEF hits
  <2> QED
    BY <2>1, <2>2 DEF Min
<1>5. PICK q \in 1..Count : q = PickQueue(r)
  BY <1>2, <1>4
<1>6. q - 1 \in 0..Count /\ q \in 0..Count
  BY <1>1
<1>7. WeightUpTo(q - 1) < r
  <2>1. CASE q = 1
    BY <1>1, <2>1, Borders
  <2>2. CASE q # 1
    <3>1. q - 1 \in 1..Count /\ ~(q <= q - 1)
      BY <1>1, <2>2
    <3>2. ~(r <= WeightUpTo(q - 1))
      BY <1>2, <1>4, <1>5, <3>1
    <3> QED
      BY <1>1, <1>6, <3>2
  <2> QED
    BY <2>1, <2>2
<1>8. r <= WeightUpTo(q)
  BY <1>2, <1>4, <1>5
<1> QED
  BY <1>1, <1>5, <1>6, <1>7, <1>8 DEF Share

\* Every number of a queue's share picks that queue.
LEMMA OwnerPicked ==
  ASSUME WeightsOK, NEW q \in 1..Count, NEW r \in Share(q)
  PROVE  r \in Numbers /\ PickQueue(r) = q
<1>1. /\ Count \in Nat
      /\ \A i \in 0..Count : WeightUpTo(i) \in Nat
  BY Borders
<1>2. q \in 0..Count /\ q - 1 \in 0..Count /\ Count \in 0..Count
  BY <1>1
<1>3. r \in Nat /\ WeightUpTo(q - 1) < r /\ r <= WeightUpTo(q)
  BY <1>1, <1>2 DEF Share
<1>4. r \in Numbers
  <2>1. WeightUpTo(q) <= WeightUpTo(Count) /\ WeightUpTo(Count) = SumFunction(weights)
    BY <1>1, <1>2, Borders, BordersGrow
  <2> QED
    BY <1>1, <1>2, <1>3, <2>1 DEF Numbers
<1>5. PICK p \in 1..Count : p = PickQueue(r) /\ r \in Share(p)
  BY <1>4, PicksOwner
<1>6. p \in 0..Count /\ p - 1 \in 0..Count
  BY <1>1
<1>7. WeightUpTo(p - 1) < r /\ r <= WeightUpTo(p)
  BY <1>1, <1>5, <1>6 DEF Share
<1>8. ~(p < q)
  <2> SUFFICES ASSUME p <= q - 1 PROVE FALSE
    BY <1>1
  <2>1. WeightUpTo(p) <= WeightUpTo(q - 1)
    BY <1>2, <1>6, BordersGrow
  <2> QED
    BY <1>1, <1>2, <1>3, <1>6, <1>7, <2>1
<1>9. ~(q < p)
  <2> SUFFICES ASSUME q <= p - 1 PROVE FALSE
    BY <1>1
  <2>1. WeightUpTo(q) <= WeightUpTo(p - 1)
    BY <1>2, <1>6, BordersGrow
  <2> QED
    BY <1>1, <1>2, <1>3, <1>6, <1>7, <2>1
<1> QED
  BY <1>1, <1>4, <1>5, <1>8, <1>9

\* The numbers that pick a queue.
PickedBy(q) == {r \in Numbers : PickQueue(r) = q}

\* Of the numbers that may be drawn, a queue is picked by as many as it has
\* weight.
ChanceIsWeight ==
  \A q \in 1..Len(weights) : Cardinality(PickedBy(q)) = weights[q]

LEMMA ChanceOfWeight == WeightsOK => ChanceIsWeight
<1> SUFFICES ASSUME WeightsOK, NEW q \in 1..Count
             PROVE  Cardinality(PickedBy(q)) = weights[q]
  BY DEF ChanceIsWeight, Count
<1>1. PickedBy(q) = Share(q)
  BY PicksOwner, OwnerPicked DEF PickedBy
<1>2. /\ WeightUpTo(q) = WeightUpTo(q - 1) + weights[q]
      /\ weights[q] \in Nat /\ WeightUpTo(q) \in Nat /\ WeightUpTo(q - 1) \in Nat
  BY Borders
<1>3. ASSUME NEW a \in Nat, NEW w \in Nat PROVE Cardinality((a + 1)..(a + w)) = w
  <2>1. a + 1 \in Int /\ a + w \in Int
    OBVIOUS
  <2>2. Cardinality((a + 1)..(a + w)) =
          IF a + 1 > a + w THEN 0 ELSE (a + w) - (a + 1) + 1
    BY <2>1, FS_Interval
  <2> QED
    BY <2>2
<1>4. Cardinality(Share(q)) = weights[q]
  BY <1>2, <1>3 DEF Share
<1> QED
  BY <1>1, <1>4

DrawInv ==
  /\ weights \in Configurations
  /\ rand # 0 => rand \in Numbers /\ chosen = PickQueue(rand)

LEMMA DrawInductive == DrawSpec => []DrawInv
<1>1. DrawInit => DrawInv
  BY DEF DrawInit, DrawInv
<1>2. DrawInv /\ [Draw]_draw => DrawInv'
  <2> SUFFICES ASSUME DrawInv, [Draw]_draw PROVE DrawInv'
    OBVIOUS
  <2>1. weights' = weights /\ Numbers' = Numbers
    BY DEF Draw, draw, Numbers
  <2>2. \A r : PickQueue(r)' = PickQueue(r)
    BY <2>1 DEF PickQueue, Left
  <2>3. CASE Draw
    BY <2>1, <2>3 DEF Draw, DrawInv, PickQueue, Left
  <2>4. CASE UNCHANGED draw
    BY <2>1, <2>4 DEF draw, DrawInv, PickQueue, Left
  <2> QED
    BY <2>3, <2>4
<1> QED
  BY <1>1, <1>2, PTL DEF DrawSpec

LEMMA ConfigurationOK == DrawInv => WeightsOK
BY ConfigurationsAssumption DEF DrawInv, WeightsOK

\* The number drawn is in the share of the queue it picks.
THEOREM ChanceProportional == DrawSpec => []ProportionalChance
<1>1. DrawInv => ProportionalChance
  <2> SUFFICES ASSUME DrawInv, rand # 0 PROVE chosen # 0 /\ rand \in Share(chosen)
    BY DEF ProportionalChance
  <2>1. rand \in Numbers /\ chosen = PickQueue(rand)
    BY DEF DrawInv
  <2>2. chosen \in 1..Count /\ rand \in Share(chosen)
    BY <2>1, PicksOwner, ConfigurationOK
  <2> QED
    BY <2>2, Borders, ConfigurationOK
<1> QED
  BY <1>1, DrawInductive, PTL

\* pickQueueByWight() gives every queue its chance and no more: of the numbers
\* mt_rand() may return, exactly weight-many pick the queue.
THEOREM WeightsAreChances == DrawSpec => []ChanceIsWeight
<1>1. DrawInv => ChanceIsWeight
  BY ConfigurationOK, ChanceOfWeight
<1> QED
  BY <1>1, DrawInductive, PTL
=============================================================================
