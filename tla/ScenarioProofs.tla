--------------------------- MODULE ScenarioProofs ---------------------------
(***************************************************************************)
(* The planner for every count and every seed: a scenario's delivery order *)
(* sends every sequence of the manifest exactly once, a reconnect_burst    *)
(* keeps its faults apart, the manifest's validator accepts what the       *)
(* planner makes (but for the shortest bursts), and the reordering shows   *)
(* in the rows that can become canonical.                                  *)
(***************************************************************************)
EXTENDS ScenarioPlan, FiniteSetTheorems, WellFoundedInduction, TLAPS

\* The plain range is a delivery order.
LEMMA IdentityIsOrder ==
  ASSUME NEW n \in Nat
  PROVE  IsDeliveryOrder(Identity(n), n)
  BY DEF IsDeliveryOrder, Identity

\* Reversing a slice keeps a delivery order one.
LEMMA ReverseSliceKeepsOrder ==
  ASSUME NEW n \in Nat, NEW order, IsDeliveryOrder(order, n),
         NEW a \in Nat, NEW b \in Nat, b <= n
  PROVE  IsDeliveryOrder(ReverseSlice(order, a, b), n)
<1> DEFINE Mirror(i) == IF a < i /\ i <= b THEN a + b + 1 - i ELSE i
           turned == ReverseSlice(order, a, b)
<1>1. /\ order \in [1 .. n -> 1 .. n]
      /\ DOMAIN order = 1 .. n
      /\ \A i, j \in 1 .. n : order[i] = order[j] => i = j
      /\ \A k \in 1 .. n : \E i \in 1 .. n : order[i] = k
  BY DEF IsDeliveryOrder
<1>2. ASSUME NEW i \in 1 .. n
      PROVE  Mirror(i) \in 1 .. n /\ Mirror(Mirror(i)) = i
  OBVIOUS
<1>3. ASSUME NEW i \in 1 .. n
      PROVE  turned[i] = order[Mirror(i)]
  BY <1>1 DEF ReverseSlice
<1>4. turned \in [1 .. n -> 1 .. n]
  <2>1. turned = [i \in 1 .. n |-> order[Mirror(i)]]
    BY <1>1 DEF ReverseSlice
  <2> HIDE DEF turned, Mirror
  <2> QED
    BY <1>1, <1>2, <2>1
<1>5. ASSUME NEW i \in 1 .. n, NEW j \in 1 .. n, turned[i] = turned[j]
      PROVE  i = j
  <2> HIDE DEF turned, Mirror
  <2>1. Mirror(i) = Mirror(j)
    BY <1>1, <1>2, <1>3, <1>5
  <2> QED
    BY <1>2, <2>1
<1>6. ASSUME NEW k \in 1 .. n
      PROVE  \E i \in 1 .. n : turned[i] = k
  <2> HIDE DEF turned, Mirror
  <2>1. PICK i \in 1 .. n : order[i] = k
    BY <1>1
  <2>2. Mirror(i) \in 1 .. n /\ turned[Mirror(i)] = k
    BY <1>2, <1>3, <2>1
  <2> QED
    BY <2>2
<1> QED
  BY <1>4, <1>5, <1>6 DEF IsDeliveryOrder

\* Both windows lie inside the range.
LEMMA WindowsFit ==
  ASSUME NEW n \in Nat, NEW primary \in BOOLEAN
  PROVE  /\ Start(n, primary) \in Nat
         /\ Start(n, primary) + Width(n, primary) \in Nat
         /\ Start(n, primary) + Width(n, primary) <= n
         /\ SecondStart(n) \in Nat
         /\ SecondEnd(n) \in Nat
         /\ SecondEnd(n) <= n
<1>1. /\ Width(n, primary) \in Nat /\ Width(n, primary) <= n
      /\ Width(n, TRUE) \in Nat /\ Width(n, TRUE) <= n
  BY DEF Width, Least
<1>2. n \div 4 \in Nat /\ n \div 2 \in Nat /\ n \div 5 \in Nat
  OBVIOUS
<1>3. /\ Start(n, primary) \in Nat /\ Start(n, primary) + Width(n, primary) <= n
      /\ Start(n, TRUE) \in Nat
  <2>1. ASSUME NEW w \in Nat, w <= n, NEW q \in Nat
        PROVE  LET s == Greatest(0, Least(n - w, q)) IN s \in Nat /\ s + w <= n
    BY <2>1 DEF Least, Greatest
  <2> QED
    BY <1>1, <1>2, <2>1 DEF Start
<1>4. SecondStart(n) \in Nat
  <2>1. ASSUME NEW i \in Nat, NEW w \in Nat, NEW j \in Nat
        PROVE  Greatest(i + w, j) \in Nat
    BY DEF Greatest
  <2> QED
    BY <1>1, <1>2, <1>3, <2>1, Zenon DEF SecondStart
<1>5. SecondEnd(n) \in Nat /\ SecondEnd(n) <= n
  BY <1>2, <1>4 DEF SecondEnd, Least
<1> QED
  BY <1>1, <1>3, <1>4, <1>5

\* _reordered_sequences returns every sequence exactly once.
THEOREM ReorderedIsOrder ==
  ASSUME NEW n \in Nat, NEW primary \in BOOLEAN
  PROVE  IsDeliveryOrder(Reordered(n, primary), n)
<1> DEFINE a == Start(n, primary)
           first == ReverseSlice(Identity(n), a, a + Width(n, primary))
<1>1. IsDeliveryOrder(Identity(n), n)
  BY IdentityIsOrder
<1>2. CASE n < 3
  BY <1>1, <1>2, ReverseSliceKeepsOrder DEF Reordered
<1>3. CASE ~(n < 3)
  <2>1. IsDeliveryOrder(first, n)
    BY <1>1, WindowsFit, ReverseSliceKeepsOrder
  <2>2. IsDeliveryOrder(ReverseSlice(first, SecondStart(n), SecondEnd(n)), n)
    <3> HIDE DEF first
    <3> QED
      BY <2>1, WindowsFit, ReverseSliceKeepsOrder
  <2> QED
    BY <1>3, <2>1, <2>2 DEF Reordered
<1> QED
  BY <1>2, <1>3

-----------------------------------------------------------------------------
\* The plan under construction has a delivery order in every state.
OrderInv ==
  /\ count \in Nat
  /\ "order" \in DOMAIN plan
  /\ IsDeliveryOrder(plan.order, count)

\* Every plan build_scenario makes, for any scenario, count and seed, sends each
\* sequence of its manifest exactly once, so the two checks of delivery_order in
\* validate_manifest never refuse it.
THEOREM PlannedOrderIsComplete == Spec => []OrderInv
<1>1. Init => OrderInv
  BY IdentityIsOrder DEF Init, OrderInv, NoFaults
<1>2. OrderInv /\ [Next]_vars => OrderInv'
  <2> SUFFICES ASSUME OrderInv, [Next]_vars
               PROVE  OrderInv'
    OBVIOUS
  <2>1. ASSUME NEW p, Configure(p), "order" \in DOMAIN p,
               IsDeliveryOrder(p.order, count)
        PROVE  OrderInv'
    BY <2>1 DEF Configure, OrderInv
  <2>2. CASE BuildHappyPath
    BY <2>1, <2>2 DEF BuildHappyPath, OrderInv
  <2>3. CASE BuildDuplicates
    BY <2>1, <2>3 DEF BuildDuplicates, OrderInv
  <2>4. CASE BuildInvalids
    BY <2>1, <2>4 DEF BuildInvalids, OrderInv
  <2>5. CASE BuildDelays
    BY <2>1, <2>5, ReorderedIsOrder DEF BuildDelays, OrderInv
  <2>6. CASE BuildReconnect
    BY <2>1, <2>6 DEF BuildReconnect, OrderInv
  <2>7. CASE BuildBurst
    BY <2>1, <2>7, ReorderedIsOrder DEF BuildBurst, InjectBurst, OrderInv
  <2>8. CASE Validate
    BY <2>8 DEF Validate, OrderInv
  <2>9. CASE UNCHANGED vars
    BY <2>9 DEF vars, OrderInv
  <2> QED
    BY <2>2, <2>3, <2>4, <2>5, <2>6, <2>7, <2>8, <2>9 DEF Next, BuildScenario
<1> QED
  BY <1>1, <1>2, PTL DEF Spec

-----------------------------------------------------------------------------
\* What _sample_sequences draws lies in the range and outside the excluded set.
LEMMA SamplesAvoidExcluded ==
  ASSUME NEW amount, NEW excluded, NEW S \in Samples(amount, excluded)
  PROVE  S \subseteq (1 .. count) \ excluded
<1> DEFINE candidates == (1 .. count) \ excluded
           k == Least(amount, Cardinality(candidates))
<1>1. CASE S \in kSubset(k, candidates)
  BY <1>1 DEF kSubset
<1>2. CASE S \in {Smallest(candidates, k), Largest(candidates, k)}
  BY <1>2 DEF Smallest, Largest
<1> QED
  BY <1>1, <1>2 DEF Samples

\* The 40 % point of a run is not after its 70 % point, also when both are rounded.
LEMMA ReconnectBeforeBurst ==
  ASSUME NEW n \in Nat
  PROVE  Greatest(1, Round(n, 40)) <= Greatest(1, Round(n, 70))
<1>1. n * 40 \in Nat /\ n * 70 \in Nat /\ n * 40 <= n * 70
  OBVIOUS
<1> QED
  BY <1>1 DEF Round, Greatest

\* A reconnect_burst plan keeps its faults apart from the moment it is built.
ApartInv ==
  /\ count \in Nat
  /\ status \in {"asked", "built", "valid", "refused"}
  /\ scenario = "reconnect_burst" /\ status # "asked" =>
       /\ plan.disconnect \notin plan.invalid \cup plan.duplicate \cup plan.delayed
       /\ plan.invalid \cap (plan.duplicate \cup plan.delayed) = {}
       /\ plan.disconnect <= plan.burst

\* For every count and seed, the event whose reply is left unread is neither
\* invalid, repeated nor held, and no invalid event is repeated or held
\* (build_scenario, reconnect_burst).
THEOREM BurstFaultsDoNotMeet == Spec => []FaultsDoNotMeet
<1>1. Init => ApartInv
  BY DEF Init, ApartInv
<1>2. ApartInv /\ [Next]_vars => ApartInv'
  <2> SUFFICES ASSUME ApartInv, [Next]_vars
               PROVE  ApartInv'
    OBVIOUS
  <2>1. ASSUME NEW p, Configure(p), scenario # "reconnect_burst"
        PROVE  ApartInv'
    BY <2>1 DEF Configure, ApartInv
  <2>2. CASE \/ BuildHappyPath \/ BuildDuplicates \/ BuildInvalids
             \/ BuildDelays \/ BuildReconnect
    BY <2>1, <2>2 DEF BuildHappyPath, BuildDuplicates, BuildInvalids, BuildDelays,
                      BuildReconnect
  <2>3. CASE BuildBurst
    <3>1. PICK V, D, L :
            /\ V \in Samples(Greatest(5, Round(count, 2)), {Target})
            /\ D \in Samples(Greatest(1, Round(count, 5)), V \cup {Target})
            /\ L \in Samples(Greatest(1, Round(count, 1)), V \cup {Target})
            /\ InjectBurst(V, D, L)
      BY <2>3 DEF BuildBurst
    <3>2. Target \notin V \cup D \cup L /\ V \cap (D \cup L) = {}
      BY <3>1, SamplesAvoidExcluded
    <3>3. Target <= Greatest(1, Round(count, 70))
      BY ReconnectBeforeBurst DEF Target, ApartInv
    <3>4. /\ plan'.disconnect = Target /\ plan'.burst = Greatest(1, Round(count, 70))
          /\ plan'.invalid = V /\ plan'.duplicate = D /\ plan'.delayed = L
          /\ status' = "built" /\ count' = count
      BY <3>1 DEF InjectBurst, Configure
    <3> QED
      BY <3>2, <3>3, <3>4 DEF ApartInv
  <2>4. CASE Validate
    BY <2>4 DEF Validate, ApartInv
  <2>5. CASE UNCHANGED vars
    BY <2>5 DEF vars, ApartInv
  <2> QED
    BY <2>2, <2>3, <2>4, <2>5 DEF Next, BuildScenario
<1>3. ApartInv => FaultsDoNotMeet
  BY DEF ApartInv, FaultsDoNotMeet
<1> QED
  BY <1>1, <1>2, <1>3, PTL DEF Spec

-----------------------------------------------------------------------------
(* What a sample of sequences holds *)

\* A non-empty set of sequences has a first one.
LEMMA FirstOfMany ==
  ASSUME NEW S \in SUBSET Nat, S # {}
  PROVE  \E x \in S : \A s \in S : x <= s
<1> DEFINE Less == OpToRel(<, Nat)
<1>3. IsWellFoundedOn(Less, Nat)
  BY NatLessThanWellFounded, Zenon
<1>1. PICK x \in S : \A s \in S : <<s, x>> \notin Less
  <2> HIDE DEF Less
  <2> QED
    BY <1>3, WFMin
<1>2. ASSUME NEW s \in S
      PROVE  x <= s
  <2>1. <<s, x>> \in Nat \X Nat /\ <<s, x>>[1] = s /\ <<s, x>>[2] = x
    OBVIOUS
  <2>2. ~ (s < x)
    BY <1>1, <2>1 DEF OpToRel
  <2> QED
    BY <2>1, <2>2
<1> QED
  BY <1>2

\* With a bound, it has a last one too.
LEMMA LastOfMany ==
  ASSUME NEW n \in Nat, NEW S \in SUBSET (1 .. n), S # {}
  PROVE  \E x \in S : \A s \in S : s <= x
<1> DEFINE Slack == {n - s : s \in S}
<1>1. Slack \subseteq Nat /\ Slack # {}
  OBVIOUS
<1>2. PICK y \in Slack : \A z \in Slack : y <= z
  <2> HIDE DEF Slack
  <2> QED
    BY <1>1, FirstOfMany
<1>3. PICK x \in S : y = n - x
  BY DEF Slack
<1>4. ASSUME NEW s \in S
      PROVE  s <= x
  <2>1. n - x <= n - s
    BY <1>2, <1>3
  <2> QED
    BY <2>1
<1> QED
  BY <1>4

\* The k smallest and the k largest elements are at most k, some when k and the set
\* are not empty, and all when there are no more than k.
LEMMA ExtremeSamples ==
  ASSUME NEW n \in Nat, NEW S \in SUBSET (1 .. n), NEW k \in Nat,
         NEW T \in {Smallest(S, k), Largest(S, k)}
  PROVE  /\ IsFiniteSet(T)
         /\ Cardinality(T) <= k
         /\ k # 0 /\ S # {} => T # {}
         /\ Cardinality(S) <= k => T = S
<1> DEFINE Before(x) == {y \in S : y < x}
           After(x) == {y \in S : y > x}
<1>1. IsFiniteSet(1 .. n)
  BY FS_Interval
<1>2. ASSUME NEW U \in SUBSET (1 .. n)
      PROVE  IsFiniteSet(U) /\ Cardinality(U) \in Nat
  <2>1. IsFiniteSet(U)
    BY <1>1, FS_Subset
  <2> QED
    BY <2>1, FS_CardinalityType
<1>3. /\ T \in SUBSET (1 .. n) /\ T \subseteq S
      /\ \A x \in S : Before(x) \in SUBSET (1 .. n) /\ After(x) \in SUBSET (1 .. n)
  BY DEF Smallest, Largest
<1>4. \/ T = {x \in S : Cardinality(Before(x)) < k}
      \/ T = {x \in S : Cardinality(After(x)) < k}
  BY DEF Smallest, Largest
<1>5. Cardinality(T) <= k
  <2>1. CASE T = {}
    BY <2>1, FS_EmptySet
  <2>2. ASSUME T # {}, NEW x \in T, NEW U \in SUBSET (1 .. n),
               T \ {x} \subseteq U, Cardinality(U) < k
        PROVE  Cardinality(T) <= k
    <3>1. IsFiniteSet(T) /\ IsFiniteSet(U) /\ Cardinality(T) \in Nat /\ Cardinality(U) \in Nat
      BY <1>2, <1>3
    <3>2. Cardinality(T \ {x}) = Cardinality(T) - 1
      BY <3>1, FS_RemoveElement
    <3>3. Cardinality(T \ {x}) <= Cardinality(U)
      BY <2>2, <3>1, FS_Subset
    <3> QED
      BY <2>2, <3>1, <3>2, <3>3
  <2>3. CASE T # {}
    <3>1. PICK x \in T : \A s \in T : x <= s
      <4>1. T \in SUBSET Nat
        BY <1>3
      <4> QED
        BY <2>3, <4>1, FirstOfMany
    <3>2. PICK z \in T : \A s \in T : s <= z
      BY <1>3, <2>3, LastOfMany
    <3>3. T \ {x} \subseteq After(x) /\ T \ {z} \subseteq Before(z)
      BY <1>3, <3>1, <3>2
    <3>4. Cardinality(After(x)) < k \/ Cardinality(Before(z)) < k
      BY <1>4
    <3> HIDE DEF Before, After
    <3> QED
      BY <1>3, <2>2, <2>3, <3>3, <3>4
  <2> QED
    BY <2>1, <2>3
<1>6. ASSUME k # 0, S # {}
      PROVE  T # {}
  <2>1. PICK x \in S : \A s \in S : x <= s
    <3>1. S \in SUBSET Nat
      OBVIOUS
    <3> QED
      BY <1>6, <3>1, FirstOfMany
  <2>2. PICK z \in S : \A s \in S : s <= z
    BY <1>6, LastOfMany
  <2>3. \A y \in S : ~ (y < x) /\ ~ (y > z)
    BY <2>1, <2>2
  <2>4. Cardinality(Before(x)) < k /\ Cardinality(After(z)) < k
    <3>1. Before(x) = {} /\ After(z) = {}
      BY <2>3
    <3> HIDE DEF Before, After
    <3> QED
      BY <1>6, <3>1, FS_EmptySet
  <2> HIDE DEF Before, After
  <2> QED
    BY <1>4, <2>4
<1>7. ASSUME Cardinality(S) <= k
      PROVE  T = S
  <2>1. IsFiniteSet(S) /\ Cardinality(S) \in Nat
    BY <1>2
  <2>2. ASSUME NEW x \in S, NEW U \in SUBSET (1 .. n), U \subseteq S, x \notin U
        PROVE  Cardinality(U) < k
    <3>1. /\ Cardinality(U) <= Cardinality(S) /\ Cardinality(U) \in Nat
          /\ Cardinality(S) = Cardinality(U) => S = U
      BY <1>2, <2>1, <2>2, FS_Subset
    <3>2. S # U
      BY <2>2
    <3> QED
      BY <1>7, <2>1, <3>1, <3>2
  <2>3. \A x \in S : Cardinality(Before(x)) < k /\ Cardinality(After(x)) < k
    BY <1>3, <2>2
  <2> HIDE DEF Before, After
  <2> QED
    BY <1>4, <2>3
<1> QED
  BY <1>2, <1>3, <1>5, <1>6, <1>7

\* A sample holds at most the amount asked for, something when something is asked for
\* and there is something to draw, and everything when that is no more than asked for.
LEMMA SampleSize ==
  ASSUME count \in Nat, NEW amount \in Nat, NEW excluded,
         NEW S \in Samples(amount, excluded)
  PROVE  /\ S \subseteq (1 .. count) \ excluded
         /\ IsFiniteSet(S)
         /\ Cardinality(S) \in Nat
         /\ Cardinality(S) <= amount
         /\ amount # 0 /\ (1 .. count) \ excluded # {} => S # {}
         /\ Cardinality((1 .. count) \ excluded) <= amount => S = (1 .. count) \ excluded
<1> DEFINE C == (1 .. count) \ excluded
           k == Least(amount, Cardinality(C))
<1>1. IsFiniteSet(1 .. count)
  BY FS_Interval
<1>2. IsFiniteSet(C)
  BY <1>1, FS_Subset
<1>3. Cardinality(C) \in Nat /\ (C # {} => Cardinality(C) # 0)
  BY <1>2, FS_CardinalityType, FS_EmptySet
<1>4. /\ k \in Nat /\ k <= amount /\ k <= Cardinality(C)
      /\ amount # 0 /\ C # {} => k # 0
      /\ Cardinality(C) <= amount => k = Cardinality(C)
  BY <1>3 DEF Least
<1>5. S \subseteq C
  BY SamplesAvoidExcluded
<1>6. IsFiniteSet(S)
  BY <1>2, <1>5, FS_Subset
<1>7. Cardinality(S) \in Nat
  BY <1>6, FS_CardinalityType
<1>8. CASE S \in kSubset(k, C)
  <2>1. Cardinality(S) = k
    BY <1>8 DEF kSubset
  <2>2. Cardinality(S) <= amount /\ (amount # 0 /\ C # {} => S # {})
    BY <1>4, <2>1, FS_EmptySet
  <2>3. Cardinality(C) <= amount => S = C
    BY <1>2, <1>4, <1>5, <2>1, FS_Subset
  <2> QED
    BY <1>5, <1>6, <1>7, <2>2, <2>3
<1>9. CASE S \in {Smallest(C, k), Largest(C, k)}
  <2>1. C \in SUBSET (1 .. count)
    OBVIOUS
  <2>2. /\ Cardinality(S) <= k
        /\ k # 0 /\ C # {} => S # {}
        /\ Cardinality(C) <= k => S = C
    <3>1. count \in Nat /\ k \in Nat
      BY <1>4
    <3> HIDE DEF C, k
    <3> QED
      BY <1>9, <2>1, <3>1, ExtremeSamples
  <2>3. Cardinality(S) <= amount
    BY <1>4, <1>7, <2>2
  <2>4. Cardinality(C) <= amount => S = C
    BY <1>3, <1>4, <2>2
  <2> QED
    BY <1>4, <1>5, <1>6, <1>7, <2>2, <2>3, <2>4
<1> QED
  BY <1>8, <1>9 DEF Samples

\* The part of it that the delayed sequences rest on.
LEMMA SomethingIsDrawn ==
  ASSUME count \in Nat, NEW amount \in Nat, amount # 0, NEW excluded,
         (1 .. count) \ excluded # {}, NEW S \in Samples(amount, excluded)
  PROVE  S # {}
  BY SampleSize

-----------------------------------------------------------------------------
(* validate_manifest accepts what build_scenario makes *)

\* Every percentage the planner takes of a count lies between 1 and the count.
LEMMA PercentagesFit ==
  ASSUME NEW n \in Nat \ {0}
  PROVE  /\ Greatest(1, n \div 5) \in Nat \ {0}
         /\ Least(n, Greatest(4, n \div 3)) \in Nat \ {0}
         /\ Greatest(1, n \div 2) \in 1 .. n
         /\ \A percent \in {1, 2, 5, 10, 40, 70} :
              /\ Round(n, percent) \in Nat
              /\ Greatest(1, Round(n, percent)) \in 1 .. n
              /\ Greatest(5, Round(n, percent)) \in Nat
<1>1. ASSUME NEW percent \in {1, 2, 5, 10, 40, 70}
      PROVE  Round(n, percent) \in Nat /\ Round(n, percent) <= n
  BY DEF Round
<1>2. n \div 5 \in Nat /\ n \div 3 \in Nat /\ n \div 2 \in Nat /\ n \div 2 <= n
  OBVIOUS
<1>3. ASSUME NEW m \in Nat, m <= n
      PROVE  Greatest(1, m) \in 1 .. n /\ Greatest(5, m) \in Nat
  BY <1>3 DEF Greatest
<1>4. \A m \in Nat : Greatest(1, m) \in Nat \ {0} /\ Least(n, Greatest(4, m)) \in Nat \ {0}
  BY DEF Least, Greatest
<1> QED
  BY <1>1, <1>2, <1>3, <1>4

\* From seven events on, the invalid sample leaves one more than the reconnect target.
LEMMA InvalidsLeaveOne ==
  ASSUME count \in Nat, count >= 7,
         NEW V \in Samples(Greatest(5, Round(count, 2)), {Target})
  PROVE  (1 .. count) \ (V \cup {Target}) # {}
<1>1. Greatest(5, Round(count, 2)) \in Nat
  BY PercentagesFit
<1>2. IsFiniteSet(V) /\ Cardinality(V) \in Nat /\ Cardinality(V) <= Greatest(5, Round(count, 2))
  BY <1>1, SampleSize
<1>3. Greatest(5, Round(count, 2)) + 1 < count
  BY DEF Greatest, Round
<1>4. /\ IsFiniteSet(V \cup {Target})
      /\ Cardinality(V \cup {Target}) \in Nat
      /\ Cardinality(V \cup {Target}) <= Cardinality(V) + 1
  <2>1. /\ IsFiniteSet(V \cup {Target})
        /\ Cardinality(V \cup {Target})
             = IF Target \in V THEN Cardinality(V) ELSE Cardinality(V) + 1
    BY <1>2, FS_AddElement
  <2> QED
    BY <1>2, <2>1
<1>5. IsFiniteSet(1 .. count) /\ Cardinality(1 .. count) = count
  BY FS_Interval
<1> SUFFICES ASSUME (1 .. count) \ (V \cup {Target}) = {}
             PROVE  FALSE
  OBVIOUS
<1>6. 1 .. count \in SUBSET (V \cup {Target})
  OBVIOUS
<1>7. Cardinality(1 .. count) <= Cardinality(V \cup {Target})
  BY <1>4, <1>6, FS_Subset
<1> HIDE DEF Target
<1>8. count <= Cardinality(V) + 1
  BY <1>2, <1>4, <1>5, <1>7
<1> QED
  BY <1>1, <1>2, <1>3, <1>8

\* Below seven events it leaves none, and nothing can be repeated or held.
LEMMA InvalidsTakeAll ==
  ASSUME count \in Nat \ {0}, count < 7,
         NEW V \in Samples(Greatest(5, Round(count, 2)), {Target})
  PROVE  (1 .. count) \ (V \cup {Target}) = {}
<1>1. Target \in 1 .. count /\ Greatest(5, Round(count, 2)) \in Nat
  BY PercentagesFit DEF Target
<1>2. IsFiniteSet(1 .. count) /\ Cardinality(1 .. count) = count
  BY FS_Interval
<1>3. Cardinality((1 .. count) \ {Target}) = count - 1
  BY <1>1, <1>2, FS_RemoveElement
<1>4. count - 1 <= Greatest(5, Round(count, 2))
  BY DEF Greatest, Round
<1>5. Cardinality((1 .. count) \ {Target}) <= Greatest(5, Round(count, 2))
  BY <1>3, <1>4
<1>6. V = (1 .. count) \ {Target}
  BY <1>1, <1>5, SampleSize
<1> QED
  BY <1>6

\* A plan as Configure leaves it is accepted, except for a short reconnect_burst,
\* which is refused.
BuiltPlanIsJudged == IF scenario = "reconnect_burst" /\ count < 7 THEN ~Accepts(plan)
                                                                  ELSE Accepts(plan)

PlanInv ==
  /\ count \in Nat \ {0}
  /\ scenario \in Scenario
  /\ status = "asked" => plan = NoFaults(count)
  /\ status = "built" => BuiltPlanIsJudged
  /\ status = "valid" => ~(scenario = "reconnect_burst" /\ count < 7)
  /\ status = "refused" => scenario = "reconnect_burst" /\ count < 7

LEMMA BuildIsJudged ==
  ASSUME PlanInv, BuildScenario
  PROVE  status' = "built" /\ count' = count /\ scenario' = scenario /\ BuiltPlanIsJudged'
<1>1. count \in Nat \ {0} /\ status = "asked" /\ plan = NoFaults(count)
  BY DEF PlanInv, BuildScenario
<1>2. /\ IsDeliveryOrder(Identity(count), count)
      /\ IsDeliveryOrder(Reordered(count, TRUE), count)
      /\ IsDeliveryOrder(Reordered(count, FALSE), count)
  BY <1>1, IdentityIsOrder, ReorderedIsOrder
<1>3. 1 .. count # {}
  BY <1>1
<1>4. ASSUME NEW p, Configure(p)
      PROVE  /\ status' = "built" /\ count' = count /\ scenario' = scenario /\ plan' = p
             /\ Accepts(plan)' <=> Accepts(p)
  BY <1>4 DEF Configure, Accepts
<1>5. ASSUME NEW p, Configure(p), Accepts(p), scenario # "reconnect_burst"
      PROVE  status' = "built" /\ count' = count /\ scenario' = scenario /\ BuiltPlanIsJudged'
  BY <1>4, <1>5 DEF BuiltPlanIsJudged
<1>6. CASE BuildHappyPath
  <2>1. Accepts(plan)
    BY <1>1, <1>2 DEF Accepts, NoFaults
  <2> QED
    BY <1>5, <1>6, <2>1 DEF BuildHappyPath
<1>7. CASE BuildDuplicates
  <2>1. PICK D \in Samples(Greatest(1, count \div 5), {}) : Configure([plan EXCEPT !.duplicate = D])
    BY <1>7 DEF BuildDuplicates
  <2>2. D \subseteq 1 .. count
    BY <2>1, SamplesAvoidExcluded
  <2>3. Accepts([plan EXCEPT !.duplicate = D])
    BY <1>1, <1>2, <2>2 DEF Accepts, NoFaults
  <2> QED
    BY <1>5, <1>7, <2>1, <2>3 DEF BuildDuplicates
<1>8. CASE BuildInvalids
  <2>1. PICK V \in Samples(Least(count, Greatest(4, count \div 3)), {}) :
               Configure([plan EXCEPT !.invalid = V])
    BY <1>8 DEF BuildInvalids
  <2>2. V \subseteq 1 .. count
    BY <2>1, SamplesAvoidExcluded
  <2>3. Accepts([plan EXCEPT !.invalid = V])
    BY <1>1, <1>2, <2>2 DEF Accepts, NoFaults
  <2> QED
    BY <1>5, <1>8, <2>1, <2>3 DEF BuildInvalids
<1>9. CASE BuildDelays
  <2> DEFINE P(L) == [plan EXCEPT !.delayed = L, !.delayMs = 25, !.order = Reordered(count, FALSE)]
  <2>1. PICK L \in Samples(Greatest(1, Round(count, 10)), {}) : Configure(P(L))
    BY <1>9 DEF BuildDelays
  <2>2. Greatest(1, Round(count, 10)) \in Nat /\ Greatest(1, Round(count, 10)) # 0
    BY <1>1, PercentagesFit
  <2>3. L \subseteq 1 .. count /\ L # {}
    BY <1>1, <1>3, <2>1, <2>2, SomethingIsDrawn, SamplesAvoidExcluded
  <2>4. P(L) = [NoFaults(count) EXCEPT !.delayed = L, !.delayMs = 25,
                                       !.order = Reordered(count, FALSE)]
    BY <1>1
  <2>5. /\ P(L).invalid = {} /\ P(L).duplicate = {} /\ P(L).delayed = L /\ P(L).delayMs = 25
        /\ P(L).order = Reordered(count, FALSE) /\ P(L).disconnect = None /\ P(L).burst = None
    BY <2>4 DEF NoFaults
  <2>6. Accepts(P(L))
    <3> HIDE DEF P
    <3>1. /\ P(L).invalid \cup P(L).duplicate \cup P(L).delayed \subseteq 1 .. count
          /\ {P(L).disconnect, P(L).burst} \subseteq (1 .. count) \cup {None}
      BY <2>3, <2>5
    <3>2. P(L).delayed # {} <=> P(L).delayMs > 0
      BY <2>3, <2>5
    <3>3. IsDeliveryOrder(P(L).order, count)
      BY <1>2, <2>5, Zenon
    <3> QED
      BY <3>1, <3>2, <3>3, Zenon DEF Accepts
  <2> HIDE DEF P
  <2> QED
    BY <1>5, <1>9, <2>1, <2>6 DEF BuildDelays
<1>10. CASE BuildReconnect
  <2>1. Greatest(1, count \div 2) \in 1 .. count
    BY <1>1, PercentagesFit
  <2>2. Accepts([plan EXCEPT !.disconnect = Greatest(1, count \div 2)])
    BY <1>1, <1>2, <2>1 DEF Accepts, NoFaults
  <2> QED
    BY <1>5, <1>10, <2>2 DEF BuildReconnect
<1>11. CASE BuildBurst
  <2>1. PICK V, D, L :
          /\ V \in Samples(Greatest(5, Round(count, 2)), {Target})
          /\ D \in Samples(Greatest(1, Round(count, 5)), V \cup {Target})
          /\ L \in Samples(Greatest(1, Round(count, 1)), V \cup {Target})
          /\ InjectBurst(V, D, L)
    BY <1>11 DEF BuildBurst
  <2> DEFINE P == [invalid |-> V, duplicate |-> D, delayed |-> L, delayMs |-> 25,
                   order |-> Reordered(count, TRUE), disconnect |-> Target,
                   burst |-> Greatest(1, Round(count, 70))]
  <2>2. Configure(P)
    BY <2>1 DEF InjectBurst
  <2>3. Target \in 1 .. count /\ Greatest(1, Round(count, 70)) \in 1 .. count
    BY <1>1, PercentagesFit DEF Target
  <2>4. V \cup D \cup L \subseteq 1 .. count
    BY <2>1, SamplesAvoidExcluded
  <2>5. Greatest(1, Round(count, 1)) \in Nat /\ Greatest(1, Round(count, 1)) # 0
    BY <1>1, PercentagesFit
  <2>6. L = {} <=> count < 7
    <3>1. CASE count < 7
      <4>1. (1 .. count) \ (V \cup {Target}) = {}
        BY <1>1, <2>1, <3>1, InvalidsTakeAll
      <4> QED
        BY <2>1, <3>1, <4>1, SamplesAvoidExcluded
    <3>2. CASE count >= 7
      <4>1. (1 .. count) \ (V \cup {Target}) # {}
        BY <1>1, <2>1, <3>2, InvalidsLeaveOne
      <4> QED
        BY <1>1, <2>1, <2>5, <3>2, <4>1, SomethingIsDrawn
    <3> QED
      BY <1>1, <3>1, <3>2
  <2>7. Accepts(P) <=> ~(count < 7)
    <3>1. /\ P.invalid = V /\ P.duplicate = D /\ P.delayed = L /\ P.delayMs = 25
          /\ P.order = Reordered(count, TRUE) /\ P.disconnect = Target
          /\ P.burst = Greatest(1, Round(count, 70))
      OBVIOUS
    <3> HIDE DEF P
    <3>2. /\ P.invalid \cup P.duplicate \cup P.delayed \subseteq 1 .. count
          /\ {P.disconnect, P.burst} \subseteq (1 .. count) \cup {None}
      BY <2>3, <2>4, <3>1
    <3>3. P.delayed = {} <=> ~(P.delayMs > 0) \/ count < 7
      BY <2>6, <3>1
    <3>4. P.delayMs > 0
      BY <3>1
    <3>5. IsDeliveryOrder(P.order, count)
      BY <1>2, <3>1, Zenon
    <3> QED
      BY <3>2, <3>3, <3>4, <3>5, Zenon DEF Accepts
  <2>8. scenario = "reconnect_burst"
    BY <1>11 DEF BuildBurst
  <2> HIDE DEF P
  <2> QED
    BY <1>4, <2>2, <2>7, <2>8 DEF BuiltPlanIsJudged
<1> QED
  BY <1>6, <1>7, <1>8, <1>9, <1>10, <1>11 DEF BuildScenario

LEMMA PlanInvariant == Spec => []PlanInv
<1>1. Init => PlanInv
  BY CountAssumption DEF Init, PlanInv
<1>2. PlanInv /\ [Next]_vars => PlanInv'
  <2> SUFFICES ASSUME PlanInv, [Next]_vars
               PROVE  PlanInv'
    OBVIOUS
  <2>1. CASE BuildScenario
    BY <2>1, BuildIsJudged DEF PlanInv
  <2>2. CASE Validate
    <3>1. /\ status = "built" /\ status' = IF Accepts(plan) THEN "valid" ELSE "refused"
          /\ scenario' = scenario /\ count' = count /\ plan' = plan
      BY <2>2 DEF Validate
    <3>2. Accepts(plan)' <=> Accepts(plan)
      BY <3>1 DEF Accepts
    <3> QED
      BY <3>1, <3>2 DEF PlanInv, BuiltPlanIsJudged
  <2>3. CASE UNCHANGED vars
    BY <2>3 DEF vars, PlanInv, BuiltPlanIsJudged, Accepts
  <2> QED
    BY <2>1, <2>2, <2>3 DEF Next
<1> QED
  BY <1>1, <1>2, PTL DEF Spec

\* For every count and seed, validate_manifest accepts what build_scenario returns, but
\* for a reconnect_burst of fewer than seven events: there the invalid sample takes
\* every event except the reconnect target, nothing is left to be held, and the
\* validator refuses a positive delay without a held sequence.
THEOREM BuiltPlansAreValid == Spec => []PlansAreValid
<1>1. PlanInv => PlansAreValid
  BY DEF PlanInv, PlansAreValid
<1> QED
  BY <1>1, PlanInvariant, PTL

-----------------------------------------------------------------------------
(* What the canonical rows show of a reordered delivery *)

\* The order runs backwards from lo + 1 to hi.
Backwards(order, lo, hi) == \A i \in lo + 1 .. hi : order[i] = lo + hi + 1 - i

\* A lower sequence that arrives after a higher one, neither of them invalid.
Inverted(order, V, n) ==
  \E i, j \in 1 .. n : /\ i < j
                       /\ order[i] > order[j]
                       /\ {order[i], order[j]} \cap V = {}

\* Reversing a slice that was in place makes it run backwards and leaves the rest.
LEMMA SliceRunsBackwards ==
  ASSUME NEW n \in Nat, NEW order, DOMAIN order = 1 .. n,
         NEW a \in Nat, NEW b \in Nat, b <= n, \A i \in a + 1 .. b : order[i] = i
  PROVE  /\ Backwards(ReverseSlice(order, a, b), a, b)
         /\ \A i \in 1 .. n : ~(a < i /\ i <= b) => ReverseSlice(order, a, b)[i] = order[i]
         /\ DOMAIN ReverseSlice(order, a, b) = 1 .. n
<1>1. ASSUME NEW i \in a + 1 .. b
      PROVE  ReverseSlice(order, a, b)[i] = a + b + 1 - i
  <2>1. i \in 1 .. n /\ a < i /\ i <= b /\ a + b + 1 - i \in a + 1 .. b
    OBVIOUS
  <2>2. ReverseSlice(order, a, b)[i] = order[a + b + 1 - i]
    BY <2>1 DEF ReverseSlice
  <2> QED
    BY <2>1, <2>2
<1> QED
  BY <1>1 DEF Backwards, ReverseSlice

\* Where a reordered delivery runs backwards.
LEMMA ReorderedRunsBackwards ==
  ASSUME NEW n \in Nat, n >= 3, NEW primary \in BOOLEAN
  PROVE  /\ Backwards(Reordered(n, primary), Start(n, primary),
                      Start(n, primary) + Width(n, primary))
         /\ primary /\ n >= 20 => Backwards(Reordered(n, primary), SecondStart(n), SecondEnd(n))
<1> DEFINE a == Start(n, primary)
           b == a + Width(n, primary)
           first == ReverseSlice(Identity(n), a, b)
<1>1. a \in Nat /\ b \in Nat /\ b <= n
  BY WindowsFit
<1>2. DOMAIN Identity(n) = 1 .. n /\ \A i \in 1 .. n : Identity(n)[i] = i
  BY DEF Identity
<1>3. \A i \in a + 1 .. b : Identity(n)[i] = i
  <2> HIDE DEF a, b
  <2> QED
    BY <1>1, <1>2
<1>4. /\ Backwards(first, a, b)
      /\ \A i \in 1 .. n : ~(a < i /\ i <= b) => first[i] = i
      /\ DOMAIN first = 1 .. n
  <2>1. /\ Backwards(first, a, b)
        /\ \A i \in 1 .. n : ~(a < i /\ i <= b) => first[i] = Identity(n)[i]
        /\ DOMAIN first = 1 .. n
    <3> HIDE DEF a, b
    <3> QED
      BY <1>1, <1>2, <1>3, SliceRunsBackwards
  <2> HIDE DEF a, b, first
  <2> QED
    BY <1>2, <2>1
<1>5. CASE ~(primary /\ n >= 20)
  <2>1. Reordered(n, primary) = first
    BY <1>5 DEF Reordered
  <2> HIDE DEF a, b, first
  <2>2. Backwards(Reordered(n, primary), a, b)
    BY <1>4, <2>1
  <2> QED
    BY <1>5, <2>2 DEF a, b
<1>6. CASE primary /\ n >= 20
  <2> DEFINE c == SecondStart(n)
             d == SecondEnd(n)
             second == ReverseSlice(first, c, d)
  <2>1. Reordered(n, primary) = second
    <3>1. ~(n < 3)
      OBVIOUS
    <3> QED
      BY <1>6, <3>1, Zenon DEF Reordered
  <2>2. c \in Nat /\ d \in Nat /\ d <= n
    BY WindowsFit
  <2>3. b <= c
    <3>1. primary = TRUE
      BY <1>6
    <3>2. c = Greatest(b, n \div 2)
      BY <3>1, Zenon DEF SecondStart
    <3>3. n \div 2 \in Nat
      OBVIOUS
    <3> HIDE DEF b, c
    <3> QED
      BY <1>1, <3>2, <3>3 DEF Greatest
  <2> HIDE DEF a, b, c, d, first
  <2>4. \A i \in c + 1 .. d : first[i] = i
    <3> SUFFICES ASSUME NEW i \in c + 1 .. d
                 PROVE  first[i] = i
      OBVIOUS
    <3>1. i \in 1 .. n /\ ~(i <= b)
      BY <1>1, <2>2, <2>3
    <3> QED
      BY <1>4, <3>1
  <2>5. /\ Backwards(second, c, d)
        /\ \A i \in 1 .. n : ~(c < i /\ i <= d) => second[i] = first[i]
    BY <1>4, <2>2, <2>4, SliceRunsBackwards
  <2> HIDE DEF second
  <2>6. Backwards(second, a, b)
    <3> SUFFICES ASSUME NEW i \in a + 1 .. b
                 PROVE  second[i] = a + b + 1 - i
      BY DEF Backwards
    <3>1. i \in 1 .. n /\ ~(c < i)
      BY <1>1, <2>2, <2>3
    <3>2. second[i] = first[i]
      BY <2>5, <3>1
    <3> QED
      BY <1>4, <3>2 DEF Backwards
  <2>7. Backwards(Reordered(n, primary), a, b) /\ Backwards(Reordered(n, primary), c, d)
    BY <2>1, <2>5, <2>6
  <2> QED
    BY <2>7 DEF a, b, c, d
<1> QED
  BY <1>5, <1>6

\* Two sequences of a window that runs backwards are seen inverted when the invalid
\* ones leave at least two of the window.
LEMMA TwoLeftAreInverted ==
  ASSUME NEW n \in Nat, NEW order, NEW V, IsFiniteSet(V),
         NEW lo \in Nat, NEW hi \in Nat, hi <= n, Backwards(order, lo, hi),
         Cardinality(V \cap (lo + 1 .. hi)) + 2 <= hi - lo
  PROVE  Inverted(order, V, n)
<1> DEFINE W == lo + 1 .. hi
           Left == W \ V
<1>1. IsFiniteSet(W) /\ IsFiniteSet(V \cap W)
  <2>1. IsFiniteSet(W)
    BY FS_Interval
  <2> HIDE DEF W
  <2> QED
    BY <2>1, FS_Intersection
<1>2. Cardinality(V \cap W) \in Nat
  BY <1>1, FS_CardinalityType
<1>3. Cardinality(W) = hi - lo
  <2>1. Cardinality(W) = IF lo + 1 > hi THEN 0 ELSE hi - (lo + 1) + 1
    BY FS_Interval
  <2> HIDE DEF W
  <2>2. hi - lo >= 2
    BY <1>2 DEF W
  <2> QED
    BY <2>1, <2>2
<1>4. IsFiniteSet(Left) /\ Cardinality(Left) = Cardinality(W) - Cardinality(W \cap V)
  <2> HIDE DEF W
  <2> QED
    BY <1>1, FS_Difference
<1>5. W \cap V = V \cap W
  OBVIOUS
<1>6. Cardinality(Left) \in Nat /\ Cardinality(Left) >= 2
  <2>1. Cardinality(Left) \in Nat
    BY <1>4, FS_CardinalityType
  <2>2. Cardinality(Left) = hi - lo - Cardinality(V \cap W)
    BY <1>3, <1>4, <1>5
  <2>3. Cardinality(V \cap W) + 2 <= hi - lo
    OBVIOUS
  <2> HIDE DEF W, Left
  <2> QED
    BY <1>2, <2>1, <2>2, <2>3
<1>7. PICK x \in Left, y \in Left : x # y
  <2> HIDE DEF Left
  <2>1. PICK x \in Left : TRUE
    <3>1. Left # {}
      BY <1>6, FS_EmptySet
    <3> QED
      BY <3>1
  <2>2. Cardinality(Left \ {x}) = Cardinality(Left) - 1 /\ IsFiniteSet(Left \ {x})
    BY <1>4, <2>1, FS_RemoveElement
  <2>3. Left \ {x} # {}
    BY <1>6, <2>2, FS_EmptySet
  <2> QED
    BY <2>1, <2>3
<1>8. ASSUME NEW u \in Left, NEW v \in Left, u < v
      PROVE  Inverted(order, V, n)
  <2>1. u \in W /\ v \in W /\ u \notin V /\ v \notin V
    OBVIOUS
  <2>2. /\ lo + hi + 1 - v \in W /\ lo + hi + 1 - u \in W
        /\ lo + hi + 1 - v \in 1 .. n /\ lo + hi + 1 - u \in 1 .. n
        /\ lo + hi + 1 - v < lo + hi + 1 - u
    BY <1>8, <2>1
  <2>3. order[lo + hi + 1 - v] = v /\ order[lo + hi + 1 - u] = u
    <3>1. /\ order[lo + hi + 1 - v] = lo + hi + 1 - (lo + hi + 1 - v)
          /\ order[lo + hi + 1 - u] = lo + hi + 1 - (lo + hi + 1 - u)
      BY <2>2 DEF Backwards
    <3>2. lo + hi + 1 - (lo + hi + 1 - v) = v /\ lo + hi + 1 - (lo + hi + 1 - u) = u
      BY <2>1
    <3> QED
      BY <3>1, <3>2
  <2> HIDE DEF W, Left
  <2> QED
    BY <1>8, <2>1, <2>2, <2>3 DEF Inverted
<1>9. x \in Int /\ y \in Int
  OBVIOUS
<1>10. x < y \/ y < x
  BY <1>7, <1>9
<1> QED
  BY <1>8, <1>10

\* What two disjoint windows hold of a set is no more than the set.
LEMMA DisjointParts ==
  ASSUME NEW V, IsFiniteSet(V), NEW A, NEW B, A \cap B = {}
  PROVE  /\ Cardinality(V \cap A) \in Nat /\ Cardinality(V \cap B) \in Nat
         /\ Cardinality(V \cap A) + Cardinality(V \cap B) <= Cardinality(V)
<1>1. IsFiniteSet(V \cap A) /\ IsFiniteSet(V \cap B)
  BY FS_Intersection
<1>2. Cardinality(V \cap A) \in Nat /\ Cardinality(V \cap B) \in Nat /\ Cardinality(V) \in Nat
  BY <1>1, FS_CardinalityType
<1>3. (V \cap A) \cap (V \cap B) = {}
  OBVIOUS
<1>4. Cardinality((V \cap A) \cup (V \cap B))
        = Cardinality(V \cap A) + Cardinality(V \cap B) - Cardinality((V \cap A) \cap (V \cap B))
  BY <1>1, FS_Union
<1>5. Cardinality((V \cap A) \cap (V \cap B)) = 0
  BY <1>3, FS_EmptySet
<1>6. (V \cap A) \cup (V \cap B) \in SUBSET V
  OBVIOUS
<1>7. Cardinality((V \cap A) \cup (V \cap B)) <= Cardinality(V)
  BY <1>6, FS_Subset
<1> QED
  BY <1>2, <1>4, <1>5, <1>7

\* From two events on, a delivery with its second window off shows its inversion when
\* nothing is invalid.
LEMMA DelaysAreSeen ==
  ASSUME NEW n \in Nat, n > 1
  PROVE  Inverted(Reordered(n, FALSE), {}, n)
<1>1. IsFiniteSet({}) /\ Cardinality({}) = 0
  BY FS_EmptySet
<1>2. \A W : Cardinality({} \cap W) = 0
  <2>1. \A W : {} \cap W = {}
    OBVIOUS
  <2> QED
    BY <1>1, <2>1
<1>3. CASE n < 3
  <2>1. n = 2
    BY <1>3
  <2>2. /\ DOMAIN Identity(n) = 1 .. n
        /\ \A i \in 0 + 1 .. n : Identity(n)[i] = i
    BY DEF Identity
  <2>3. Backwards(ReverseSlice(Identity(n), 0, n), 0, n)
    BY <2>2, SliceRunsBackwards
  <2>4. Backwards(Reordered(n, FALSE), 0, n)
    BY <1>3, <2>3 DEF Reordered
  <2> DEFINE lo == 0
             hi == n
  <2>5. Backwards(Reordered(n, FALSE), lo, hi)
    BY <2>4
  <2>6. lo \in Nat /\ hi \in Nat /\ hi <= n /\ hi - lo = 2
    BY <2>1
  <2> HIDE DEF lo, hi
  <2>7. Cardinality({} \cap (lo + 1 .. hi)) + 2 <= hi - lo
    BY <1>2, <2>6
  <2> QED
    BY <1>1, <2>5, <2>6, <2>7, TwoLeftAreInverted
<1>4. CASE n >= 3
  <2> DEFINE lo == Start(n, FALSE)
             hi == Start(n, FALSE) + Width(n, FALSE)
  <2>1. lo \in Nat /\ hi \in Nat /\ hi <= n
    BY WindowsFit
  <2>2. hi - lo >= 2
    <3> DEFINE w == Width(n, FALSE)
    <3>1. w \in Nat /\ w >= 3
      BY <1>4 DEF Width, Least
    <3>2. hi = lo + w
      OBVIOUS
    <3> HIDE DEF lo, hi, w
    <3> QED
      BY <2>1, <3>1, <3>2
  <2>3. Backwards(Reordered(n, FALSE), lo, hi)
    BY <1>4, ReorderedRunsBackwards
  <2> HIDE DEF lo, hi
  <2>4. Cardinality({} \cap (lo + 1 .. hi)) + 2 <= hi - lo
    BY <1>2, <2>1, <2>2
  <2> QED
    BY <1>1, <2>1, <2>3, <2>4, TwoLeftAreInverted
<1>5. n < 3 \/ n >= 3
  OBVIOUS
<1> QED
  BY <1>3, <1>4, <1>5, Zenon

\* Below 575 events two percent of them, or five, cannot hide both windows.
LEMMA BurstIsSeen ==
  ASSUME NEW n \in Nat, n >= 7, n < 575, NEW V, IsFiniteSet(V), Cardinality(V) \in Nat,
         Cardinality(V) <= Greatest(5, Round(n, 2))
  PROVE  Inverted(Reordered(n, TRUE), V, n)
<1> DEFINE lo == Start(n, TRUE)
           hi == Start(n, TRUE) + Width(n, TRUE)
           W  == lo + 1 .. hi
<1>1. lo \in Nat /\ hi \in Nat /\ hi <= n /\ Backwards(Reordered(n, TRUE), lo, hi)
  <2>1. n >= 3
    OBVIOUS
  <2> QED
    BY <2>1, WindowsFit, ReorderedRunsBackwards, Zenon
<1>2. CASE Cardinality(V) <= 5
  <2>1. hi - lo >= 7
    <3> DEFINE w == Width(n, TRUE)
    <3>1. w \in Nat /\ w >= 7
      BY DEF Width, Least
    <3>2. hi = lo + w
      OBVIOUS
    <3> HIDE DEF lo, hi, w
    <3> QED
      BY <1>1, <3>1, <3>2
  <2>2. Cardinality(V \cap W) \in Nat /\ Cardinality(V \cap W) <= Cardinality(V)
    <3>1. IsFiniteSet(V \cap W) /\ Cardinality(V \cap W) <= Cardinality(V)
      BY FS_Intersection
    <3> QED
      BY <3>1, FS_CardinalityType
  <2> HIDE DEF lo, hi
  <2>3. Cardinality(V \cap W) + 2 <= hi - lo
    <3> HIDE DEF W
    <3> QED
      BY <1>1, <1>2, <2>1, <2>2
  <2> QED
    BY <1>1, <2>3, TwoLeftAreInverted
<1>3. CASE ~(Cardinality(V) <= 5)
  <2> DEFINE c == SecondStart(n)
             d == SecondEnd(n)
             X == c + 1 .. d
  <2>1. n >= 275 /\ Cardinality(V) <= 11
    BY <1>3 DEF Greatest, Round
  <2>2. c \in Nat /\ d \in Nat /\ d <= n /\ Backwards(Reordered(n, TRUE), c, d)
    <3>1. n >= 3 /\ n >= 20
      BY <2>1
    <3> QED
      BY <3>1, WindowsFit, ReorderedRunsBackwards, Zenon
  <2> DEFINE w == Width(n, TRUE)
             q == n \div 4
             h == n \div 2
  <2>3. w = 8
    BY <2>1 DEF Width, Least
  <2>4. /\ q \in Nat /\ h \in Nat /\ q + 8 <= h /\ q <= n - 8 /\ h + 6 <= n
        /\ n \div 5 >= 6
    BY <2>1
  <2>5. /\ lo = Greatest(0, Least(n - w, q)) /\ hi = lo + w
        /\ c = Greatest(hi, h) /\ d = Least(n, c + Least(6, n \div 5))
    BY Zenon DEF Start, SecondStart, SecondEnd
  <2> HIDE DEF lo, hi, c, d, w, q, h
  <2>6. lo = q /\ hi = q + 8
    BY <2>3, <2>4, <2>5 DEF Least, Greatest
  <2>7. hi - lo = 8 /\ d - c = 6 /\ hi <= c
    <3>1. c = h
      BY <2>4, <2>5, <2>6 DEF Greatest
    <3>2. d = h + 6
      BY <2>4, <2>5, <3>1 DEF Least
    <3> QED
      BY <2>4, <2>6, <3>1, <3>2
  <2>8. W \cap X = {}
    BY <1>1, <2>2, <2>7
  <2>9. /\ Cardinality(V \cap W) \in Nat /\ Cardinality(V \cap X) \in Nat
        /\ Cardinality(V \cap W) + Cardinality(V \cap X) <= Cardinality(V)
    <3> HIDE DEF W, X
    <3> QED
      BY <2>8, DisjointParts
  <2>10. \/ Cardinality(V \cap W) + 2 <= hi - lo
         \/ Cardinality(V \cap X) + 2 <= d - c
    <3> HIDE DEF W, X
    <3> QED
      BY <2>1, <2>7, <2>9
  <2> QED
    BY <1>1, <2>2, <2>10, TwoLeftAreInverted
<1> QED
  BY <1>2, <1>3

\* What build_scenario decides about order and invalid payloads in the two reordering
\* scenarios, kept to the end.
ReorderingInv ==
  /\ PlanInv
  /\ status # "asked" /\ scenario = "delayed_out_of_order" =>
       plan.order = Reordered(count, FALSE) /\ plan.invalid = {}
  /\ status # "asked" /\ scenario = "reconnect_burst" =>
       /\ plan.order = Reordered(count, TRUE)
       /\ IsFiniteSet(plan.invalid) /\ Cardinality(plan.invalid) \in Nat
       /\ Cardinality(plan.invalid) <= Greatest(5, Round(count, 2))

\* For every seed, and for every count of a delayed_out_of_order from two on and of a
\* reconnect_burst below 575, some pair of events that will be canonical arrives
\* inverted (build_scenario, _reordered_sequences).
THEOREM ReorderingIsSeen == Spec => []ReorderingIsObservable
<1>1. Init /\ PlanInv => ReorderingInv
  BY DEF Init, ReorderingInv
<1>2. ReorderingInv /\ PlanInv' /\ [Next]_vars => ReorderingInv'
  <2> SUFFICES ASSUME ReorderingInv, PlanInv', [Next]_vars
               PROVE  ReorderingInv'
    OBVIOUS
  <2>1. CASE BuildScenario /\ scenario \notin {"delayed_out_of_order", "reconnect_burst"}
    <3>1. scenario' = scenario
      BY <2>1, BuildIsJudged DEF ReorderingInv
    <3> QED
      BY <2>1, <3>1 DEF ReorderingInv
  <2>2. CASE BuildScenario /\ scenario = "delayed_out_of_order"
    <3>1. plan = NoFaults(count) /\ scenario' = scenario /\ count' = count
      BY <2>2, BuildIsJudged DEF ReorderingInv, PlanInv, BuildScenario
    <3>2. BuildDelays
      BY <2>2 DEF BuildScenario, BuildHappyPath, BuildDuplicates, BuildInvalids, BuildReconnect,
                  BuildBurst
    <3>3. PICK L : plan' = [plan EXCEPT !.delayed = L, !.delayMs = 25,
                                        !.order = Reordered(count, FALSE)]
      BY <3>2, Zenon DEF BuildDelays, Configure
    <3>4. plan'.order = Reordered(count, FALSE) /\ plan'.invalid = {}
      BY <3>1, <3>3 DEF NoFaults
    <3> QED
      BY <2>2, <3>1, <3>4 DEF ReorderingInv
  <2>3. CASE BuildScenario /\ scenario = "reconnect_burst"
    <3>1. count \in Nat \ {0} /\ scenario' = scenario /\ count' = count
      BY <2>3, BuildIsJudged DEF ReorderingInv, PlanInv
    <3>2. BuildBurst
      BY <2>3 DEF BuildScenario, BuildHappyPath, BuildDuplicates, BuildInvalids, BuildReconnect,
                  BuildDelays
    <3>3. PICK V \in Samples(Greatest(5, Round(count, 2)), {Target}) :
                 \E D, L : InjectBurst(V, D, L)
      BY <3>2 DEF BuildBurst
    <3>4. plan'.order = Reordered(count, TRUE) /\ plan'.invalid = V
      BY <3>3 DEF InjectBurst, Configure
    <3>5. Greatest(5, Round(count, 2)) \in Nat
      BY <3>1, PercentagesFit
    <3>6. IsFiniteSet(V) /\ Cardinality(V) \in Nat /\ Cardinality(V) <= Greatest(5, Round(count, 2))
      BY <3>1, <3>3, <3>5, SampleSize
    <3> QED
      BY <2>3, <3>1, <3>4, <3>6 DEF ReorderingInv
  <2>4. CASE Validate
    <3>1. UNCHANGED <<scenario, count, plan>> /\ status # "asked"
      BY <2>4 DEF Validate
    <3> QED
      BY <3>1 DEF ReorderingInv
  <2>5. CASE UNCHANGED vars
    BY <2>5 DEF vars, ReorderingInv
  <2> QED
    BY <2>1, <2>2, <2>3, <2>4, <2>5 DEF Next
<1>3. ReorderingInv => ReorderingIsObservable
  <2> SUFFICES ASSUME ReorderingInv, status = "valid",
                      \/ scenario = "reconnect_burst" /\ count < HidingCount
                      \/ scenario = "delayed_out_of_order" /\ count > 1
               PROVE  Inverted(plan.order, plan.invalid, count)
    BY DEF ReorderingIsObservable, Inverted
  <2>1. count \in Nat \ {0}
    BY DEF ReorderingInv, PlanInv
  <2>2. CASE scenario = "delayed_out_of_order" /\ count > 1
    <3>1. plan.order = Reordered(count, FALSE) /\ plan.invalid = {}
      BY <2>2 DEF ReorderingInv
    <3> QED
      BY <2>1, <2>2, <3>1, DelaysAreSeen
  <2>3. CASE scenario = "reconnect_burst" /\ count < HidingCount
    <3>1. /\ plan.order = Reordered(count, TRUE)
          /\ IsFiniteSet(plan.invalid) /\ Cardinality(plan.invalid) \in Nat
          /\ Cardinality(plan.invalid) <= Greatest(5, Round(count, 2))
      BY <2>3 DEF ReorderingInv
    <3>2. count >= 7
      BY <2>1, <2>3 DEF ReorderingInv, PlanInv
    <3> QED
      BY <2>1, <2>3, <3>1, <3>2, BurstIsSeen DEF HidingCount
  <2> QED
    BY <2>2, <2>3
<1> QED
  BY <1>1, <1>2, <1>3, PlanInvariant, PTL DEF Spec

=============================================================================
