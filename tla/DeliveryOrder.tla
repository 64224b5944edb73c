---------------------------- MODULE DeliveryOrder ----------------------------
(***************************************************************************)
(* The order in which the simulator sends a run's sequences:               *)
(* _reordered_sequences of simulator.py as functions over 1 .. n.          *)
(***************************************************************************)
EXTENDS Integers

Least(a, b)    == IF a < b THEN a ELSE b
Greatest(a, b) == IF a > b THEN a ELSE b

\* list(range(1, n + 1))
Identity(n) == [i \in 1 .. n |-> i]

\* Mutant: the slice ends one short.
ReverseShortSlice(order, a, b) ==
  [i \in DOMAIN order |-> IF a < i /\ i < b THEN order[a + b + 1 - i] ELSE order[i]]

\* order[a:b] = reversed(order[a:b])
ReverseSlice(order, a, b) ==
  [i \in DOMAIN order |-> IF a < i /\ i <= b THEN order[a + b + 1 - i] ELSE order[i]]

\* The first window: eight sequences (five unless primary) from the first quarter on.
Width(n, primary) == Least(IF primary THEN 8 ELSE 5, n)
Start(n, primary) == Greatest(0, Least(n - Width(n, primary), n \div 4))

\* The second window, not before the first has ended.
SecondStart(n) == Greatest(Start(n, TRUE) + Width(n, TRUE), n \div 2)
SecondEnd(n)   == Least(n, SecondStart(n) + Least(6, n \div 5))

\* Mutant: a window of two sequences.
NarrowWindow(n, primary) ==
  ReverseSlice(Identity(n), Start(n, primary), Least(n, Start(n, primary) + 2))

\* _reordered_sequences
Reordered(n, primary) ==
  IF n < 3 THEN ReverseSlice(Identity(n), 0, n)
  ELSE LET a     == Start(n, primary)
           first == ReverseSlice(Identity(n), a, a + Width(n, primary))
       IN IF primary /\ n >= 20 THEN ReverseSlice(first, SecondStart(n), SecondEnd(n))
          ELSE first

\* Every sequence of 1 .. n is sent exactly once.
IsDeliveryOrder(order, n) ==
  /\ order \in [1 .. n -> 1 .. n]
  /\ \A i, j \in 1 .. n : order[i] = order[j] => i = j
  /\ \A k \in 1 .. n : \E i \in 1 .. n : order[i] = k

=============================================================================
