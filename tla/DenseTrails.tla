------------------------------ MODULE DenseTrails ------------------------------
(***************************************************************************)
(* What src/src/sim/pheromones.cpp promises: a trail on every cell, marked *)
(* by loaded foragers, spreading to the neighbours and fading, the whole   *)
(* field computed afresh at every update.                                  *)
(***************************************************************************)
EXTENDS TrailWeights

VARIABLES front, open  \* front_, and the cells ants can enter

\* What c sees of its i-th neighbour; ground it cannot see into looks like itself.
Seen(f, ground, c, i) ==
  IF Side(c, i) \in Cells /\ Side(c, i) \in ground THEN f[Side(c, i)] ELSE f[c]

Mixed(f, ground, c) ==
  f[c] * (Scale - 4 * NeighborWeight)
  + NeighborWeight * (Seen(f, ground, c, 1) + Seen(f, ground, c, 2)
                      + Seen(f, ground, c, 3) + Seen(f, ground, c, 4))

Faded(f, ground, c) ==
  LET kept == ((Mixed(f, ground, c) \div Scale) * Retention) \div Scale
  IN  IF kept <= Floor THEN 0 ELSE IF kept > Top THEN Top ELSE kept

Marked(f, c, a) == [f EXCEPT ![c] = IF @ + a > Top THEN Top ELSE @ + a]

Init == front = [c \in Cells |-> 0] /\ open \in SUBSET Cells

Deposit(c, a) == front' = Marked(front, c, a) /\ open' \in SUBSET Cells
Update == front' = [c \in Cells |-> Faded(front, open, c)] /\ open' = open
\* Ground is dug and tipped.
Ground == front' = front /\ open' \in SUBSET Cells

Next == (\E c \in Cells, a \in Amounts : Deposit(c, a)) \/ Update \/ Ground

Spec == Init /\ [][Next]_<<front, open>>
===============================================================================
