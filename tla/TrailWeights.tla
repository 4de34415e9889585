----------------------------- MODULE TrailWeights -----------------------------
(***************************************************************************)
(* The ground trails lie on and the weights of src/src/sim/pheromones.cpp, *)
(* shared by the field as it is computed (TrailField) and as it is meant   *)
(* (DenseTrails).                                                          *)
(***************************************************************************)
EXTENDS Integers

CONSTANTS
  Cells, Side(_, _),   \* Side(c, i): the i-th neighbour of c, outside Cells beyond the border
  Scale, NeighborWeight, Retention,  \* kScale, kNeighborWeight, kRetention
  Top, Floor,          \* the largest trail, and the largest that evaporates at once
  Amounts              \* what a deposit may add

\* Neighbours see each other, weights are parts of the scale, and a deposit leaves something.
ASSUME TrailAssumption ==
  /\ \A c \in Cells, i \in 1 .. 4 :
       Side(c, i) \in Cells => \E j \in 1 .. 4 : Side(Side(c, i), j) = c
  /\ Scale \in Nat \ {0} /\ NeighborWeight \in Nat /\ Retention \in Nat
  /\ Top \in Nat \ {0} /\ Floor \in 0 .. Top - 1
  /\ Amounts \subseteq Nat \ {0}

===============================================================================
