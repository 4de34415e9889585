--------------------------------- MODULE MCApp ---------------------------------
(* Instances of App for TLC. *)
EXTENDS App

Grown(births, winged, mature, queen) ==
  [births |-> births, winged |-> winged, mature |-> mature, queen |-> queen]

\* On the way, ready to fly, and past it.
ThreeColonies ==
  {Grown(0, 0, FALSE, TRUE), Grown(600, 3, TRUE, TRUE), Grown(600, 3, TRUE, FALSE)}

\* A payout step is neither missed nor given early: the two loops return the exact floor of the
\* root for every value of the register, its first and last bit among them (prestige.cpp:28-45).
ASSUME ExactFloor ==
  \A v \in 0..Register - 1 :
    LET root == IntegerSqrt(v) IN root * root <= v /\ v < (root + 1) * (root + 1)
===============================================================================
