--------------------------------- MODULE Tasks ---------------------------------
(***************************************************************************)
(* How a worker picks its next task: src/src/sim/tasks.cpp, and the        *)
(* weights World::choose_task (src/src/sim/world.cpp) hands it.  A need    *)
(* nobody can do anything about is felt as 0.                              *)
(***************************************************************************)
EXTENDS Integers

CONSTANT Sure  \* the weight of a response nothing holds back, 10'000 in the code

ASSUME SureAssumption == Sure \in Nat /\ 1 <= Sure /\ Sure <= 10000

Needs == {"Forage", "Excavate", "Nurse", "Clean"}
Names == Needs \cup {"Idle"}
Resting == 1000

ResponseWeight(stimulus, threshold) ==
  IF stimulus = 0 THEN 0
  ELSE (stimulus * stimulus * Sure) \div (stimulus * stimulus + threshold * threshold)

Response(felt, thresholds, t) ==
  IF t = "Idle" THEN Resting ELSE ResponseWeight(felt[t], thresholds[t])

\* The task the player favours weighs half as much again, the one at hand a quarter more.
Favoured(n) == (n * 3) \div 2
AtHand(n) == (n * 5) \div 4
Weighed(n, t, current, favoured) ==
  LET focused == IF t = favoured THEN Favoured(n) ELSE n
  IN  IF t = current THEN AtHand(focused) ELSE focused

Weights(felt, thresholds, current, favoured) ==
  [t \in Names |-> Weighed(Response(felt, thresholds, t), t, current, favoured)]

-----------------------------------------------------------------------------
(* choose_weighted_task: each task takes as many draws as it weighs, in    *)
(* the order of the enumeration.                                           *)

Total(w) == w["Forage"] + w["Excavate"] + w["Nurse"] + w["Clean"] + w["Idle"]

Before(w, t) ==
  CASE t = "Forage"   -> 0
    [] t = "Excavate" -> w["Forage"]
    [] t = "Nurse"    -> w["Forage"] + w["Excavate"]
    [] t = "Clean"    -> w["Forage"] + w["Excavate"] + w["Nurse"]
    [] t = "Idle"     -> w["Forage"] + w["Excavate"] + w["Nurse"] + w["Clean"]

\* The first task whose weight, added to those before it, passes the draw.
Takes(w, t, draw) == Before(w, t) <= draw /\ draw < Before(w, t) + w[t]
ChooseWeightedTask(w, draw) ==
  IF Total(w) = 0 THEN "Idle" ELSE CHOOSE t \in Names : Takes(w, t, draw)

===============================================================================
