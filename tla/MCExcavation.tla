----------------------------- MODULE MCExcavation -----------------------------
(***************************************************************************)
(* A nest for TLC: a founding nursery at 1 and a site for a granary around *)
(* 3, reached through 2 with its shoulder 8, or round by 7 and 6; 5 lies   *)
(* behind the rock 4.                                                      *)
(***************************************************************************)
EXTENDS Excavation, Tasks

Edges == {<<1, 2>>, <<2, 3>>, <<3, 4>>, <<4, 5>>, <<1, 7>>, <<7, 6>>, <<6, 3>>, <<2, 8>>}
MCNear == [c \in 1 .. 8 |-> {d \in 1 .. 8 : <<c, d>> \in Edges \/ <<d, c>> \in Edges}]
MCBeside == [c \in 1 .. 8 |-> IF c = 2 THEN {8} ELSE {}]
Nursery == [kind |-> "Nursery", centre |-> 1, inner |-> {1}, outer |-> {1, 7}]
Granary == [kind |-> "Granary", centre |-> 3, inner |-> {3, 4, 5}, outer |-> {3, 4, 5, 6}]
MCSites == {Nursery, Granary}
MCFounding == <<Nursery>>

\* What Excavation!Chosen leaves open is what choose_task may draw: digging whenever the plan gives
\* the worker something to feel, and something else always.
ASSUME ChoiceIsOpen ==
  \A felt \in {0, 300, 800}, threshold \in {250, 750}, current \in {"Excavate", "Idle"} :
    LET w == Weights([n \in Needs |-> IF n = "Excavate" THEN felt ELSE 0],
                     [n \in Needs |-> threshold], current, "Forage")
    IN  {ChooseWeightedTask(w, draw) : draw \in 0 .. Total(w) - 1}
          = IF felt = 0 THEN {"Idle"} ELSE {"Excavate", "Idle"}
===============================================================================
