------------------------------ MODULE MCSavedRun ------------------------------
(* Rooms 1 and 2, the hall 3, turf 4 to 6 with a site at 4 and at 5, the dump at 6. *)
EXTENDS SavedRun

MCCells == 1 .. 6
MCSide(c, i) == CASE i = 2 -> c + 1 [] i = 4 -> c - 1 [] OTHER -> 0
MCSites == << [id |-> 1, at |-> 4, amount |-> 1, reserved |-> 0, known |-> TRUE],
              [id |-> 2, at |-> 5, amount |-> 2, reserved |-> 0, known |-> TRUE] >>
MCCosts == [u \in Upgrades |-> [l \in 0 .. MaxLevel - 1 |-> u + l]]

===============================================================================
