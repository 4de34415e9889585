------------------------------ MODULE TrailField ------------------------------
(***************************************************************************)
(* src/src/sim/pheromones.cpp: the trail field, which only computes the    *)
(* cells that carry a trail and their neighbours.  front_ and back_ are    *)
(* swapped at an update; active_ (and marked_, its index) lists the cells  *)
(* that carry a trail.                                                     *)
(***************************************************************************)
EXTENDS TrailWeights

VARIABLES trails, open  \* [front, back, active], and the cells ants can enter

Dense == INSTANCE DenseTrails WITH front <- trails.front

Blank == [c \in Cells |-> 0]
Untrodden == [front |-> Blank, back |-> Blank, active |-> {}]

Deposited(t, c, a) ==
  [t EXCEPT !.front = Dense!Marked(@, c, a), !.active = @ \cup {c}]

\* Fault: only the cells that carry a trail are computed.
CandidatesActive(t) == t.active
Candidates(t) ==
  t.active \cup {c \in Cells : \E d \in t.active, i \in 1 .. 4 : Side(d, i) = c}

\* back_ takes the candidates' new values, the fields are swapped, the old one is wiped where
\* candidates were.
Updated(t, ground) ==
  LET computed == [c \in Cells |-> IF c \in Candidates(t) THEN Dense!Faded(t.front, ground, c)
                                   ELSE t.back[c]]
  IN  [front |-> computed,
       back |-> [c \in Cells |-> IF c \in Candidates(t) THEN 0 ELSE t.front[c]],
       active |-> {c \in Candidates(t) : computed[c] > Floor}]

\* A saved field names no active cells.
RestoredTrails(front) ==
  [front |-> front, back |-> Blank, active |-> {c \in Cells : front[c] > 0}]

InitTrails == trails = Untrodden /\ open \in SUBSET Cells

Deposit(c, a) == trails' = Deposited(trails, c, a) /\ open' \in SUBSET Cells
Update == trails' = Updated(trails, open) /\ open' = open
Restore == trails' = RestoredTrails(trails.front) /\ open' = open
Ground == trails' = trails /\ open' \in SUBSET Cells

NextTrails == (\E c \in Cells, a \in Amounts : Deposit(c, a)) \/ Update \/ Restore \/ Ground

SpecTrails == InitTrails /\ [][NextTrails]_<<trails, open>>

-----------------------------------------------------------------------------
\* The sparse field is the dense one: a cell is skipped only where nothing could change, after
\* any sequence of deposits, updates, restores and changes of ground (pheromones.cpp:45-82).
RefinesDense == Dense!Spec
===============================================================================
