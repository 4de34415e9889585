------------------------------ MODULE Navigation ------------------------------
(***************************************************************************)
(* The ground and the routes over it: src/src/sim/grid.cpp (materials,     *)
(* where an ant may walk, the revision that tells routes they are old) and *)
(* src/src/sim/navigation.cpp (the distance field of the home cell and the *)
(* bounded A-star search).  An ant's route bias, a hash of cell and ant in *)
(* the code, is any injective ranking of the cells.                        *)
(***************************************************************************)
EXTENDS Integers, Sequences, FiniteSetsExt

CONSTANTS Width, Height  \* Grid::kWidth, Grid::kHeight

ASSUME GridAssumption == {Width, Height} \subseteq Nat \ {0}

Cells == (0 .. Width - 1) \X (0 .. Height - 1)
Materials == {"Sky", "Soil", "Rock", "Air"}
Offsets == << <<0, -1>>, <<1, 0>>, <<0, 1>>, <<-1, 0>> >>
Step(c, i) == <<c[1] + Offsets[i][1], c[2] + Offsets[i][2]>>
Beside(c) == {Step(c, i) : i \in 1 .. 4} \cap Cells

Distance(c, d) == LET abs(n) == IF n < 0 THEN -n ELSE n
                  IN  abs(c[1] - d[1]) + abs(c[2] - d[2])

-----------------------------------------------------------------------------
(* The grid: [at |-> material of every cell, revision]. *)

Passable(m) == m \in {"Sky", "Air"}

\* Open sky bears an ant only where there is ground to hold on to.
Walkable(g, c) ==
  /\ c \in Cells /\ Passable(g.at[c])
  /\ g.at[c] = "Sky" =>
       \E x, y \in -1 .. 1 :
         LET d == <<c[1] + x, c[2] + y>> IN d \in Cells /\ ~Passable(g.at[d])

\* Fault: only ground that opens makes routes old.
SetWhenOpened(g, c, m) ==
  [at |-> [g.at EXCEPT ![c] = m],
   revision |-> g.revision + IF ~Passable(g.at[c]) /\ Passable(m) THEN 1 ELSE 0]
Set(g, c, m) ==
  [at |-> [g.at EXCEPT ![c] = m],
   revision |-> g.revision + IF Passable(g.at[c]) # Passable(m) THEN 1 ELSE 0]

-----------------------------------------------------------------------------
(* HomeField. *)

\* The cells a wave reaches that has reached near.
Wave(g, near) == near \cup {c \in Cells : Walkable(g, c) /\ Beside(c) \cap near # {}}

\* The steps to the home cell from everywhere, -1 where no way leads there.
Field(g, home) ==
  LET last == Cardinality(Cells)
      within[n \in 0 .. last] == IF n = 0 THEN {home} ELSE Wave(g, within[n - 1])
      steps(c) == IF c \in within[last] THEN Min({n \in 0 .. last : c \in within[n]}) ELSE -1
  IN  [revision |-> g.revision, home |-> home, steps |-> [c \in Cells |-> steps(c)]]

\* Of the neighbours a step nearer to home, the one the ant likes best.
Lower(f, c) == {d \in Beside(c) : f.steps[d] = f.steps[c] - 1}
Best(f, c, rank) == CHOOSE d \in Lower(f, c) : \A o \in Lower(f, c) : rank[d] <= rank[o]

\* The way down the field, nothing when the field is older than the grid.
PathHome(f, g, start, rank) ==
  LET down[n \in 0 .. f.steps[start]] == IF n = 0 THEN start ELSE Best(f, down[n - 1], rank)
  IN  IF f.revision # g.revision \/ f.steps[start] < 0 THEN <<>>
      ELSE [n \in 1 .. f.steps[start] |-> down[n]]

-----------------------------------------------------------------------------
(* Pathfinder::find. *)

Node(c, cost, goal) == [f |-> cost + Distance(c, goal), g |-> cost, cell |-> c]

\* The order of the heap: by estimate, then by cost, then by the ant's own ranking.
Sooner(a, b, rank) ==
  \/ a.f < b.f
  \/ a.f = b.f /\ a.g < b.g
  \/ a.f = b.f /\ a.g = b.g /\ rank[a.cell] <= rank[b.cell]

\* A neighbour not met before, or met over a longer way.
Improves(s, c, cost) == s.cost[c] = -1 \/ cost < s.cost[c]

\* The ways on from a node.
Expand(s, g, node, goal) ==
  LET cost == node.g + 1
      next == {c \in Beside(node.cell) : Walkable(g, c) /\ Improves(s, c, cost)}
  IN  [s EXCEPT !.open = @ \cup {Node(c, cost, goal) : c \in next},
                !.cost = [c \in Cells |-> IF c \in next THEN cost ELSE @[c]],
                !.from = [c \in Cells |-> IF c \in next THEN node.cell ELSE @[c]],
                !.expanded = @ + 1]

\* One round of the search: a node is taken and, unless a cheaper way to its cell is known
\* by now, it is the goal, is past the budget, or is expanded.
Round(s, g, goal, budget, rank) ==
  IF s.status # "Searching" THEN s
  ELSE IF s.open = {} THEN [s EXCEPT !.status = "Unreachable"]
  ELSE LET node == CHOOSE n \in s.open : \A o \in s.open : Sooner(n, o, rank)
           left == s.open \ {node}
       IN  IF node.g # s.cost[node.cell] THEN [s EXCEPT !.open = left]
           ELSE IF node.cell = goal THEN [s EXCEPT !.status = "Complete"]
           ELSE IF s.expanded >= budget THEN [s EXCEPT !.status = "BudgetExhausted"]
           ELSE Expand([s EXCEPT !.open = left], g, node, goal)

\* What the search has found out when it ends.
Searched(g, start, goal, budget, rank) ==
  LET begin == [status |-> "Searching", open |-> {Node(start, 0, goal)}, expanded |-> 0,
                cost |-> [c \in Cells |-> IF c = start THEN 0 ELSE -1],
                from |-> [c \in Cells |-> c]]
      last == 4 * Cardinality(Cells) + 1
      after[n \in 0 .. last] ==
        IF n = 0 THEN begin ELSE Round(after[n - 1], g, goal, budget, rank)
  IN  after[last]

\* The way to the goal, put together from its end.
Route(s, start, goal) ==
  LET back[n \in 0 .. s.cost[goal]] == IF n = 0 THEN goal ELSE s.from[back[n - 1]]
      length == Min({n \in 0 .. s.cost[goal] : back[n] = start})
  IN  [i \in 1 .. length |-> back[length - i]]

Find(g, start, goal, budget, rank) ==
  IF ~Walkable(g, start) \/ ~Walkable(g, goal)
  THEN [status |-> "Unreachable", cells |-> <<>>]
  ELSE LET s == Searched(g, start, goal, budget, rank)
       IN  [status |-> s.status,
            cells |-> IF s.status = "Complete" THEN Route(s, start, goal) ELSE <<>>]

===============================================================================
