----------------------------- MODULE TrafficProofs -----------------------------
(***************************************************************************)
(* Theorems about how ants get about, for any ground, any ants, any caps   *)
(* and any rankings.                                                       *)
(***************************************************************************)
EXTENDS Traffic, Totals

-----------------------------------------------------------------------------
(* The searches *)

\* Something that is counted has a least count.
LEMMA LeastKey ==
  ASSUME NEW S, S # {}, NEW key \in [S -> Nat]
  PROVE  \E x \in S : \A y \in S : key[x] <= key[y]
<1>1. PICK z \in S : TRUE
  OBVIOUS
<1> DEFINE Bad == {m \in 0 .. key[z] : \E x \in S : key[x] = m}
<1>2. key[z] \in Nat /\ key[z] \in Bad
  BY <1>1
<1>3. \E m \in Bad : \A j \in Bad : ~(j < m)
  <2>1. Bad \in SUBSET (0 .. key[z])
    OBVIOUS
  <2> HIDE DEF Bad
  <2> QED BY <1>2, <2>1, NoneBadUpTo
<1>4. PICK m \in Bad : \A j \in Bad : ~(j < m)
  BY <1>3
<1>5. PICK x \in S : key[x] = m
  BY <1>4
<1>6. ASSUME NEW y \in S PROVE key[x] <= key[y]
  <2>1. key[y] \in Nat /\ key[x] \in Nat /\ m \in 0 .. key[z]
    BY <1>5
  <2>2. key[y] < m => key[y] \in Bad
    BY <1>2, <2>1
  <2> QED BY <1>4, <1>5, <2>1, <2>2
<1> QED BY <1>6

Rankings == [Cells -> Nat]
Nodes == [f : Nat, g : Nat, cell : Cells]

\* The heap has a first node.
LEMMA FirstNode ==
  ASSUME NEW S \in SUBSET Nodes, S # {}, NEW rank \in Rankings
  PROVE  \E n \in S : \A o \in S : Sooner(n, o, rank)
<1> DEFINE byF == [n \in S |-> n.f]
<1>1. PICK a \in S : \A o \in S : byF[a] <= byF[o]
  <2>1. byF \in [S -> Nat]
    BY DEF Nodes
  <2> HIDE DEF byF
  <2> QED BY <2>1, LeastKey
<1> DEFINE T == {o \in S : o.f = a.f}
           byG == [n \in T |-> n.g]
<1>2. PICK b \in T : \A o \in T : byG[b] <= byG[o]
  <2>1. byG \in [T -> Nat] /\ T # {}
    BY DEF Nodes
  <2> HIDE DEF byG, T
  <2> QED BY <2>1, LeastKey
<1> DEFINE U == {o \in T : o.g = b.g}
           byRank == [n \in U |-> rank[n.cell]]
<1>3. PICK c \in U : \A o \in U : byRank[c] <= byRank[o]
  <2>1. byRank \in [U -> Nat] /\ U # {}
    BY DEF Nodes, Rankings
  <2> HIDE DEF byRank, U
  <2> QED BY <2>1, LeastKey
<1>4. ASSUME NEW o \in S PROVE Sooner(c, o, rank)
  <2>1. a \in Nodes /\ b \in Nodes /\ c \in Nodes /\ o \in Nodes
    OBVIOUS
  <2>2. c.f = a.f /\ c.g = b.g /\ a.f <= o.f
    BY <1>1
  <2>3. o.f = a.f => b.g <= o.g
    BY <1>2
  <2>4. o.f = a.f /\ o.g = b.g => rank[c.cell] <= rank[o.cell]
    BY <1>3
  <2> QED BY <2>1, <2>2, <2>3, <2>4 DEF Sooner, Nodes
<1> QED BY <1>4

\* Coordinates are numbers.
LEMMA CellIs == \A c \in Cells : c[1] \in Int /\ c[2] \in Int
BY GridAssumption DEF Cells

\* An estimate is a number of steps.
LEMMA NodeIs ==
  ASSUME NEW c \in Cells, NEW cost \in Nat, NEW goal \in Cells
  PROVE  Node(c, cost, goal) \in Nodes /\ Node(c, cost, goal).g = cost /\ Node(c, cost, goal).cell = c
<1>1. c[1] \in Int /\ c[2] \in Int /\ goal[1] \in Int /\ goal[2] \in Int
  BY CellIs
<1>2. Distance(c, goal) \in Nat
  BY <1>1 DEF Distance
<1> HIDE DEF Distance
<1> QED BY <1>2 DEF Node, Nodes

-----------------------------------------------------------------------------
Grids == [at : [Cells -> Materials], revision : Nat]
Searches ==
  [status : {"Searching", "Complete", "Unreachable", "BudgetExhausted"}, open : SUBSET Nodes,
   cost : [Cells -> Int], from : [Cells -> Cells], expanded : Nat]

\* Every cell that was met was entered over walkable ground from a cell nearer to the start.
Traced(s, g, start, goal) ==
  /\ s.cost[start] = 0
  /\ s.status = "Complete" => s.cost[goal] # -1
  /\ \A c \in Cells :
       s.cost[c] = -1 \/ c = start
       \/ /\ s.cost[c] \in Nat /\ Walkable(g, c) /\ c \in Beside(s.from[c])
          /\ s.cost[s.from[c]] \in Nat /\ s.cost[s.from[c]] < s.cost[c]

\* The searches that can come up on the way.
Sane(g, start, goal) == {s \in Searches : Traced(s, g, start, goal)}

\* A node that costs what is known of its cell can be expanded.
LEMMA ExpandSane ==
  ASSUME NEW g, NEW start \in Cells, NEW goal \in Cells, NEW s \in Sane(g, start, goal),
         NEW node \in Nodes, node.g = s.cost[node.cell], s.status = "Searching"
  PROVE  Expand(s, g, node, goal) \in Sane(g, start, goal)
<1> DEFINE cost == node.g + 1
           next == {c \in Beside(node.cell) : Walkable(g, c) /\ Improves(s, c, cost)}
           t == Expand(s, g, node, goal)
<1>1. /\ s \in Searches /\ Traced(s, g, start, goal)
      /\ node.cell \in Cells /\ node.g \in Nat /\ cost \in Nat /\ cost >= 1
  BY DEF Sane, Nodes
<1>2. next \subseteq Cells
  BY DEF Beside
<1>3. \A c \in Cells : s.cost[c] \in Int
  BY <1>1 DEF Searches
<1>4. node.cell \notin next /\ start \notin next
  BY <1>1, <1>3 DEF Improves, Traced
<1>5. \A c \in next : /\ Walkable(g, c) /\ c \in Beside(node.cell)
                      /\ s.cost[c] = -1 \/ cost < s.cost[c]
  BY DEF Improves
<1>6. /\ t.status = s.status /\ t.open = s.open \cup {Node(c, cost, goal) : c \in next}
      /\ t.cost = [c \in Cells |-> IF c \in next THEN cost ELSE s.cost[c]]
      /\ t.from = [c \in Cells |-> IF c \in next THEN node.cell ELSE s.from[c]]
      /\ t.expanded = s.expanded + 1
      /\ t = [status |-> t.status, open |-> t.open, cost |-> t.cost, from |-> t.from,
              expanded |-> t.expanded]
  <2> HIDE DEF next
  <2>1. t = [s EXCEPT !.open = @ \cup {Node(c, cost, goal) : c \in next},
                      !.cost = [c \in Cells |-> IF c \in next THEN cost ELSE @[c]],
                      !.from = [c \in Cells |-> IF c \in next THEN node.cell ELSE @[c]],
                      !.expanded = @ + 1]
    BY DEF Expand, next
  <2>2. t \in [status : {s.status}, open : {s.open \cup {Node(c, cost, goal) : c \in next}},
               cost : {[c \in Cells |-> IF c \in next THEN cost ELSE s.cost[c]]},
               from : {[c \in Cells |-> IF c \in next THEN node.cell ELSE s.from[c]]},
               expanded : {s.expanded + 1}]
    <3> HIDE DEF t, cost
    <3> QED BY <1>1, <2>1 DEF Searches
  <2> HIDE DEF t, cost
  <2> QED BY <2>2
<1> HIDE DEF next, t, cost
<1>7. t \in Searches
  <2>1. {Node(c, cost, goal) : c \in next} \subseteq Nodes
    BY <1>1, <1>2, NodeIs
  <2>2. s.open \subseteq Nodes /\ s.expanded + 1 \in Nat /\ s.from \in [Cells -> Cells]
    BY <1>1 DEF Searches
  <2>3. t.cost \in [Cells -> Int] /\ t.from \in [Cells -> Cells]
    BY <1>1, <1>3, <1>6, <2>2
  <2>4. t.status = "Searching" /\ t.open \in SUBSET Nodes /\ t.expanded \in Nat
    BY <1>6, <2>1, <2>2
  <2> QED BY <1>6, <2>3, <2>4 DEF Searches
<1>8. t.cost[start] = 0
  BY <1>1, <1>4, <1>6 DEF Traced
<1>9. ASSUME NEW c \in Cells, t.cost[c] # -1, c # start
      PROVE  /\ t.cost[c] \in Nat /\ Walkable(g, c) /\ c \in Beside(t.from[c])
             /\ t.cost[t.from[c]] \in Nat /\ t.cost[t.from[c]] < t.cost[c]
  <2>1. CASE c \in next
    <3>1. t.cost[c] = cost /\ t.from[c] = node.cell /\ t.cost[node.cell] = node.g
      BY <1>1, <1>4, <1>6, <2>1
    <3> QED BY <1>1, <1>5, <2>1, <3>1 DEF cost
  <2>2. CASE c \notin next
    <3>1. t.cost[c] = s.cost[c] /\ t.from[c] = s.from[c]
      BY <1>6, <2>2
    <3>2. /\ s.cost[c] \in Nat /\ Walkable(g, c) /\ c \in Beside(s.from[c])
          /\ s.cost[s.from[c]] \in Nat /\ s.cost[s.from[c]] < s.cost[c]
      BY <1>1, <1>9, <3>1 DEF Traced
    <3>3. s.from[c] \in Cells
      BY <1>1 DEF Searches
    <3>4. t.cost[s.from[c]] \in Nat /\ t.cost[s.from[c]] <= s.cost[s.from[c]]
      <4>1. CASE s.from[c] \in next
        BY <1>1, <1>5, <1>6, <3>2, <3>3, <4>1
      <4>2. CASE s.from[c] \notin next
        BY <1>6, <3>2, <3>3, <4>2
      <4> QED BY <4>1, <4>2
    <3> QED BY <3>1, <3>2, <3>4
  <2> QED BY <2>1, <2>2
<1>10. t \in Sane(g, start, goal)
  <2>1. t.status # "Complete"
    BY <1>6
  <2> QED BY <1>7, <1>8, <1>9, <2>1 DEF Sane, Traced
<1> QED BY <1>10 DEF t

\* A round keeps a search sane.
LEMMA RoundSane ==
  ASSUME NEW g, NEW start \in Cells, NEW goal \in Cells, NEW budget \in Nat,
         NEW rank \in Rankings, NEW s \in Sane(g, start, goal)
  PROVE  Round(s, g, goal, budget, rank) \in Sane(g, start, goal)
<1> DEFINE t == Round(s, g, goal, budget, rank)
           node == CHOOSE n \in s.open : \A o \in s.open : Sooner(n, o, rank)
           left == s.open \ {node}
           u == [s EXCEPT !.open = left]
<1>1. s \in Searches /\ Traced(s, g, start, goal)
  BY DEF Sane
<1>2. CASE s.status # "Searching"
  <2>1. t = s
    BY <1>2 DEF Round
  <2> QED BY <2>1
<1>3. CASE s.status = "Searching" /\ s.open = {}
  <2>1. t = [s EXCEPT !.status = "Unreachable"]
    BY <1>3 DEF Round
  <2>2. t \in Searches /\ t.status = "Unreachable" /\ t.cost = s.cost /\ t.from = s.from
    <3> HIDE DEF t
    <3> QED BY <1>1, <2>1 DEF Searches
  <2> HIDE DEF t
  <2>3. t \in Sane(g, start, goal)
    BY <1>1, <2>2 DEF Sane, Traced
  <2> QED BY <2>3 DEF t
<1>4. CASE s.status = "Searching" /\ s.open # {}
  <2>1. s.open \in SUBSET Nodes
    BY <1>1 DEF Searches
  <2>2. node \in s.open
    <3>1. \E n \in s.open : \A o \in s.open : Sooner(n, o, rank)
      BY <1>4, <2>1, FirstNode
    <3> HIDE DEF Sooner
    <3> QED BY <3>1
  <2>3. node \in Nodes
    BY <2>1, <2>2
  <2>4. t = IF node.g # s.cost[node.cell] THEN u
            ELSE IF node.cell = goal THEN [s EXCEPT !.status = "Complete"]
            ELSE IF s.expanded >= budget THEN [s EXCEPT !.status = "BudgetExhausted"]
            ELSE Expand(u, g, node, goal)
    BY <1>4 DEF Round
  <2> HIDE DEF t, node
  <2>5. left \in SUBSET Nodes
    BY <2>1
  <2> HIDE DEF left
  <2>6. u \in Searches /\ u.status = s.status /\ u.cost = s.cost /\ u.from = s.from
    BY <1>1, <2>5 DEF Searches
  <2>7. u \in Sane(g, start, goal)
    <3> HIDE DEF u
    <3> QED BY <1>1, <2>6 DEF Sane, Traced
  <2>8. ASSUME node.cell = goal, node.g = s.cost[node.cell]
        PROVE  [s EXCEPT !.status = "Complete"] \in Sane(g, start, goal)
    <3> DEFINE v == [s EXCEPT !.status = "Complete"]
    <3>1. v \in Searches /\ v.cost = s.cost /\ v.from = s.from
      BY <1>1 DEF Searches
    <3>2. s.cost[goal] # -1
      BY <2>3, <2>8 DEF Nodes
    <3> HIDE DEF v
    <3>3. v \in Sane(g, start, goal)
      BY <1>1, <3>1, <3>2 DEF Sane, Traced
    <3> QED BY <3>3 DEF v
  <2>9. [s EXCEPT !.status = "BudgetExhausted"] \in Sane(g, start, goal)
    <3> DEFINE v == [s EXCEPT !.status = "BudgetExhausted"]
    <3>1. v \in Searches /\ v.cost = s.cost /\ v.from = s.from /\ v.status = "BudgetExhausted"
      BY <1>1 DEF Searches
    <3> HIDE DEF v
    <3>2. v \in Sane(g, start, goal)
      BY <1>1, <3>1 DEF Sane, Traced
    <3> QED BY <3>2 DEF v
  <2>10. node.g = s.cost[node.cell] => Expand(u, g, node, goal) \in Sane(g, start, goal)
    <3> HIDE DEF u
    <3> QED BY <1>4, <2>3, <2>6, <2>7, ExpandSane
  <2> HIDE DEF u
  <2>11. t \in Sane(g, start, goal)
    BY <2>4, <2>7, <2>8, <2>9, <2>10
  <2> QED BY <2>11 DEF t
<1> QED BY <1>2, <1>3, <1>4

\* So every search is.
LEMMA SearchedSane ==
  ASSUME IsFiniteSet(Cells), NEW g, NEW start \in Cells, NEW goal \in Cells, NEW budget \in Nat,
         NEW rank \in Rankings
  PROVE  Searched(g, start, goal, budget, rank) \in Sane(g, start, goal)
<1> DEFINE G == Sane(g, start, goal)
           begin == [status |-> "Searching", open |-> {Node(start, 0, goal)}, expanded |-> 0,
                     cost |-> [c \in Cells |-> IF c = start THEN 0 ELSE -1],
                     from |-> [c \in Cells |-> c]]
           N == 4 * Cardinality(Cells) + 1
           next == [p \in Steps(N, G) |-> Round(p[2], g, goal, budget, rank)]
           Body(f) == [n \in 0 .. N |-> IF n = 0 THEN begin
                                        ELSE Round(f[n - 1], g, goal, budget, rank)]
           after == CHOOSE f : f = Body(f)
<1>1. N \in Nat
  BY FS_CardinalityType
<1>2. begin \in G
  <2>1. Node(start, 0, goal) \in Nodes
    BY NodeIs
  <2>2. begin \in Searches
    BY <2>1 DEF Searches
  <2>3. Traced(begin, g, start, goal)
    BY DEF Traced
  <2> QED BY <2>2, <2>3 DEF Sane
<1> HIDE DEF begin, G
<1>3. \A s \in G : Round(s, g, goal, budget, rank) \in G
  BY RoundSane DEF G
<1>4. PICK h \in [0 .. N -> G] : Passed(h, begin, next, N)
  <2>1. \A p \in Steps(N, G) : p[2] \in G
    BY DEF Steps
  <2>2. next \in [Steps(N, G) -> G]
    BY <1>3, <2>1
  <2> HIDE DEF next, N
  <2> QED BY ONLY <1>1, <1>2, <2>2, Iterated
<1>5. h = Body(h)
  <2>1. ASSUME NEW n \in 0 .. N PROVE h[n] = Body(h)[n]
    <3>1. CASE n = 0
      BY <1>4, <3>1 DEF Passed
    <3>2. CASE n # 0
      <4>1. n \in 1 .. N /\ n - 1 \in 0 .. N
        BY <1>1, <3>2
      <4>2. <<n, h[n - 1]>> \in Steps(N, G)
        BY <1>4, <4>1 DEF Steps
      <4>3. h[n] = next[<<n, h[n - 1]>>]
        BY <1>4, <4>1 DEF Passed
      <4> QED BY <3>2, <4>2, <4>3
    <3> QED BY <3>1, <3>2
  <2> HIDE DEF N
  <2> QED BY <1>4, <2>1
<1>6. after = Body(after)
  <2> HIDE DEF Body
  <2> QED BY <1>5
<1> HIDE DEF after
<1>7. \A n \in 0 .. N : after[n] = IF n = 0 THEN begin
                                   ELSE Round(after[n - 1], g, goal, budget, rank)
  <2> HIDE DEF N
  <2> QED BY <1>6
<1> DEFINE Bad == {n \in 0 .. N : after[n] \notin G}
<1>8. ASSUME NEW n \in Bad PROVE \E j \in Bad : j < n
  <2>1. n # 0
    BY <1>1, <1>2, <1>7
  <2>2. n \in 1 .. N /\ n - 1 \in 0 .. N /\ n - 1 < n
    BY <1>1, <2>1
  <2>3. after[n - 1] \notin G
    BY <1>3, <1>7, <2>1, <2>2
  <2> QED BY <2>2, <2>3
<1>9. Bad = {}
  <2>1. Bad \in SUBSET (0 .. N)
    OBVIOUS
  <2> HIDE DEF Bad, N
  <2> QED BY ONLY <1>1, <1>8, <2>1, NoneBadUpTo
<1>10. after[N] \in G
  BY <1>1, <1>9
<1>11. Searched(g, start, goal, budget, rank) = after[N]
  BY DEF Searched, after, begin
<1> QED BY <1>10, <1>11 DEF G

-----------------------------------------------------------------------------
(* Routes *)

\* Step by step over ground that can be walked.
Leads(g, c, path) ==
  \A i \in 1 .. Len(path) :
    path[i] \in Beside(IF i = 1 THEN c ELSE path[i - 1]) /\ Walkable(g, path[i])

\* There is a least of some numbers.
LEMMA MinIs ==
  ASSUME NEW S \in SUBSET Nat, S # {}
  PROVE  Min(S) \in S /\ \A n \in S : Min(S) <= n
<1> DEFINE key == [n \in S |-> n]
<1>1. key \in [S -> Nat]
  OBVIOUS
<1>2. \E x \in S : \A y \in S : key[x] <= key[y]
  <2> HIDE DEF key
  <2> QED BY <1>1, LeastKey
<1>3. \E x \in S : \A y \in S : x <= y
  BY <1>2
<1> QED BY <1>3 DEF Min

\* The way put together from the goal leads there from the start.
LEMMA RouteIs ==
  ASSUME NEW g, NEW start \in Cells, NEW goal \in Cells, NEW s \in Sane(g, start, goal),
         s.status = "Complete"
  PROVE  LET p == Route(s, start, goal)
         IN  /\ p \in Seq(Cells) /\ Leads(g, start, p)
             /\ p = <<>> => start = goal
             /\ p # <<>> => p[Len(p)] = goal
<1> DEFINE N == s.cost[goal]
           next == [p \in Steps(N, Cells) |-> s.from[p[2]]]
           Body(f) == [n \in 0 .. N |-> IF n = 0 THEN goal ELSE s.from[f[n - 1]]]
           back == CHOOSE f : f = Body(f)
           Z == {n \in 0 .. N : back[n] = start}
           L == Min(Z)
           p == [i \in 1 .. L |-> back[L - i]]
<1>1. Route(s, start, goal) = p
  BY DEF Route
<1>2. s \in Searches /\ Traced(s, g, start, goal) /\ N \in Nat /\ s.from \in [Cells -> Cells]
  BY DEF Sane, Traced, Searches
<1>3. PICK h \in [0 .. N -> Cells] : Passed(h, goal, next, N)
  <2>1. \A q \in Steps(N, Cells) : q[2] \in Cells
    BY DEF Steps
  <2>2. next \in [Steps(N, Cells) -> Cells]
    BY <1>2, <2>1
  <2> HIDE DEF next, N
  <2> QED BY <1>2, <2>2, Iterated
<1>4. h = Body(h)
  <2>1. ASSUME NEW n \in 0 .. N PROVE h[n] = Body(h)[n]
    <3>1. CASE n = 0
      BY <1>3, <3>1 DEF Passed
    <3>2. CASE n # 0
      <4>1. n \in 1 .. N /\ n - 1 \in 0 .. N
        BY <1>2, <3>2
      <4>2. <<n, h[n - 1]>> \in Steps(N, Cells)
        BY <1>3, <4>1 DEF Steps
      <4>3. h[n] = next[<<n, h[n - 1]>>]
        BY <1>3, <4>1 DEF Passed
      <4> QED BY <3>2, <4>2, <4>3
    <3> QED BY <3>1, <3>2
  <2> HIDE DEF N
  <2> QED BY <1>3, <2>1
<1>5. back = Body(back)
  <2> HIDE DEF Body
  <2> QED BY <1>4
<1> HIDE DEF back
<1>6. \A n \in 0 .. N : back[n] = IF n = 0 THEN goal ELSE s.from[back[n - 1]]
  <2> HIDE DEF N
  <2> QED BY <1>5
<1> HIDE DEF N
\* As long as the start was not met, there is less and less left to go.
<1> DEFINE Bad == {n \in 0 .. N : /\ \A j \in 0 .. N : j < n => back[j] # start
                                  /\ ~(back[n] \in Cells /\ s.cost[back[n]] \in 0 .. N - n)}
<1>7. ASSUME NEW n \in Bad PROVE \E j \in Bad : j < n
  <2>1. n # 0
    BY <1>2, <1>6 DEF N
  <2>2. n \in 1 .. N /\ n - 1 \in 0 .. N /\ n - 1 < n
    BY <1>2, <2>1
  <2>3. back[n] = s.from[back[n - 1]] /\ back[n - 1] # start
    BY <1>6, <2>1, <2>2
  <2>4. SUFFICES ASSUME back[n - 1] \in Cells, s.cost[back[n - 1]] \in 0 .. N - (n - 1)
                 PROVE  back[n] \in Cells /\ s.cost[back[n]] \in 0 .. N - n
    BY <1>2, <2>2
  <2>5. s.cost[back[n]] \in Nat /\ s.cost[back[n]] < s.cost[back[n - 1]]
    BY <1>2, <2>3, <2>4 DEF Traced
  <2> QED BY <1>2, <2>2, <2>3, <2>4, <2>5
<1>8. Bad = {}
  <2>1. Bad \in SUBSET (0 .. N)
    OBVIOUS
  <2> HIDE DEF Bad
  <2> QED BY ONLY <1>2, <1>7, <2>1, NoneBadUpTo
<1>9. \A n \in 0 .. N : (\A j \in 0 .. N : j < n => back[j] # start) =>
                          back[n] \in Cells /\ s.cost[back[n]] \in 0 .. N - n
  BY <1>8
<1> HIDE DEF Bad
<1>10. Z # {}
  <2> SUFFICES ASSUME \A n \in 0 .. N : back[n] # start PROVE FALSE
    OBVIOUS
  <2>1. N \in 0 .. N
    BY <1>2
  <2>2. back[N] \in Cells /\ s.cost[back[N]] = 0 /\ back[N] # start
    BY <1>2, <1>9, <2>1
  <2> QED BY <1>2, <2>2 DEF Traced
<1>11. L \in 0 .. N /\ back[L] = start /\ \A n \in 0 .. N : n < L => back[n] # start
  <2>1. Z \in SUBSET Nat
    BY <1>2
  <2>2. L \in Z /\ \A n \in Z : L <= n
    BY <1>10, <2>1, MinIs
  <2> HIDE DEF L
  <2>3. L \in 0 .. N /\ back[L] = start
    BY <2>2
  <2>4. ASSUME NEW n \in 0 .. N, n < L PROVE back[n] # start
    <3>1. n \in Z => L <= n
      BY <2>2
    <3>2. n \notin Z
      BY <1>2, <2>3, <2>4, <3>1
    <3> QED BY <3>2
  <2> QED BY <2>3, <2>4
<1> HIDE DEF L, Z
<1>12. ASSUME NEW i \in 1 .. L
       PROVE  /\ L - i \in 0 .. N /\ back[L - i] \in Cells /\ Walkable(g, back[L - i])
              /\ back[L - i] \in Beside(back[L - i + 1])
  <2>1. L - i \in 0 .. N /\ L - i + 1 \in 0 .. N /\ L - i < L /\ L - i + 1 # 0
    BY <1>2, <1>11
  <2>2. back[L - i] # start /\ back[L - i] \in Cells /\ s.cost[back[L - i]] \in 0 .. N - (L - i)
    <3>1. \A j \in 0 .. N : j < L - i => back[j] # start
      BY <1>2, <1>11, <2>1
    <3> QED BY <1>9, <1>11, <2>1, <3>1
  <2>3. Walkable(g, back[L - i]) /\ back[L - i] \in Beside(s.from[back[L - i]])
    BY <1>2, <2>2 DEF Traced
  <2>4. back[L - i + 1] = s.from[back[L - i]]
    BY <1>6, <2>1
  <2> QED BY <2>1, <2>2, <2>3, <2>4
<1>13. L \in Nat /\ p \in Seq(Cells) /\ Len(p) = L /\ \A i \in 1 .. L : p[i] = back[L - i]
  <2>1. L \in Nat
    BY <1>2, <1>11
  <2>2. \A i \in 1 .. L : back[L - i] \in Cells
    BY <1>12
  <2>3. p \in [1 .. L -> Cells]
    BY <2>2
  <2> QED BY <2>1, <2>3
<1>14. Leads(g, start, p)
  <2>1. ASSUME NEW i \in 1 .. L
        PROVE  p[i] \in Beside(IF i = 1 THEN start ELSE p[i - 1]) /\ Walkable(g, p[i])
    <3>1. CASE i = 1
      <4>1. L - i + 1 = L
        BY <1>13, <3>1
      <4> QED BY <1>11, <1>12, <1>13, <3>1, <4>1
    <3>2. CASE i # 1
      <4>1. i - 1 \in 1 .. L /\ L - (i - 1) = L - i + 1
        BY <1>13, <3>2
      <4>2. p[i - 1] = back[L - i + 1]
        BY <1>13, <4>1
      <4> QED BY <1>12, <1>13, <3>2, <4>2
    <3> QED BY <3>1, <3>2
  <2> HIDE DEF p
  <2> QED BY <1>13, <2>1 DEF Leads
<1>15. p = <<>> => start = goal
  <2>1. p = <<>> => L = 0
    BY <1>13
  <2> QED BY <1>2, <1>6, <1>11, <2>1
<1>16. p # <<>> => p[Len(p)] = goal
  <2> SUFFICES ASSUME p # <<>> PROVE p[L] = goal
    BY <1>13
  <2>1. L \in 1 .. L /\ L - L = 0
    BY <1>13
  <2> QED BY <1>2, <1>6, <1>11, <1>13, <2>1
<1> QED BY <1>1, <1>13, <1>14, <1>15, <1>16

\* A search that is complete found a way from the start to the goal.
LEMMA FindIs ==
  ASSUME IsFiniteSet(Cells), NEW g, NEW start \in Cells, NEW goal, NEW budget \in Nat,
         NEW rank \in Rankings, Find(g, start, goal, budget, rank).status = "Complete"
  PROVE  LET p == Find(g, start, goal, budget, rank).cells
         IN  /\ p \in Seq(Cells) /\ Leads(g, start, p)
             /\ p = <<>> => start = goal
             /\ p # <<>> => p[Len(p)] = goal
<1> DEFINE s == Searched(g, start, goal, budget, rank)
<1>1. Walkable(g, goal) /\ Find(g, start, goal, budget, rank) =
        [status |-> s.status, cells |-> IF s.status = "Complete" THEN Route(s, start, goal) ELSE <<>>]
  BY DEF Find
<1>2. goal \in Cells
  BY <1>1 DEF Walkable
<1>3. s \in Sane(g, start, goal)
  BY <1>2, SearchedSane
<1> HIDE DEF s
<1>4. s.status = "Complete" /\ Find(g, start, goal, budget, rank).cells = Route(s, start, goal)
  BY <1>1
<1> QED BY <1>2, <1>3, <1>4, RouteIs

-----------------------------------------------------------------------------
(* The home field *)

\* Steps that can be gone down to home over walkable ground.
Descends(g, home, steps) ==
  /\ steps \in [Cells -> Int]
  /\ \A c \in Cells :
       /\ steps[c] >= -1
       /\ steps[c] = 0 => c = home
       /\ steps[c] >= 0 => Walkable(g, c)
       /\ steps[c] > 0 => \E d \in Beside(c) : steps[d] = steps[c] - 1

\* The field descends from everywhere it reached.
LEMMA FieldIs ==
  ASSUME IsFiniteSet(Cells), NEW g, NEW home, Walkable(g, home)
  PROVE  Descends(g, home, Field(g, home).steps)
<1> DEFINE N == Cardinality(Cells)
           G == SUBSET {c \in Cells : Walkable(g, c)}
           base == {home}
           next == [p \in Steps(N, G) |-> Wave(g, p[2])]
           Body(f) == [n \in 0 .. N |-> IF n = 0 THEN base ELSE Wave(g, f[n - 1])]
           within == CHOOSE f : f = Body(f)
           K(c) == {n \in 0 .. N : c \in within[n]}
           steps == [c \in Cells |-> IF c \in within[N] THEN Min(K(c)) ELSE -1]
<1>1. N \in Nat /\ base \in G
  BY FS_CardinalityType DEF Walkable
<1>2. \A S \in G : Wave(g, S) \in G
  BY DEF Wave
<1> HIDE DEF base, G
<1>3. PICK h \in [0 .. N -> G] : Passed(h, base, next, N)
  <2>1. \A p \in Steps(N, G) : p[2] \in G
    BY DEF Steps
  <2>2. next \in [Steps(N, G) -> G]
    BY <1>2, <2>1
  <2> HIDE DEF next, N
  <2> QED BY ONLY <1>1, <2>2, Iterated
<1>4. h = Body(h)
  <2>1. ASSUME NEW n \in 0 .. N PROVE h[n] = Body(h)[n]
    <3>1. CASE n = 0
      BY <1>3, <3>1 DEF Passed
    <3>2. CASE n # 0
      <4>1. n \in 1 .. N /\ n - 1 \in 0 .. N
        BY <1>1, <3>2
      <4>2. <<n, h[n - 1]>> \in Steps(N, G)
        BY <1>3, <4>1 DEF Steps
      <4>3. h[n] = next[<<n, h[n - 1]>>]
        BY <1>3, <4>1 DEF Passed
      <4> QED BY <3>2, <4>2, <4>3
    <3> QED BY <3>1, <3>2
  <2> HIDE DEF N
  <2> QED BY <1>3, <2>1
<1>5. within = Body(within)
  <2> HIDE DEF Body
  <2> QED BY <1>4
<1>6. Field(g, home).steps = steps
  BY DEF Field, base
<1> HIDE DEF within
<1>7. \A n \in 0 .. N : within[n] = IF n = 0 THEN base ELSE Wave(g, within[n - 1])
  <2> HIDE DEF N
  <2> QED BY <1>5
<1> HIDE DEF N
<1>8. \A n \in 0 .. N : within[n] \in G
  <2> DEFINE Out == {n \in 0 .. N : within[n] \notin G}
  <2>1. ASSUME NEW n \in Out PROVE \E j \in Out : j < n
    <3>1. n # 0
      BY <1>1, <1>7
    <3>2. n - 1 \in 0 .. N /\ n - 1 < n /\ within[n] = Wave(g, within[n - 1])
      BY <1>1, <1>7, <3>1
    <3> QED BY <1>2, <3>2
  <2>2. Out \in SUBSET (0 .. N)
    OBVIOUS
  <2>3. Out = {}
    <3> HIDE DEF Out
    <3> QED BY ONLY <1>1, <2>1, <2>2, NoneBadUpTo
  <2> QED BY <2>3
<1>9. \A n \in 0 .. N : within[n] \subseteq within[N]
  <2> DEFINE Out == {k \in 0 .. N : ~(within[N - k] \subseteq within[N])}
  <2>1. ASSUME NEW k \in Out PROVE \E j \in Out : j < k
    <3>1. k # 0
      BY <1>1
    <3>2. k - 1 \in 0 .. N /\ k - 1 < k /\ N - k + 1 \in 1 .. N /\ N - (k - 1) = N - k + 1
          /\ (N - k + 1) - 1 = N - k
      BY <1>1, <3>1
    <3>3. within[N - k + 1] = Wave(g, within[N - k])
      BY <1>7, <3>2
    <3>4. within[N - k] \subseteq within[N - (k - 1)]
      BY <3>2, <3>3 DEF Wave
    <3> QED BY <3>2, <3>4
  <2>2. Out \in SUBSET (0 .. N)
    OBVIOUS
  <2>3. Out = {}
    <3> HIDE DEF Out
    <3> QED BY ONLY <1>1, <2>1, <2>2, NoneBadUpTo
  <2>4. ASSUME NEW n \in 0 .. N PROVE within[n] \subseteq within[N]
    <3>1. N - n \in 0 .. N /\ N - (N - n) = n
      BY <1>1
    <3> QED BY <2>3, <3>1
  <2> QED BY <2>4
<1>10. \A c \in within[N] : Min(K(c)) \in K(c) /\ \A n \in K(c) : Min(K(c)) <= n
  <2>1. ASSUME NEW c \in within[N] PROVE K(c) \in SUBSET Nat /\ K(c) # {}
    BY <1>1
  <2> HIDE DEF K
  <2> QED BY <2>1, MinIs
<1>11. ASSUME NEW c \in Cells
       PROVE  \/ steps[c] = -1
              \/ /\ steps[c] \in 0 .. N /\ c \in within[steps[c]]
                 /\ \A n \in 0 .. N : c \in within[n] => steps[c] <= n
  <2>1. CASE c \in within[N]
    <3>1. steps[c] = Min(K(c))
      BY <2>1
    <3>2. Min(K(c)) \in K(c) /\ \A n \in K(c) : Min(K(c)) <= n
      BY <1>10, <2>1
    <3>3. steps[c] \in K(c) /\ \A n \in K(c) : steps[c] <= n
      BY ONLY <3>1, <3>2
    <3> HIDE DEF steps
    <3> QED BY <3>3
  <2>2. CASE c \notin within[N]
    BY <2>2
  <2> QED BY <2>1, <2>2
<1>12. \A c \in within[N] \cap Cells : steps[c] # -1
  <2>1. ASSUME NEW c \in within[N] \cap Cells PROVE steps[c] # -1
    <3>1. steps[c] = Min(K(c)) /\ Min(K(c)) \in K(c)
      BY <1>10
    <3>2. steps[c] \in K(c)
      BY ONLY <3>1
    <3> HIDE DEF steps
    <3> QED BY <1>1, <3>2
  <2> HIDE DEF steps
  <2> QED BY <2>1
<1>13. DOMAIN steps = Cells /\ steps = [c \in Cells |-> steps[c]]
  OBVIOUS
<1> HIDE DEF steps, K
<1>14. ASSUME NEW c \in Cells, steps[c] >= 0
       PROVE  Walkable(g, c) /\ (steps[c] = 0 => c = home)
  <2>1. steps[c] \in 0 .. N /\ c \in within[steps[c]]
    BY <1>1, <1>11, <1>14
  <2>2. Walkable(g, c)
    BY <1>8, <2>1 DEF G
  <2>3. steps[c] = 0 => c = home
    BY <1>7, <2>1 DEF base
  <2> QED BY <2>2, <2>3
<1>15. ASSUME NEW c \in Cells, steps[c] > 0
       PROVE  \E d \in Beside(c) : steps[d] = steps[c] - 1
  <2> DEFINE k == steps[c]
  <2>1. /\ k \in 1 .. N /\ c \in within[k] /\ k - 1 \in 0 .. N
        /\ \A n \in 0 .. N : c \in within[n] => k <= n
    BY <1>1, <1>11, <1>15
  <2> HIDE DEF k
  <2>2. c \notin within[k - 1] /\ within[k] = Wave(g, within[k - 1])
    <3>1. ~(k <= k - 1) /\ k # 0
      BY <1>1, <2>1
    <3> QED BY <1>7, <2>1, <3>1
  <2>3. PICK d \in Beside(c) : d \in within[k - 1]
    BY <2>1, <2>2 DEF Wave
  <2>4. d \in Cells /\ d \in within[N]
    BY <1>9, <2>1, <2>3 DEF Beside
  <2>5. /\ steps[d] \in 0 .. N /\ d \in within[steps[d]] /\ steps[d] <= k - 1
    BY <1>11, <1>12, <2>1, <2>3, <2>4
  <2>6. ASSUME steps[d] < k - 1 PROVE FALSE
    <3> DEFINE m == steps[d] + 1
    <3>1. m \in 0 .. N /\ m # 0 /\ m - 1 = steps[d] /\ m < k
      BY <1>1, <2>1, <2>5, <2>6
    <3>2. c \in Wave(g, within[steps[d]])
      <4>1. Walkable(g, c)
        BY <1>1, <1>11, <1>14, <1>15
      <4> QED BY <2>3, <2>5, <4>1 DEF Wave
    <3>3. c \in within[m]
      BY <1>7, <3>1, <3>2
    <3> QED BY <1>1, <2>1, <3>1, <3>3
  <2>7. steps[d] = k - 1
    BY <1>1, <2>1, <2>5, <2>6
  <2> QED BY <2>3, <2>7 DEF k
<1>16. \A c \in Cells : steps[c] \in Int /\ steps[c] >= -1
  BY <1>1, <1>11
<1>17. steps \in [Cells -> Int]
  BY <1>13, <1>16
<1>18. Descends(g, home, steps)
  BY <1>14, <1>15, <1>16, <1>17 DEF Descends
<1> QED BY <1>6, <1>18

\* The way down the field leads step by step over walkable ground, and home.
LEMMA PathHomeIs ==
  ASSUME NEW f, NEW g, NEW home, NEW start \in Cells, NEW rank \in Rankings,
         f.revision = g.revision => Descends(g, home, f.steps)
  PROVE  LET p == PathHome(f, g, start, rank)
         IN  /\ p \in Seq(Cells) /\ Leads(g, start, p)
             /\ p # <<>> => p[Len(p)] = home
<1>1. CASE f.revision # g.revision \/ f.steps[start] < 0
  <2>1. PathHome(f, g, start, rank) = <<>>
    BY <1>1 DEF PathHome
  <2> QED BY <2>1 DEF Leads
<1>2. CASE ~(f.revision # g.revision \/ f.steps[start] < 0)
  <2> DEFINE N == f.steps[start]
             Body(h) == [n \in 0 .. N |-> IF n = 0 THEN start ELSE Best(f, h[n - 1], rank)]
             down == CHOOSE h : h = Body(h)
             p == [n \in 1 .. N |-> down[n]]
             pick(c) == IF Best(f, c, rank) \in Cells THEN Best(f, c, rank) ELSE start
             next == [q \in Steps(N, Cells) |-> pick(q[2])]
  <2>1. Descends(g, home, f.steps) /\ N \in Nat
    BY <1>2 DEF Descends
  <2>2. PathHome(f, g, start, rank) = p
    BY <1>2 DEF PathHome
  \* A step down, where there is one.
  <2>3. ASSUME NEW c \in Cells, f.steps[c] > 0
        PROVE  /\ Best(f, c, rank) \in Beside(c) /\ Best(f, c, rank) \in Cells
               /\ f.steps[Best(f, c, rank)] = f.steps[c] - 1
    <3> DEFINE key == [d \in Lower(f, c) |-> rank[d]]
    <3>1. Lower(f, c) # {}
      BY <2>1, <2>3 DEF Descends, Lower
    <3>2. key \in [Lower(f, c) -> Nat]
      BY DEF Lower, Beside, Rankings
    <3>3. \E x \in Lower(f, c) : \A y \in Lower(f, c) : key[x] <= key[y]
      <4> HIDE DEF key
      <4> QED BY <3>1, <3>2, LeastKey
    <3>4. \E x \in Lower(f, c) : \A y \in Lower(f, c) : rank[x] <= rank[y]
      BY <3>3
    <3>5. Best(f, c, rank) \in Lower(f, c)
      BY <3>4 DEF Best
    <3> QED BY <3>5 DEF Lower, Beside
  <2>4. PICK h \in [0 .. N -> Cells] : Passed(h, start, next, N)
    <3>1. \A q \in Steps(N, Cells) : pick(q[2]) \in Cells
      OBVIOUS
    <3>2. next \in [Steps(N, Cells) -> Cells]
      <4> HIDE DEF pick
      <4> QED BY <3>1
    <3> HIDE DEF next, N
    <3> QED BY <2>1, <3>2, Iterated
  <2>5. \A n \in 1 .. N : h[n] = pick(h[n - 1])
    <3>1. ASSUME NEW n \in 1 .. N PROVE h[n] = pick(h[n - 1])
      <4>1. n - 1 \in 0 .. N
        BY <2>1
      <4>2. <<n, h[n - 1]>> \in Steps(N, Cells)
        BY <2>4, <4>1 DEF Steps
      <4>3. h[n] = next[<<n, h[n - 1]>>]
        BY <2>4 DEF Passed
      <4> HIDE DEF pick
      <4> QED BY <4>2, <4>3
    <3> QED BY <3>1
  <2> HIDE DEF N, pick, next
  <2> DEFINE Bad == {n \in 0 .. N : f.steps[h[n]] # N - n}
  <2>6. ASSUME NEW n \in Bad PROVE \E j \in Bad : j < n
    <3>1. h[0] = start
      BY <2>4 DEF Passed
    <3>2. n # 0
      BY <2>1, <3>1 DEF N
    <3>3. n \in 1 .. N /\ n - 1 \in 0 .. N /\ n - 1 < n
      BY <2>1, <3>2
    <3>4. SUFFICES ASSUME f.steps[h[n - 1]] = N - (n - 1) PROVE f.steps[h[n]] = N - n
      BY <3>3
    <3>5. h[n - 1] \in Cells /\ f.steps[h[n - 1]] > 0
      BY <2>1, <2>4, <3>3, <3>4
    <3>6. h[n] = Best(f, h[n - 1], rank)
      BY <2>3, <2>5, <3>3, <3>5 DEF pick
    <3> QED BY <2>1, <2>3, <3>3, <3>4, <3>5, <3>6
  <2>7. Bad = {}
    <3>1. Bad \in SUBSET (0 .. N)
      OBVIOUS
    <3> HIDE DEF Bad
    <3> QED BY ONLY <2>1, <2>6, <3>1, NoneBadUpTo
  <2>8. \A n \in 0 .. N : f.steps[h[n]] = N - n
    BY <2>7
  <2> HIDE DEF Bad
  <2>9. ASSUME NEW n \in 1 .. N
        PROVE  /\ h[n] = Best(f, h[n - 1], rank) /\ h[n] \in Beside(h[n - 1])
               /\ h[n] \in Cells /\ Walkable(g, h[n])
    <3>1. n - 1 \in 0 .. N /\ n \in 0 .. N /\ N - (n - 1) > 0 /\ N - n >= 0
      BY <2>1
    <3>2. h[n - 1] \in Cells /\ f.steps[h[n - 1]] > 0 /\ h[n] \in Cells /\ f.steps[h[n]] >= 0
      BY <2>4, <2>8, <3>1
    <3>3. h[n] = Best(f, h[n - 1], rank) /\ h[n] \in Beside(h[n - 1])
      BY <2>3, <2>5, <3>2 DEF pick
    <3>4. Walkable(g, h[n])
      BY <2>1, <3>2 DEF Descends
    <3> QED BY <3>2, <3>3, <3>4
  <2>10. h = Body(h)
    <3>1. ASSUME NEW n \in 0 .. N PROVE h[n] = Body(h)[n]
      <4>1. CASE n = 0
        BY <2>4, <4>1 DEF Passed
      <4>2. CASE n # 0
        <5>1. n \in 1 .. N
          BY <2>1, <4>2
        <5> QED BY <2>9, <4>2, <5>1
      <4> QED BY <4>1, <4>2
    <3> QED BY <2>4, <3>1
  <2>11. down = Body(down)
    <3> HIDE DEF Body
    <3> QED BY <2>10
  <2> HIDE DEF down
  <2>12. \A n \in 0 .. N : down[n] = IF n = 0 THEN start ELSE Best(f, down[n - 1], rank)
    BY <2>11
  <2> DEFINE Off == {n \in 0 .. N : down[n] # h[n]}
  <2>13. ASSUME NEW n \in Off PROVE \E j \in Off : j < n
    <3>1. n # 0
      BY <2>1, <2>4, <2>12 DEF Passed
    <3>2. n \in 1 .. N /\ n - 1 \in 0 .. N /\ n - 1 < n
      BY <2>1, <3>1
    <3>3. down[n - 1] # h[n - 1]
      BY <2>9, <2>12, <3>1, <3>2
    <3> QED BY <3>2, <3>3
  <2>14. Off = {}
    <3>1. Off \in SUBSET (0 .. N)
      OBVIOUS
    <3> HIDE DEF Off
    <3> QED BY ONLY <2>1, <2>13, <3>1, NoneBadUpTo
  <2>15. \A n \in 1 .. N : p[n] = h[n] /\ p[n] \in Cells
    <3>1. ASSUME NEW n \in 1 .. N PROVE down[n] = h[n] /\ h[n] \in Cells
      BY <2>1, <2>9, <2>14
    <3> QED BY <3>1
  <2>16. p \in Seq(Cells) /\ Len(p) = N
    <3>1. p \in [1 .. N -> Cells]
      BY <2>15
    <3> QED BY <2>1, <3>1
  <2> HIDE DEF p
  <2>17. Leads(g, start, p)
    <3>1. ASSUME NEW n \in 1 .. N
          PROVE  p[n] \in Beside(IF n = 1 THEN start ELSE p[n - 1]) /\ Walkable(g, p[n])
      <4>1. CASE n = 1
        <5>1. h[n - 1] = start
          BY <2>4, <4>1 DEF Passed
        <5> QED BY <2>9, <2>15, <4>1, <5>1
      <4>2. CASE n # 1
        <5>1. n - 1 \in 1 .. N
          BY <2>1, <4>2
        <5> QED BY <2>9, <2>15, <4>2, <5>1
      <4> QED BY <4>1, <4>2
    <3> QED BY <2>16, <3>1 DEF Leads
  <2>18. ASSUME p # <<>> PROVE p[Len(p)] = home
    <3>1. N \in 1 .. N /\ N \in 0 .. N /\ N - N = 0
      BY <2>1, <2>16, <2>18
    <3>2. p[N] = h[N] /\ h[N] \in Cells /\ f.steps[h[N]] = 0
      BY <2>4, <2>8, <2>15, <3>1
    <3> QED BY <2>1, <2>16, <3>2 DEF Descends
  <2> QED BY <2>2, <2>16, <2>17, <2>18
<1> QED BY <1>1, <1>2

-----------------------------------------------------------------------------
(* What an ant's turn starts from and comes to *)

Doings == {"Free", "ToSource", "Returning", "Storing", "Scouting", "Excavate", "Hauling"}
Mes == [at : Cells, path : Seq(Cells), fresh : BOOLEAN, doing : Doings]
Situations == [me : Mes, n : [Cells -> Int], plans : Nat, grid : Grids]

\* Where an errand leads.
Errands == {"ToSource", "Returning", "Storing"}
To(d) == IF d = "ToSource" THEN Site ELSE IF d = "Returning" THEN Home ELSE Heap

\* A way from a cell on which an errand can end: none at all only where the site is.
Suits(c, way, d) ==
  d \in Errands => IF way = <<>> THEN d = "ToSource" => c = Site ELSE way[Len(way)] = To(d)
Ends(m) == m.fresh => Suits(m.at, m.path, m.doing)
\* An ant that is not inside ground, whose route can be walked if it counts as current.
Ready(g, m) ==
  /\ Passable(g.at[m.at]) /\ Ends(m)
  /\ Walking(m) => Leads(g, m.at, m.path)
\* A field that counts as current can be gone down.
FieldFits(g) == field.revision = g.revision => Descends(g, Home, field.steps)

Fits == {o \in Situations : Ready(o.grid, o.me) /\ FieldFits(o.grid)}
\* The ant stays where it is, or takes one step into a cell with room.
Rests(o) == {r \in Fits : r.grid = o.grid /\ r.me.at = o.me.at /\ r.n = o.n}
Walks(o) ==
  {r \in Fits :
     /\ r.grid = o.grid
     /\ \/ r.me.at = o.me.at /\ r.n = o.n
        \/ HasRoom(o.n, r.me.at) /\ r.n = Crossed(o.n, o.me.at, r.me.at)}
\* It digs the face or tips its grain where nobody stands.
Alters(o, r) ==
  /\ r \in Situations /\ r.me.at = o.me.at /\ r.n = o.n
  /\ \/ r.grid = Set(o.grid, Face, "Air") /\ o.grid.at[Face] = "Soil"
     \/ r.grid = Set(o.grid, Dump, "Soil") /\ o.grid.at[Dump] = "Sky" /\ Standing(Dump) = 0

\* There are so many cells.
LEMMA CellsFinite == IsFiniteSet(Cells)
<1>1. Width - 1 \in Int /\ Height - 1 \in Int /\ 0 \in Int
  BY GridAssumption
<1>2. IsFiniteSet(0 .. (Width - 1)) /\ IsFiniteSet(0 .. (Height - 1))
  BY ONLY <1>1, FS_Interval
<1> QED BY ONLY <1>2, FS_Product DEF Cells

\* What ants and searches are given.
LEMMA AntsAre ==
  /\ Home \in Cells /\ Site \in Cells /\ Face \in Cells /\ Dump \in Cells /\ IsFiniteSet(Cells)
  /\ Expansions \in Nat /\ Expansions \div 2 \in Nat
  /\ \A a \in Ants : Rank[a] \in Rankings
<1>1. Home \in Cells /\ Site \in Cells /\ Face \in Cells /\ Dump \in Cells
  <2> HIDE DEF Cells
  <2> QED BY TrafficAssumption
<1>2. Expansions \in Nat /\ Expansions \div 2 \in Nat
  BY TrafficAssumption
<1>3. \A a \in Ants : Rank[a] \in Rankings
  <2> HIDE DEF Cells, Ants
  <2> QED BY TrafficAssumption DEF Rankings
<1> QED BY <1>1, <1>2, <1>3, CellsFinite

\* An ant that rests may do so again, and walk before or after.
LEMMA RestThenWalk ==
  ASSUME NEW o, NEW r \in Rests(o), NEW s
  PROVE  /\ s \in Walks(r) => s \in Walks(o)
         /\ s \in Rests(r) => s \in Rests(o)
         /\ Alters(r, s) => Alters(o, s)
         /\ r \in Walks(o) /\ r \in Fits
BY DEF Rests, Walks, Alters

LEMMA WalkThenRest ==
  ASSUME NEW o, NEW r \in Walks(o), NEW s \in Rests(r)
  PROVE  s \in Walks(o)
BY DEF Rests, Walks

\* Doing nothing is a rest.
LEMMA StayRests == \A o \in Fits : o \in Rests(o)
BY DEF Rests

\* An ant that stays where it is with a route it can walk rests.
LEMMA RestIs ==
  ASSUME NEW o \in Fits, NEW m \in Mes, m.at = o.me.at, Ready(o.grid, m), NEW left \in Nat
  PROVE  [me |-> m, n |-> o.n, plans |-> left, grid |-> o.grid] \in Rests(o)
<1> DEFINE r == [me |-> m, n |-> o.n, plans |-> left, grid |-> o.grid]
<1>1. o.n \in [Cells -> Int] /\ o.grid \in Grids /\ FieldFits(o.grid)
  BY DEF Fits, Situations
<1>2. r \in Situations
  <2> HIDE DEF Grids
  <2> QED BY <1>1 DEF Situations
<1>3. r.grid = o.grid /\ r.me = m /\ r.n = o.n
  OBVIOUS
<1> HIDE DEF r
<1>4. r \in Rests(o)
  BY <1>1, <1>2, <1>3 DEF Rests, Fits
<1> QED BY <1>4 DEF r

\* A situation and its parts.
LEMMA SituationIs ==
  ASSUME NEW o \in Fits
  PROVE  /\ o = [me |-> o.me, n |-> o.n, plans |-> o.plans, grid |-> o.grid]
         /\ o.me = [at |-> o.me.at, path |-> o.me.path, fresh |-> o.me.fresh, doing |-> o.me.doing]
         /\ o.me \in Mes /\ o.me.at \in Cells /\ o.me.path \in Seq(Cells) /\ o.me.fresh \in BOOLEAN
         /\ o.me.doing \in Doings /\ o.n \in [Cells -> Int] /\ o.plans \in Nat /\ o.grid \in Grids
         /\ Ready(o.grid, o.me) /\ FieldFits(o.grid)
<1>1. o \in Situations /\ Ready(o.grid, o.me) /\ FieldFits(o.grid)
  BY DEF Fits
<1>2. o = [me |-> o.me, n |-> o.n, plans |-> o.plans, grid |-> o.grid] /\ o.me \in Mes
      /\ o.n \in [Cells -> Int] /\ o.plans \in Nat /\ o.grid \in Grids
  <2> HIDE DEF Mes, Grids
  <2> QED BY <1>1 DEF Situations
<1>3. o.me = [at |-> o.me.at, path |-> o.me.path, fresh |-> o.me.fresh, doing |-> o.me.doing]
      /\ o.me.at \in Cells /\ o.me.path \in Seq(Cells) /\ o.me.fresh \in BOOLEAN
      /\ o.me.doing \in Doings
  <2> HIDE DEF Doings, Cells
  <2> QED BY <1>2 DEF Mes
<1> QED BY <1>1, <1>2, <1>3

\* An ant and a situation put together from their parts.
Me(c, path, fresh, doing) == [at |-> c, path |-> path, fresh |-> fresh, doing |-> doing]
Having(m, n, left, g) == [me |-> m, n |-> n, plans |-> left, grid |-> g]

\* What they are put together from is what they have.
LEMMA MeHas ==
  ASSUME NEW c, NEW p, NEW fresh, NEW doing
  PROVE  /\ Me(c, p, fresh, doing).at = c /\ Me(c, p, fresh, doing).path = p
         /\ Me(c, p, fresh, doing).fresh = fresh /\ Me(c, p, fresh, doing).doing = doing
         /\ (c \in Cells /\ p \in Seq(Cells) /\ fresh \in BOOLEAN /\ doing \in Doings)
              => Me(c, p, fresh, doing) \in Mes
<1>1. /\ Me(c, p, fresh, doing).at = c /\ Me(c, p, fresh, doing).path = p
      /\ Me(c, p, fresh, doing).fresh = fresh /\ Me(c, p, fresh, doing).doing = doing
  BY DEF Me
<1>2. (c \in Cells /\ p \in Seq(Cells) /\ fresh \in BOOLEAN /\ doing \in Doings)
        => Me(c, p, fresh, doing) \in Mes
  BY DEF Me, Mes
<1> QED BY <1>1, <1>2

LEMMA HavingHas ==
  ASSUME NEW m, NEW n, NEW left, NEW g
  PROVE  /\ Having(m, n, left, g).me = m /\ Having(m, n, left, g).n = n
         /\ Having(m, n, left, g).plans = left /\ Having(m, n, left, g).grid = g
BY DEF Having

\* The parts of a situation an ant changes by itself.
LEMMA PartsOf ==
  ASSUME NEW o \in Fits
  PROVE  /\ o = Having(o.me, o.n, o.plans, o.grid)
         /\ o.me = Me(o.me.at, o.me.path, o.me.fresh, o.me.doing)
         /\ Cleared(o) = Having(Me(o.me.at, <<>>, FALSE, o.me.doing), o.n, o.plans, o.grid)
         /\ \A d : Doing(o, d) = Having(Me(o.me.at, o.me.path, o.me.fresh, d), o.n, o.plans, o.grid)
         /\ \A q : Led(o, q) = Having(Me(o.me.at, q, TRUE, o.me.doing), o.n, o.plans, o.grid)
         /\ [o EXCEPT !.plans = @ - 1] = Having(o.me, o.n, o.plans - 1, o.grid)
<1>1. o = Having(o.me, o.n, o.plans, o.grid)
  BY SituationIs DEF Having
<1>2. o.me = Me(o.me.at, o.me.path, o.me.fresh, o.me.doing)
  BY SituationIs DEF Me
<1>3. ASSUME NEW m PROVE [o EXCEPT !.me = m] = Having(m, o.n, o.plans, o.grid)
  <2>1. [Having(o.me, o.n, o.plans, o.grid) EXCEPT !.me = m] = Having(m, o.n, o.plans, o.grid)
    BY DEF Having
  <2> QED BY <1>1, <2>1
<1>4. [o EXCEPT !.plans = @ - 1] = Having(o.me, o.n, o.plans - 1, o.grid)
  <2>1. [Having(o.me, o.n, o.plans, o.grid) EXCEPT !.plans = @ - 1]
          = Having(o.me, o.n, o.plans - 1, o.grid)
    BY DEF Having
  <2> QED BY <1>1, <2>1
<1>5. ASSUME NEW c, NEW p, NEW fresh, NEW doing, NEW q, NEW new
      PROVE  /\ [Me(c, p, fresh, doing) EXCEPT !.path = q] = Me(c, q, fresh, doing)
             /\ [Me(c, p, fresh, doing) EXCEPT !.fresh = new] = Me(c, p, new, doing)
             /\ [Me(c, p, fresh, doing) EXCEPT !.doing = new] = Me(c, p, fresh, new)
  BY DEF Me
<1>6. ASSUME NEW q, NEW new
      PROVE  [o.me EXCEPT !.path = q, !.fresh = new] = Me(o.me.at, q, new, o.me.doing)
  <2>1. [o.me EXCEPT !.path = q] = Me(o.me.at, q, o.me.fresh, o.me.doing)
    BY <1>2, <1>5
  <2>2. [Me(o.me.at, q, o.me.fresh, o.me.doing) EXCEPT !.fresh = new]
          = Me(o.me.at, q, new, o.me.doing)
    BY <1>5
  <2> QED BY <2>1, <2>2
<1>7. ASSUME NEW d PROVE [o.me EXCEPT !.doing = d] = Me(o.me.at, o.me.path, o.me.fresh, d)
  <2>1. [Me(o.me.at, o.me.path, o.me.fresh, o.me.doing) EXCEPT !.doing = d]
          = Me(o.me.at, o.me.path, o.me.fresh, d)
    BY DEF Me
  <2> QED BY ONLY <1>2, <2>1
<1>8. Cleared(o) = Having(Me(o.me.at, <<>>, FALSE, o.me.doing), o.n, o.plans, o.grid)
  BY <1>3, <1>6 DEF Cleared
<1>9. \A d : Doing(o, d) = Having(Me(o.me.at, o.me.path, o.me.fresh, d), o.n, o.plans, o.grid)
  BY <1>3, <1>7 DEF Doing
<1>10. \A q : Led(o, q) = Having(Me(o.me.at, q, TRUE, o.me.doing), o.n, o.plans, o.grid)
  BY <1>3, <1>6 DEF Led
<1> QED BY <1>1, <1>2, <1>4, <1>8, <1>9, <1>10

\* A situation put together from its parts, with another task.
LEMMA DoneOver ==
  ASSUME NEW c, NEW p, NEW fresh, NEW doing, NEW n, NEW left, NEW g, NEW d
  PROVE  Doing(Having(Me(c, p, fresh, doing), n, left, g), d) = Having(Me(c, p, fresh, d), n, left, g)
<1>1. \A x, y : [Having(x, n, left, g) EXCEPT !.me = y] = Having(y, n, left, g)
  BY DEF Having
<1>2. [Me(c, p, fresh, doing) EXCEPT !.doing = d] = Me(c, p, fresh, d)
  BY DEF Me
<1>3. Having(Me(c, p, fresh, doing), n, left, g).me = Me(c, p, fresh, doing)
  BY ONLY HavingHas
<1> QED BY ONLY <1>1, <1>2, <1>3 DEF Doing

\* The route of an ant without one, and whether a route is current.
NoWay == <<>>
Old == FALSE
New == TRUE

\* A situation put together from its parts, without the route.
LEMMA RidOf ==
  ASSUME NEW s, NEW c, NEW p, NEW fresh, NEW doing, NEW n, NEW left, NEW g,
         s = Having(Me(c, p, fresh, doing), n, left, g)
  PROVE  Cleared(s) = Having(Me(c, NoWay, Old, doing), n, left, g)
<1>1. \A x, y : [Having(x, n, left, g) EXCEPT !.me = y] = Having(y, n, left, g)
  BY DEF Having
<1>2. \A q, new : [[Me(c, p, fresh, doing) EXCEPT !.path = q] EXCEPT !.fresh = new]
                    = Me(c, q, new, doing)
  <2>1. \A q : [Me(c, p, fresh, doing) EXCEPT !.path = q] = Me(c, q, fresh, doing)
    BY DEF Me
  <2>2. \A q, new : [Me(c, q, fresh, doing) EXCEPT !.fresh = new] = Me(c, q, new, doing)
    BY DEF Me
  <2> QED BY ONLY <2>1, <2>2
<1>3. Having(Me(c, p, fresh, doing), n, left, g).me = Me(c, p, fresh, doing)
  BY ONLY HavingHas
<1>4. Cleared(s) = [s EXCEPT !.me = [[s.me EXCEPT !.path = NoWay] EXCEPT !.fresh = Old]]
  BY DEF Cleared, NoWay, Old
<1>5. [[s.me EXCEPT !.path = NoWay] EXCEPT !.fresh = Old] = Me(c, NoWay, Old, doing)
  BY <1>2, <1>3
<1>6. [s EXCEPT !.me = Me(c, NoWay, Old, doing)] = Having(Me(c, NoWay, Old, doing), n, left, g)
  BY <1>1
<1>7. Cleared(s) = Having(Me(c, NoWay, Old, doing), n, left, g)
  BY ONLY <1>4, <1>5, <1>6
<1> QED BY <1>7

\* A situation put together from its parts, with another route.
LEMMA LedOf ==
  ASSUME NEW s, NEW c, NEW p, NEW fresh, NEW doing, NEW n, NEW left, NEW g, NEW q,
         s = Having(Me(c, p, fresh, doing), n, left, g)
  PROVE  Led(s, q) = Having(Me(c, q, New, doing), n, left, g)
<1>1. \A x, y : [Having(x, n, left, g) EXCEPT !.me = y] = Having(y, n, left, g)
  BY DEF Having
<1>2. [[Me(c, p, fresh, doing) EXCEPT !.path = q] EXCEPT !.fresh = New] = Me(c, q, New, doing)
  <2>1. [Me(c, p, fresh, doing) EXCEPT !.path = q] = Me(c, q, fresh, doing)
    BY DEF Me
  <2>2. [Me(c, q, fresh, doing) EXCEPT !.fresh = New] = Me(c, q, New, doing)
    BY DEF Me
  <2> QED BY ONLY <2>1, <2>2
<1>3. Having(Me(c, p, fresh, doing), n, left, g).me = Me(c, p, fresh, doing)
  BY ONLY HavingHas
<1>4. Led(s, q) = [s EXCEPT !.me = [[s.me EXCEPT !.path = q] EXCEPT !.fresh = New]]
  BY DEF Led, New
<1>5. [[s.me EXCEPT !.path = q] EXCEPT !.fresh = New] = Me(c, q, New, doing)
  BY <1>2, <1>3
<1>6. [s EXCEPT !.me = Me(c, q, New, doing)] = Having(Me(c, q, New, doing), n, left, g)
  BY <1>1
<1>7. Led(s, q) = Having(Me(c, q, New, doing), n, left, g)
  BY ONLY <1>4, <1>5, <1>6
<1> QED BY <1>7

\* Any task with no route, or with one that leads from here to where the task leads.
LEMMA FaresIs ==
  ASSUME NEW o \in Fits, NEW d \in Doings, NEW q \in Seq(Cells), NEW new \in BOOLEAN,
         new => Suits(o.me.at, q, d) /\ (q # <<>> => Leads(o.grid, o.me.at, q))
  PROVE  LET r == Having(Me(o.me.at, q, new, d), o.n, o.plans, o.grid)
         IN  r \in Rests(o) /\ r.me.doing = d /\ r.me.path = q /\ r.me.fresh = new
             /\ r.plans = o.plans
<1> DEFINE m == Me(o.me.at, q, new, d)
<1>1. m \in Mes /\ m.at = o.me.at /\ m.path = q /\ m.fresh = new /\ m.doing = d
  <2>1. o.me.at \in Cells
    BY SituationIs
  <2>2. m.at = o.me.at /\ m.path = q /\ m.fresh = new /\ m.doing = d
    BY ONLY MeHas DEF m
  <2>3. m \in Mes
    BY <2>1 DEF m, Me, Mes
  <2> QED BY ONLY <2>2, <2>3
<1> HIDE DEF m
<1>2. Ready(o.grid, m)
  BY <1>1, SituationIs DEF Ready, Ends, Walking
<1>3. Having(m, o.n, o.plans, o.grid) \in Rests(o)
  BY <1>1, <1>2, SituationIs, RestIs DEF Having
<1> QED BY <1>1, <1>3, HavingHas DEF m

\* Dropping the route.
LEMMA ClearedIs ==
  ASSUME NEW o \in Fits
  PROVE  /\ Cleared(o) \in Rests(o) /\ Cleared(o).me.doing = o.me.doing /\ Cleared(o).plans = o.plans
         /\ Cleared(o).me.path = <<>> /\ ~Cleared(o).me.fresh
<1> DEFINE none == <<>>
           no == FALSE
           m == Me(o.me.at, none, no, o.me.doing)
<1>1. Cleared(o) = Having(m, o.n, o.plans, o.grid)
  BY PartsOf
<1>2. none \in Seq(Cells) /\ no \in BOOLEAN /\ ~no
  OBVIOUS
<1> HIDE DEF none, no
<1>3. m \in Mes /\ m.at = o.me.at /\ m.path = none /\ m.fresh = no /\ m.doing = o.me.doing
  <2>1. o.me.at \in Cells /\ o.me.doing \in Doings
    BY SituationIs
  <2> QED BY ONLY <1>2, <2>1, MeHas DEF m
<1> HIDE DEF m
<1>4. Ready(o.grid, m)
  BY <1>2, <1>3, SituationIs DEF Ready, Ends, Walking
<1>5. Cleared(o) \in Rests(o)
  BY ZenonT(40), <1>1, <1>3, <1>4, SituationIs, RestIs DEF Having
<1> QED BY <1>1, <1>2, <1>3, <1>5, HavingHas DEF none

\* Taking up something else than an errand.
LEMMA DoingIs ==
  ASSUME NEW o \in Fits, NEW d \in Doings \ Errands
  PROVE  /\ Doing(o, d) \in Rests(o) /\ Doing(o, d).me.doing = d /\ Doing(o, d).plans = o.plans
         /\ Doing(o, d).me.fresh = o.me.fresh /\ Doing(o, d).me.path = o.me.path
<1>1. Doing(o, d) = Having(Me(o.me.at, o.me.path, o.me.fresh, d), o.n, o.plans, o.grid)
  BY PartsOf
<1>2. o.me.path \in Seq(Cells) /\ o.me.fresh \in BOOLEAN /\ d \in Doings
  BY SituationIs
<1>3. o.me.fresh => /\ Suits(o.me.at, o.me.path, d)
                    /\ o.me.path # <<>> => Leads(o.grid, o.me.at, o.me.path)
  BY SituationIs DEF Ready, Suits, Walking
<1> QED BY <1>1, <1>2, <1>3, FaresIs

\* A plan is spent.
LEMMA SpentIs ==
  ASSUME NEW o \in Fits, o.plans # 0
  PROVE  LET s == [o EXCEPT !.plans = @ - 1]
         IN  s \in Rests(o) /\ s.me = o.me /\ s.grid = o.grid /\ s.plans = o.plans - 1
<1> DEFINE s == [o EXCEPT !.plans = @ - 1]
<1>1. s = Having(o.me, o.n, o.plans - 1, o.grid) /\ o.plans - 1 \in Nat
  <2>1. o.plans \in Nat
    BY SituationIs
  <2>2. s = Having(o.me, o.n, o.plans - 1, o.grid)
    BY ONLY PartsOf DEF s
  <2> QED BY <2>1, <2>2
<1> HIDE DEF s
<1>2. s \in Rests(o)
  BY <1>1, SituationIs, RestIs DEF Having
<1> QED BY <1>1, <1>2, HavingHas DEF s

\* Setting out on a way that leads from here, to where the errand leads.
LEMMA LedIs ==
  ASSUME NEW o \in Fits, NEW p \in Seq(Cells), Leads(o.grid, o.me.at, p),
         Suits(o.me.at, p, o.me.doing)
  PROVE  LET r == Led(o, p)
         IN  r \in Rests(o) /\ r.me.doing = o.me.doing /\ r.me.path = p /\ r.me.fresh
             /\ r.plans = o.plans
<1> DEFINE r == Led(o, p)
           yes == TRUE
           m == Me(o.me.at, p, yes, o.me.doing)
<1>1. r = Having(m, o.n, o.plans, o.grid)
  BY PartsOf
<1>2. yes \in BOOLEAN /\ yes
  OBVIOUS
<1> HIDE DEF yes, r
<1>3. m \in Mes /\ m.at = o.me.at /\ m.path = p /\ m.fresh = yes /\ m.doing = o.me.doing
  <2>1. o.me.at \in Cells /\ o.me.doing \in Doings /\ p \in Seq(Cells)
    BY SituationIs
  <2>2. m.at = o.me.at /\ m.path = p /\ m.fresh = yes /\ m.doing = o.me.doing
    BY ONLY MeHas DEF m
  <2>3. m \in Mes
    BY <1>2, <2>1 DEF m, Me, Mes
  <2> QED BY ONLY <2>2, <2>3
<1> HIDE DEF m
<1>4. Ready(o.grid, m)
  BY <1>3, SituationIs DEF Ready, Ends, Walking
<1>5. r \in Rests(o)
  BY <1>1, <1>3, <1>4, SituationIs, RestIs DEF Having
<1>6. r.me = m /\ r.plans = o.plans
  BY ONLY <1>1, HavingHas
<1> QED BY ONLY <1>2, <1>3, <1>5, <1>6 DEF r

\* Setting out on a trip.
LEMMA TripIs ==
  ASSUME NEW o \in Fits, NEW p \in Seq(Cells), Leads(o.grid, o.me.at, p),
         IF p = <<>> THEN o.me.at = Site ELSE p[Len(p)] = Site
  PROVE  LET r == Doing(Led(o, p), "ToSource")
         IN  r \in Rests(o) /\ r.me.doing = "ToSource" /\ r.plans = o.plans
<1> DEFINE r == Doing(Led(o, p), "ToSource")
           yes == TRUE
           trip == "ToSource"
           m == Me(o.me.at, p, yes, trip)
<1>1. r = Having(m, o.n, o.plans, o.grid)
  <2> DEFINE l == Me(o.me.at, p, yes, o.me.doing)
  <2>1. Led(o, p) = Having(l, o.n, o.plans, o.grid)
    BY PartsOf
  <2>2. l.at = o.me.at /\ l.path = p /\ l.fresh = yes
    <3> HIDE DEF yes
    <3> QED BY MeHas
  <2>3. [l EXCEPT !.doing = trip] = m
    <3> HIDE DEF yes, trip
    <3> QED BY DEF Me
  <2>4. \A x, y : [Having(x, o.n, o.plans, o.grid) EXCEPT !.me = y]
                    = Having(y, o.n, o.plans, o.grid)
    BY DEF Having
  <2> HIDE DEF l, yes, trip, m
  <2>5. Doing(Having(l, o.n, o.plans, o.grid), trip) = Having(m, o.n, o.plans, o.grid)
    BY ONLY <2>3, <2>4, HavingHas DEF Doing
  <2> QED BY ONLY <2>1, <2>5 DEF trip
<1>2. yes \in BOOLEAN /\ yes /\ trip \in Doings /\ trip = "ToSource"
  BY DEF Doings
<1> HIDE DEF yes, trip, r
<1>3. m \in Mes /\ m.at = o.me.at /\ m.path = p /\ m.fresh = yes /\ m.doing = trip
  <2>1. o.me.at \in Cells /\ o.me.doing \in Doings /\ p \in Seq(Cells)
    BY SituationIs
  <2>2. m.at = o.me.at /\ m.path = p /\ m.fresh = yes /\ m.doing = trip
    BY ONLY MeHas DEF m
  <2>3. m \in Mes
    BY <1>2, <2>1 DEF m, Me, Mes
  <2> QED BY ONLY <2>2, <2>3
<1> HIDE DEF m
<1>4. Ready(o.grid, m)
  BY <1>2, <1>3, SituationIs DEF Ready, Ends, Suits, To, Walking
<1>5. r \in Rests(o)
  BY <1>1, <1>3, <1>4, SituationIs, RestIs DEF Having
<1>6. r.me.doing = trip /\ r.plans = o.plans
  BY <1>1, <1>3, HavingHas
<1> QED BY <1>2, <1>5, <1>6 DEF r
-----------------------------------------------------------------------------
(* Walks *)

\* A step along a route that can be walked leaves one that can be walked to the same end.
LEMMA OnwardIs ==
  ASSUME NEW o \in Fits, o.me.path # <<>>, Walkable(o.grid, o.me.path[1]),
         HasRoom(o.n, o.me.path[1])
  PROVE  /\ Onward(o) \in Walks(o) /\ Onward(o).me.at = o.me.path[1]
         /\ Onward(o).me.doing = o.me.doing /\ Onward(o).plans = o.plans
<1> DEFINE w == o.me.path
           d == w[1]
           new == o.me.fresh /\ Len(w) > 1
           n == Crossed(o.n, o.me.at, d)
           m == Me(d, Tail(w), new, o.me.doing)
           r == Having(m, n, o.plans, o.grid)
<1>1. /\ o.me.at \in Cells /\ w \in Seq(Cells) /\ o.me.fresh \in BOOLEAN /\ o.me.doing \in Doings
      /\ o.n \in [Cells -> Int] /\ o.plans \in Nat /\ o.grid \in Grids
      /\ Ready(o.grid, o.me) /\ FieldFits(o.grid)
  BY SituationIs
<1>2. d \in Cells /\ Tail(w) \in Seq(Cells) /\ new \in BOOLEAN /\ Len(w) \in Nat /\ Len(w) >= 1
      /\ Len(Tail(w)) = Len(w) - 1 /\ \A i \in 1 .. Len(w) - 1 : Tail(w)[i] = w[i + 1]
  BY <1>1
<1>3. Onward(o) = r
  <2>1. o.me = Me(o.me.at, w, o.me.fresh, o.me.doing) /\ o = Having(o.me, o.n, o.plans, o.grid)
    BY PartsOf
  <2>2. Onward(o) = [o EXCEPT !.me = m, !.n = n]
    BY DEF Onward, Me
  <2> HIDE DEF m, n
  <2>3. [Having(o.me, o.n, o.plans, o.grid) EXCEPT !.me = m] = Having(m, o.n, o.plans, o.grid)
    BY DEF Having
  <2>4. [Having(m, o.n, o.plans, o.grid) EXCEPT !.n = n] = r
    BY DEF Having
  <2> QED BY ONLY <2>1, <2>2, <2>3, <2>4
<1>4. /\ m.at = d /\ m.path = Tail(w) /\ m.fresh = new /\ m.doing = o.me.doing
  <2> HIDE DEF d, new
  <2> QED BY ONLY MeHas DEF m
<1>5. m \in Mes
  <2> HIDE DEF d, new, w
  <2> QED BY <1>1, <1>2 DEF m, Me, Mes
<1>6. Passable(o.grid.at[d])
  BY DEF Walkable
<1>7. Walking(m) => Leads(o.grid, d, Tail(w))
  <2>1. SUFFICES ASSUME new, NEW i \in 1 .. Len(Tail(w))
                 PROVE  /\ Tail(w)[i] \in Beside(IF i = 1 THEN d ELSE Tail(w)[i - 1])
                        /\ Walkable(o.grid, Tail(w)[i])
    BY <1>4 DEF Leads, Walking
  <2>2. Leads(o.grid, o.me.at, w)
    BY <1>1, <2>1 DEF Ready, Walking
  <2>3. i + 1 \in 1 .. Len(w) /\ i + 1 # 1 /\ (i + 1) - 1 = i /\ Tail(w)[i] = w[i + 1]
    BY <1>2, <2>1
  <2>4. w[i + 1] \in Beside(w[i]) /\ Walkable(o.grid, w[i + 1])
    BY <2>2, <2>3 DEF Leads
  <2>5. w[i] = IF i = 1 THEN d ELSE Tail(w)[i - 1]
    BY <1>2, <2>1
  <2> QED BY <2>3, <2>4, <2>5
<1>8. Ends(m)
  <2>1. SUFFICES ASSUME o.me.doing \in Errands, new
                 PROVE  Tail(w) # <<>> /\ Tail(w)[Len(Tail(w))] = To(o.me.doing)
    BY <1>4 DEF Ends, Suits
  <2>2. w[Len(w)] = To(o.me.doing)
    BY <1>1, <2>1 DEF Ready, Ends, Suits
  <2>3. Len(w) - 1 \in 1 .. Len(w) - 1 /\ Len(Tail(w)) = Len(w) - 1
    BY <1>2, <2>1
  <2>4. Tail(w)[Len(Tail(w))] = To(o.me.doing)
    BY <1>2, <2>2, <2>3
  <2>5. Tail(w) # <<>>
    <3> DEFINE t == Tail(w)
    <3>1. Len(t) >= 1
      BY <1>2, <2>3
    <3> HIDE DEF t
    <3>2. t # <<>>
      BY <3>1
    <3> QED BY <3>2 DEF t
  <2> QED BY <2>4, <2>5
<1>9. Ready(o.grid, m)
  BY <1>4, <1>6, <1>7, <1>8 DEF Ready
<1>10. n \in [Cells -> Int]
  BY <1>1, <1>2 DEF Crossed
<1> HIDE DEF m, n, new
<1>11. r \in Situations
  <2> HIDE DEF Mes, Grids
  <2> QED BY <1>1, <1>5, <1>10 DEF Situations, Having
<1>12. r.me = m /\ r.n = n /\ r.plans = o.plans /\ r.grid = o.grid
  BY HavingHas
<1> HIDE DEF r, d
<1>13. r \in Fits
  BY <1>1, <1>9, <1>11, <1>12 DEF Fits
<1>14. r \in Walks(o)
  BY <1>4, <1>12, <1>13 DEF Walks, n, d
<1> QED BY <1>3, <1>4, <1>12, <1>14 DEF d

\* An ant that follows its route walks, and is done when it has no way left or took its last step.
LEMMA MoveIs ==
  ASSUME NEW o \in Fits, NEW p \in Move(o)
  PROVE  /\ p[1] \in Walks(o) /\ p[1].me.doing = o.me.doing /\ p[1].plans = o.plans
         /\ p[2] => \/ o.me.path = <<>> /\ p[1] = o
                    \/ Len(o.me.path) = 1 /\ p[1].me.at = o.me.path[1]
<1>1. o \in Walks(o)
  BY DEF Walks
<1>2. CASE p = <<o, TRUE>> /\ o.me.path = <<>>
  BY <1>1, <1>2
<1>3. CASE p = <<o, FALSE>>
  BY <1>1, <1>3
<1>4. CASE /\ o.me.path # <<>> /\ Walkable(o.grid, o.me.path[1]) /\ HasRoom(o.n, o.me.path[1])
           /\ p = <<Onward(o), Len(o.me.path) = 1>>
  <2>1. p[1] = Onward(o) /\ (p[2] <=> Len(o.me.path) = 1)
    BY <1>4
  <2> QED BY <1>4, <2>1, OnwardIs
<1>5. \/ p = <<o, TRUE>> /\ o.me.path = <<>>
      \/ p = <<o, FALSE>>
      \/ /\ o.me.path # <<>> /\ Walkable(o.grid, o.me.path[1]) /\ HasRoom(o.n, o.me.path[1])
         /\ p = <<Onward(o), Len(o.me.path) = 1>>
  BY DEF Move
<1> QED BY <1>2, <1>3, <1>4, <1>5

LEMMA MovedIs ==
  ASSUME NEW o \in Fits, NEW r \in Moved(o)
  PROVE  r \in Walks(o) /\ r.me.doing = o.me.doing /\ r.plans = o.plans
<1>1. PICK p \in Move(o) : r = p[1]
  BY DEF Moved
<1> QED BY <1>1, MoveIs

\* A trip that is done ends at the site, unless the route was old.
LEMMA TripEnds ==
  ASSUME NEW o \in Fits, o.me.doing = "ToSource", NEW p \in Move(o), p[2]
  PROVE  p[1].me.at = Site \/ ~o.me.fresh
<1>1. Ends(o.me)
  BY SituationIs DEF Ready
<1>2. CASE o.me.path = <<>> /\ p[1] = o
  BY <1>1, <1>2 DEF Ends, Suits, Errands
<1>3. CASE Len(o.me.path) = 1 /\ p[1].me.at = o.me.path[1]
  <2>1. o.me.path # <<>>
    BY <1>3
  <2> QED BY <1>1, <1>3, <2>1 DEF Ends, Suits, Errands, To
<1> QED BY <1>2, <1>3, MoveIs

\* A way that a search found leads to its goal.
LEMMA PlannedIs ==
  ASSUME NEW o \in Fits, NEW a \in Ants, NEW target, NEW budget \in Nat,
         Planned(a, o, target, budget).status = "Complete"
  PROVE  LET p == Planned(a, o, target, budget).cells
         IN  /\ p \in Seq(Cells) /\ Leads(o.grid, o.me.at, p)
             /\ IF p = <<>> THEN o.me.at = target ELSE p[Len(p)] = target
<1> DEFINE p == Planned(a, o, target, budget).cells
<1>1. o.grid \in Grids /\ o.me.at \in Cells /\ Rank[a] \in Rankings /\ IsFiniteSet(Cells)
  BY SituationIs, AntsAre
<1>2. /\ p \in Seq(Cells) /\ Leads(o.grid, o.me.at, p)
      /\ p = <<>> => o.me.at = target
      /\ p # <<>> => p[Len(p)] = target
  BY <1>1, FindIs DEF Planned
<1> HIDE DEF p
<1>3. IF p = <<>> THEN o.me.at = target ELSE p[Len(p)] = target
  BY <1>2
<1> QED BY <1>2, <1>3 DEF p

\* The way home can be walked.
LEMMA HomewardIs ==
  ASSUME NEW o \in Fits, NEW a \in Ants, o.me.doing = "Returning"
  PROVE  Homeward(a, o) \in Rests(o) /\ Homeward(a, o).me.doing = o.me.doing
<1>1. FieldFits(o.grid) /\ o.me.at \in Cells /\ Rank[a] \in Rankings
  BY SituationIs, AntsAre
<1> DEFINE p == PathHome(field, o.grid, o.me.at, Rank[a])
<1>2. p \in Seq(Cells) /\ Leads(o.grid, o.me.at, p) /\ (p # <<>> => p[Len(p)] = Home)
  BY <1>1, PathHomeIs DEF FieldFits
<1>3. Homeward(a, o) = Led(o, p)
  BY DEF Homeward
<1> HIDE DEF p
<1>4. Suits(o.me.at, p, o.me.doing)
  BY <1>2 DEF Suits, To
<1> QED BY <1>2, <1>3, <1>4, LedIs

\* An ant on its way somewhere walks, plans and walks, or waits.
LEMMA RouteToIs ==
  ASSUME NEW o \in Fits, NEW a \in Ants, NEW target, NEW r \in RouteTo(a, o, target),
         o.me.doing \notin Errands \/ (o.me.doing = "Storing" /\ target = Heap)
  PROVE  r \in Walks(o) /\ r.me.doing = o.me.doing
<1> DEFINE way == Planned(a, o, target, Expansions)
           spent == [o EXCEPT !.plans = @ - 1]
<1>1. CASE Walking(o.me)
  BY <1>1, MovedIs DEF RouteTo
<1>2. CASE ~Walking(o.me) /\ (o.me.at = target \/ o.plans = 0)
  BY <1>2, StayRests, RestThenWalk DEF RouteTo
<1>3. CASE ~Walking(o.me) /\ ~(o.me.at = target \/ o.plans = 0)
  <2>1. spent \in Rests(o) /\ spent.me = o.me /\ spent.grid = o.grid
    BY <1>3, SpentIs
  <2>2. spent \in Walks(o) /\ spent \in Fits
    BY <2>1, RestThenWalk
  <2>3. r \in IF way.status = "Complete" THEN Moved(Led(spent, way.cells)) ELSE {spent}
    BY <1>3 DEF RouteTo
  <2> HIDE DEF spent
  <2>4. CASE way.status = "Complete"
    <3> DEFINE p == way.cells
               led == Led(spent, p)
    <3>1. /\ p \in Seq(Cells) /\ Leads(spent.grid, spent.me.at, p)
          /\ p # <<>> => p[Len(p)] = target
      BY <2>1, <2>4, PlannedIs, AntsAre
    <3> HIDE DEF p
    <3>2. Suits(spent.me.at, p, spent.me.doing)
      BY <2>1, <3>1 DEF Suits, To
    <3>3. led \in Rests(spent) /\ led.me.doing = o.me.doing
      BY <2>1, <2>2, <3>1, <3>2, LedIs
    <3>4. led \in Rests(o) /\ r \in Moved(led)
      BY <2>1, <2>3, <2>4, <3>3, RestThenWalk DEF p
    <3> HIDE DEF led
    <3> QED BY <3>3, <3>4, RestThenWalk, MovedIs
  <2>5. CASE way.status # "Complete"
    BY <2>1, <2>2, <2>3, <2>5
  <2> QED BY <2>4, <2>5
<1> QED BY <1>1, <1>2, <1>3

-----------------------------------------------------------------------------
(* Foragers *)

\* A trip to a source turns into a way home at the site, or with a route that had grown old
\* and no plan left.
Errand(o, r) ==
  o.me.doing = "ToSource" /\ r.me.doing = "Returning"
    => r.me.at = Site \/ (~o.me.fresh /\ o.plans = 0)

\* An ant that looks for a source waits, or sets out with a plan.
LEMMA ChooseSourceIs ==
  ASSUME NEW o \in Fits, NEW a \in Ants, o.me.doing = "Free", NEW r \in ChooseSource(a, o)
  PROVE  r \in Rests(o) /\ r.me.doing \in {"Free", "ToSource"}
<1> DEFINE way == Planned(a, o, Site, Expansions)
           spent == [o EXCEPT !.plans = @ - 1]
<1>1. CASE r = o
  BY <1>1, StayRests
<1>2. CASE o.plans # 0 /\ r = spent
  <2>1. spent \in Rests(o) /\ spent.me = o.me
    BY <1>2, SpentIs
  <2> HIDE DEF spent
  <2> QED BY <1>2, <2>1
<1>3. CASE o.plans # 0 /\ way.status = "Complete" /\ r = Doing(Led(spent, way.cells), "ToSource")
  <2>1. spent \in Rests(o) /\ spent.me = o.me /\ spent.grid = o.grid
    BY <1>3, SpentIs
  <2> HIDE DEF spent
  <2>2. /\ way.cells \in Seq(Cells) /\ Leads(spent.grid, spent.me.at, way.cells)
        /\ IF way.cells = <<>> THEN spent.me.at = Site ELSE way.cells[Len(way.cells)] = Site
    BY <1>3, <2>1, PlannedIs, AntsAre
  <2>3. spent \in Fits
    BY <2>1, RestThenWalk
  <2> HIDE DEF way
  <2>4. r \in Rests(spent) /\ r.me.doing = "ToSource"
    BY <1>3, <2>2, <2>3, TripIs
  <2> QED BY <2>1, <2>4, RestThenWalk
<1>4. \/ r = o
      \/ o.plans # 0 /\ r = spent
      \/ o.plans # 0 /\ way.status = "Complete" /\ r = Doing(Led(spent, way.cells), "ToSource")
  BY DEF ChooseSource
<1> QED BY <1>1, <1>2, <1>3, <1>4

\* A route that grew old is planned again: a trip without a plan left is left without a route.
LEMMA RefreshPathIs ==
  ASSUME NEW o \in Fits, NEW a \in Ants, o.me.doing \in {"ToSource", "Returning"}
  PROVE  LET r == RefreshPath(a, o)
         IN  /\ r \in Rests(o) /\ r.me.doing \in {"Free", o.me.doing}
             /\ o.me.doing = "ToSource" /\ r.me.doing = "ToSource" /\ ~r.me.fresh => o.plans = 0
<1> DEFINE r == RefreshPath(a, o)
           way == Planned(a, o, Site, Expansions)
           rid == Cleared(o)
           spent == [rid EXCEPT !.plans = @ - 1]
<1>1. CASE o.me.doing = "Returning"
  <2>1. r = Homeward(a, o)
    BY <1>1 DEF RefreshPath
  <2> HIDE DEF r
  <2>2. r \in Rests(o) /\ r.me.doing = "Returning"
    BY <1>1, <2>1, HomewardIs
  <2> QED BY <1>1, <2>2 DEF r
<1>2. CASE o.me.doing = "ToSource" /\ o.plans = 0
  BY <1>2, ClearedIs DEF RefreshPath
<1>3. CASE o.me.doing = "ToSource" /\ o.plans # 0
  <2>1. rid \in Rests(o) /\ rid.me.doing = "ToSource" /\ rid.plans = o.plans
    BY <1>3, ClearedIs
  <2>2. r = IF way.status = "Complete" THEN Led(spent, way.cells) ELSE Doing(spent, "Free")
    BY <1>3 DEF RefreshPath
  <2>3. rid \in Fits /\ rid.grid = o.grid /\ rid.me.at = o.me.at
    BY <2>1, RestThenWalk DEF Rests
  <2> HIDE DEF rid
  <2>4. spent \in Rests(rid) /\ spent.me = rid.me /\ spent.grid = rid.grid
    BY <1>3, <2>1, <2>3, SpentIs
  <2> HIDE DEF spent, r
  <2>5. spent \in Fits /\ spent \in Rests(o)
    BY <2>1, <2>4, RestThenWalk
  <2>6. CASE way.status = "Complete"
    <3>1. /\ way.cells \in Seq(Cells) /\ Leads(spent.grid, spent.me.at, way.cells)
          /\ IF way.cells = <<>> THEN spent.me.at = Site ELSE way.cells[Len(way.cells)] = Site
      <4>1. /\ way.cells \in Seq(Cells) /\ Leads(o.grid, o.me.at, way.cells)
            /\ IF way.cells = <<>> THEN o.me.at = Site ELSE way.cells[Len(way.cells)] = Site
        BY <2>6, PlannedIs, AntsAre
      <4> HIDE DEF way
      <4> QED BY <2>3, <2>4, <4>1
    <3> HIDE DEF way
    <3>0. Suits(spent.me.at, way.cells, spent.me.doing)
      BY <2>1, <2>4, <3>1 DEF Suits, To
    <3>2. r \in Rests(spent) /\ r.me.doing = "ToSource" /\ r.me.fresh
      BY <2>1, <2>2, <2>4, <2>5, <2>6, <3>0, <3>1, LedIs
    <3>3. r \in Rests(o)
      BY <2>5, <3>2, RestThenWalk
    <3> QED BY <1>3, <3>2, <3>3 DEF r
  <2>7. CASE way.status # "Complete"
    <3>1. r = Doing(spent, "Free") /\ "Free" \in Doings \ Errands
      BY <2>2, <2>7 DEF Doings, Errands
    <3>2. r \in Rests(spent) /\ r.me.doing = "Free"
      BY <2>5, <3>1, DoingIs
    <3>3. r \in Rests(o)
      BY <2>5, <3>2, RestThenWalk
    <3> QED BY <1>3, <3>2, <3>3 DEF r
  <2> QED BY <2>6, <2>7
<1> QED BY <1>1, <1>2, <1>3

\* A trip that has ended turns home or is given up.
LEMMA ArriveIs ==
  ASSUME NEW o \in Fits, NEW a \in Ants, NEW r \in Arrive(a, o)
  PROVE  r \in Rests(o) /\ r.me.doing \in {"Free", "Returning", "Storing"}
<1> DEFINE now(d) == Having(Me(o.me.at, o.me.path, o.me.fresh, d), o.n, o.plans, o.grid)
<1>1. ASSUME NEW d \in Doings, r = Cleared(Doing(o, d))
      PROVE  r \in Rests(o) /\ r.me.doing = d
  <2>1. Doing(o, d) = now(d)
    BY PartsOf
  <2>2. r = Having(Me(o.me.at, NoWay, Old, d), o.n, o.plans, o.grid)
    <3> DEFINE s == now(d)
    <3>1. s = Having(Me(o.me.at, o.me.path, o.me.fresh, d), o.n, o.plans, o.grid)
      OBVIOUS
    <3> HIDE DEF s
    <3> QED BY ONLY <1>1, <2>1, <3>1, RidOf DEF s
  <2>3. NoWay \in Seq(Cells) /\ Old \in BOOLEAN /\ ~Old
    BY DEF NoWay, Old
  <2> QED BY <2>2, <2>3, FaresIs
<1>2. CASE r = Homeward(a, Doing(o, "Returning"))
  <2> DEFINE back == "Returning"
             s == now(back)
             p == PathHome(field, o.grid, o.me.at, Rank[a])
  <2>1. Doing(o, back) = s
    BY PartsOf
  <2>2. s.grid = o.grid /\ s.me.at = o.me.at
    <3> HIDE DEF back
    <3> QED BY HavingHas, MeHas
  <2>3. r = Led(s, p)
    BY <1>2, <2>1, <2>2 DEF Homeward
  <2>4. p \in Seq(Cells) /\ Leads(o.grid, o.me.at, p) /\ (p # <<>> => p[Len(p)] = Home)
    <3>1. FieldFits(o.grid) /\ o.me.at \in Cells /\ Rank[a] \in Rankings
      BY SituationIs, AntsAre
    <3> QED BY <3>1, PathHomeIs DEF FieldFits
  <2>5. back \in Doings /\ back = "Returning"
    BY DEF Doings
  <2> HIDE DEF back, p
  <2>6. r = Having(Me(o.me.at, p, New, back), o.n, o.plans, o.grid)
    <3>1. s = Having(Me(o.me.at, o.me.path, o.me.fresh, back), o.n, o.plans, o.grid)
      OBVIOUS
    <3> HIDE DEF s
    <3> QED BY ONLY <2>3, <3>1, LedOf
  <2>7. Suits(o.me.at, p, back)
    BY <2>4, <2>5 DEF Suits, To
  <2>8. /\ New \in BOOLEAN
        /\ New => Suits(o.me.at, p, back) /\ (p # <<>> => Leads(o.grid, o.me.at, p))
    BY <2>4, <2>7 DEF New
  <2> DEFINE then == Having(Me(o.me.at, p, New, back), o.n, o.plans, o.grid)
  <2>9. then \in Rests(o) /\ then.me.doing = back
    <3> DEFINE current == New
    <3>1. /\ p \in Seq(Cells) /\ back \in Doings /\ current \in BOOLEAN
          /\ current => Suits(o.me.at, p, back) /\ (p # <<>> => Leads(o.grid, o.me.at, p))
      BY <2>4, <2>5, <2>8
    <3>2. then = Having(Me(o.me.at, p, current, back), o.n, o.plans, o.grid)
      OBVIOUS
    <3> HIDE DEF current, then, now, s
    <3> QED BY ONLY <3>1, <3>2, FaresIs, o \in Fits
  <2> HIDE DEF then
  <2>10. r = then
    BY <2>6 DEF then
  <2> QED BY ONLY <2>5, <2>9, <2>10
<1>3. \/ r = Cleared(Doing(o, "Storing")) \/ r = Cleared(Doing(o, "Free"))
      \/ r = Homeward(a, Doing(o, "Returning"))
  BY DEF Arrive
<1>4. "Storing" \in Doings /\ "Free" \in Doings
  BY DEF Doings
<1> HIDE DEF now
<1> QED BY <1>1, <1>2, <1>3, <1>4

\* Travelling, with a route planned again if it had grown old.
LEMMA TravelIs ==
  ASSUME NEW o \in Fits, NEW a \in Ants, o.me.doing \in {"ToSource", "Returning"},
         NEW r \in Travel(a, o)
  PROVE  r \in Walks(o) /\ Errand(o, r)
<1> DEFINE ready == IF o.me.fresh THEN o ELSE RefreshPath(a, o)
<1>1. /\ ready \in Rests(o) /\ ready.me.doing \in {"Free", o.me.doing}
      /\ o.me.doing = "ToSource" /\ ready.me.doing = "ToSource" /\ ~ready.me.fresh
           => o.plans = 0 /\ ~o.me.fresh
  BY RefreshPathIs, StayRests
<1>2. r \in IF ready.me.doing = "Free" THEN {ready}
            ELSE UNION {IF p[2] THEN Arrive(a, p[1]) ELSE {p[1]} : p \in Move(ready)}
  BY DEF Travel
<1> HIDE DEF ready
<1>3. ready \in Walks(o) /\ ready \in Fits
  BY <1>1, RestThenWalk
<1>4. CASE ready.me.doing = "Free"
  <2>1. r = ready
    BY <1>2, <1>4
  <2> QED BY <1>3, <1>4, <2>1 DEF Errand
<1>5. CASE ready.me.doing = o.me.doing
  <2>1. PICK p \in Move(ready) : r \in IF p[2] THEN Arrive(a, p[1]) ELSE {p[1]}
    BY <1>2, <1>5
  <2>2. p[1] \in Walks(ready) /\ p[1].me.doing = o.me.doing
    BY <1>3, <1>5, <2>1, MoveIs
  <2>3. p[1] \in Walks(o) /\ p[1] \in Fits
    BY <1>1, <2>2, RestThenWalk DEF Walks
  <2>4. CASE p[2]
    <3>1. r \in Rests(p[1])
      BY <2>1, <2>3, <2>4, ArriveIs
    <3>2. o.me.doing = "ToSource" => p[1].me.at = Site \/ ~ready.me.fresh
      BY <1>3, <1>5, <2>4, TripEnds
    <3>3. r \in Walks(o) /\ r.me.at = p[1].me.at
      BY <2>3, <3>1, WalkThenRest DEF Rests
    <3> QED BY <1>1, <1>5, <3>2, <3>3 DEF Errand
  <2>5. CASE ~p[2]
    <3>1. r = p[1]
      BY <2>1, <2>5
    <3> QED BY <2>2, <2>3, <3>1 DEF Errand
  <2> QED BY <2>4, <2>5
<1> QED BY <1>1, <1>4, <1>5

\* Dropping a route together with the task.
LEMMA GivesUpIs ==
  ASSUME NEW o \in Fits, NEW d \in Doings \ Errands
  PROVE  /\ Cleared(Doing(o, d)) \in Rests(o) /\ Cleared(Doing(o, d)).me.doing = d
         /\ Doing(Cleared(o), d) \in Rests(o) /\ Doing(Cleared(o), d).me.doing = d
         /\ Cleared(Doing(o, d)) \in Walks(o) /\ Cleared(o) \in Walks(o)
<1> DEFINE s == Doing(o, d)
           t == Cleared(o)
<1>1. s \in Rests(o) /\ s.me.doing = d
  BY DoingIs
<1>2. t \in Rests(o) /\ t \in Fits
  BY ClearedIs, RestThenWalk
<1> HIDE DEF s, t
<1>3. Cleared(s) \in Rests(s) /\ Cleared(s).me.doing = d
  BY <1>1, RestThenWalk, ClearedIs
<1>4. Doing(t, d) \in Rests(t) /\ Doing(t, d).me.doing = d
  BY <1>2, DoingIs
<1>5. Cleared(s) \in Rests(o) /\ Doing(t, d) \in Rests(o) /\ t \in Walks(o)
  BY <1>1, <1>2, <1>3, <1>4, RestThenWalk
<1>6. Cleared(s) \in Walks(o)
  BY <1>5, RestThenWalk
<1> QED BY <1>3, <1>4, <1>5, <1>6 DEF s, t

\* Storing is done at the heap, after a walk there.
LEMMA StoreIs ==
  ASSUME NEW o \in Fits, NEW a \in Ants, o.me.doing = "Storing", NEW r \in Store(a, o)
  PROVE  r \in Walks(o)
<1>1. "Free" \in Doings \ Errands
  BY DEF Doings, Errands
<1>2. CASE r = o
  BY <1>2, StayRests, RestThenWalk
<1>3. CASE r \in {Cleared(o), Cleared(Doing(o, "Free"))}
  BY <1>1, <1>3, GivesUpIs
<1>4. CASE r \in RouteTo(a, o, Heap)
  BY <1>4, RouteToIs
<1> QED BY <1>2, <1>3, <1>4 DEF Store

\* A scout goes home or walks another leg.
LEMMA ScoutIs ==
  ASSUME NEW o \in Fits, NEW a \in Ants, o.me.doing = "Scouting", NEW r \in Scout(a, o)
  PROVE  r \in Walks(o)
<1>1. "Free" \in Doings \ Errands
  BY DEF Doings, Errands
<1>2. CASE r = Cleared(Doing(o, "Free"))
  BY <1>1, <1>2, GivesUpIs
<1>3. CASE r \in Moved(o)
  BY <1>3, MovedIs
<1>4. ASSUME NEW leg, r \in RouteTo(a, Cleared(o), leg) PROVE r \in Walks(o)
  <2> DEFINE s == Cleared(o)
  <2>1. s \in Rests(o) /\ s.me.doing = "Scouting"
    BY ClearedIs
  <2>2. r \in RouteTo(a, s, leg)
    BY <1>4
  <2> HIDE DEF s
  <2>3. s.me.doing \notin Errands
    BY <2>1 DEF Errands
  <2> QED BY <2>1, <2>2, <2>3, RouteToIs, RestThenWalk
<1>5. r = Cleared(Doing(o, "Free")) \/ r \in Moved(o) \/ \E leg : r \in RouteTo(a, Cleared(o), leg)
  BY DEF Scout
<1> QED BY <1>2, <1>3, <1>4, <1>5

\* What a forager does in its turn.
LEMMA ForageIs ==
  ASSUME NEW o \in Fits, NEW a \in Ants, NEW r \in Forage(a, o),
         o.me.doing \in {"Free", "ToSource", "Returning", "Storing", "Scouting"}
  PROVE  r \in Walks(o) /\ Errand(o, r)
<1>0. "Free" \in Doings \ Errands /\ "Scouting" \in Doings \ Errands
  BY DEF Doings, Errands
<1>1. CASE o.me.doing = "Free"
  <2>1. CASE r = Cleared(Doing(o, "Scouting"))
    BY <1>0, <1>1, <2>1, GivesUpIs DEF Errand
  <2>2. ASSUME NEW p \in ChooseSource(a, o), p.me.doing = "ToSource", r \in Travel(a, p)
        PROVE  r \in Walks(o)
    <3>1. p \in Rests(o)
      BY <1>1, ChooseSourceIs
    <3> QED BY <2>2, <3>1, TravelIs, RestThenWalk
  <2>3. ASSUME r \in ChooseSource(a, o) PROVE r \in Walks(o)
    <3>1. r \in Rests(o)
      BY <1>1, <2>3, ChooseSourceIs
    <3> QED BY ONLY <3>1, RestThenWalk
  <2>4. \/ r = Cleared(Doing(o, "Scouting"))
        \/ \E p \in ChooseSource(a, o) : p.me.doing = "ToSource" /\ r \in Travel(a, p)
        \/ r \in ChooseSource(a, o)
    BY <1>1 DEF Forage
  <2>5. r \in Walks(o)
    BY <1>0, <2>1, <2>2, <2>3, <2>4, GivesUpIs
  <2> QED BY <1>1, <2>5 DEF Errand
<1>2. CASE o.me.doing = "Scouting"
  <2>1. r \in Scout(a, o)
    BY <1>2 DEF Forage
  <2> QED BY <1>2, <2>1, ScoutIs DEF Errand
<1>3. CASE o.me.doing = "ToSource"
  <2>1. r = Cleared(Doing(o, "Free")) \/ r \in Travel(a, o)
    BY <1>3 DEF Forage
  <2> QED BY <1>0, <1>3, <2>1, TravelIs, GivesUpIs DEF Errand
<1>4. CASE o.me.doing = "Returning"
  <2>1. r \in Travel(a, o)
    BY <1>4 DEF Forage
  <2> QED BY <1>4, <2>1, TravelIs
<1>5. CASE o.me.doing = "Storing"
  <2>1. r \in Store(a, o)
    BY <1>5 DEF Forage
  <2> QED BY <1>5, <2>1, StoreIs DEF Errand
<1> QED BY <1>1, <1>2, <1>3, <1>4, <1>5

-----------------------------------------------------------------------------
(* Workers *)

\* Where an ant stands, an open cell, nothing is built or dug: the face is soil.
LEMMA SetIs ==
  ASSUME NEW g \in Grids, NEW c \in Cells, NEW m \in Materials, Passable(g.at[c]) # Passable(m)
  PROVE  /\ Set(g, c, m) \in Grids /\ Set(g, c, m).revision = g.revision + 1
         /\ Set(g, c, m).at = [g.at EXCEPT ![c] = m]
BY DEF Set, Grids

\* A digger works the face from beside it or walks there.
LEMMA ExcavateIs ==
  ASSUME NEW o \in Fits, NEW a \in Ants, o.me.doing = "Excavate", Diggable(o.grid),
         NEW r \in Excavate(a, o)
  PROVE  (r \in Walks(o) \/ Alters(o, r)) /\ r.me.doing # "Returning"
<1> DEFINE s == [o EXCEPT !.grid = Set(@, Face, "Air")]
<1>1. CASE r = o
  BY <1>1, StayRests, RestThenWalk
<1>2. CASE r \in RouteTo(a, o, WorkCell(o))
  <2>1. o.me.doing \notin Errands
    BY DEF Errands
  <2> QED BY <1>2, <2>1, RouteToIs
<1>3. CASE r = Doing(s, "Hauling")
  <2> DEFINE g == Set(o.grid, Face, "Air")
             m == Me(o.me.at, o.me.path, o.me.fresh, "Hauling")
  <2>1. /\ o.grid \in Grids /\ Face \in Cells /\ o.me.at \in Cells /\ o.me.path \in Seq(Cells)
        /\ o.me.fresh \in BOOLEAN /\ o.plans \in Nat /\ o.n \in [Cells -> Int]
    BY SituationIs, AntsAre
  <2>2. g \in Grids
    <3>1. "Air" \in Materials /\ Passable(o.grid.at[Face]) # Passable("Air")
      BY DEF Materials, Passable, Diggable
    <3> QED BY <2>1, <3>1, SetIs
  <2>3. r = Having(m, o.n, o.plans, g)
    <3>1. s = Having(o.me, o.n, o.plans, g)
      <4>1. [Having(o.me, o.n, o.plans, o.grid) EXCEPT !.grid = Set(@, Face, "Air")]
              = Having(o.me, o.n, o.plans, g)
        <5> HIDE DEF Set
        <5> QED BY DEF Having
      <4> QED BY <4>1, PartsOf
    <3>2. \A d : [Me(o.me.at, o.me.path, o.me.fresh, o.me.doing) EXCEPT !.doing = d]
                   = Me(o.me.at, o.me.path, o.me.fresh, d)
      BY DEF Me
    <3>3. [o.me EXCEPT !.doing = "Hauling"] = m
      BY ONLY <3>2, PartsOf, o \in Fits DEF m
    <3>4. \A x, y : [Having(x, o.n, o.plans, g) EXCEPT !.me = y] = Having(y, o.n, o.plans, g)
      BY DEF Having
    <3> HIDE DEF m, s, g
    <3>5. Doing(s, "Hauling") = Having(m, o.n, o.plans, g)
      BY ONLY <3>1, <3>3, <3>4, HavingHas DEF Doing
    <3> QED BY <1>3, <3>5
  <2>4. m \in Mes /\ m.at = o.me.at /\ m.doing = "Hauling"
    BY <2>1, MeHas DEF Doings
  <2> HIDE DEF m, g
  <2>5. r \in Situations
    <3> HIDE DEF Mes, Grids
    <3> QED BY <2>1, <2>2, <2>3, <2>4 DEF Situations, Having
  <2>6. r.me = m /\ r.n = o.n /\ r.grid = g
    BY <2>3, HavingHas
  <2>7. Alters(o, r)
    BY <2>4, <2>5, <2>6 DEF Alters, Diggable, g
  <2> QED BY <2>4, <2>6, <2>7
<1> QED BY <1>1, <1>2, <1>3 DEF Excavate

\* A hauler tips its grain outside, where nobody stands, or swallows it.
LEMMA DeliverIs ==
  ASSUME NEW o \in Fits, NEW a \in Ants, o.me.doing = "Hauling", NEW r \in Deliver(a, o)
  PROVE  r \in Walks(o) \/ Alters(o, r)
<1>0. "Free" \in Doings \ Errands
  BY DEF Doings, Errands
<1>1. CASE r = Cleared(Doing([o EXCEPT !.grid = Spoiled(o)], "Free"))
  <2> DEFINE free == "Free"
             g == Spoiled(o)
             m == Me(o.me.at, NoWay, Old, free)
  <2>1. r = Having(m, o.n, o.plans, g)
    <3> DEFINE mine == Me(o.me.at, o.me.path, o.me.fresh, o.me.doing)
    <3>1. [Having(o.me, o.n, o.plans, o.grid) EXCEPT !.grid = g] = Having(o.me, o.n, o.plans, g)
      <4> HIDE DEF g
      <4> QED BY DEF Having
    <3>2. [o EXCEPT !.grid = g] = Having(mine, o.n, o.plans, g)
      <4> HIDE DEF g, mine
      <4>1. o = Having(o.me, o.n, o.plans, o.grid) /\ o.me = mine
        BY PartsOf DEF mine
      <4> QED BY ONLY <3>1, <4>1
    <3> HIDE DEF g
    <3>3. Cleared(Doing(Having(mine, o.n, o.plans, g), free)) = Having(m, o.n, o.plans, g)
      <4> DEFINE s == Having(Me(o.me.at, o.me.path, o.me.fresh, free), o.n, o.plans, g)
      <4> HIDE DEF free
      <4>1. Doing(Having(mine, o.n, o.plans, g), free) = s
        BY ONLY DoneOver DEF mine, s
      <4>2. Cleared(s) = Having(m, o.n, o.plans, g)
        <5> HIDE DEF s
        <5>1. s = Having(Me(o.me.at, o.me.path, o.me.fresh, free), o.n, o.plans, g)
          BY DEF s
        <5> QED BY ONLY <5>1, RidOf DEF m
      <4> HIDE DEF s, m, mine
      <4> QED BY ONLY <4>1, <4>2
    <3>4. r = Cleared(Doing([o EXCEPT !.grid = g], free))
      BY <1>1 DEF g, free
    <3> QED BY ONLY <3>2, <3>3, <3>4
  <2>2. NoWay \in Seq(Cells) /\ Old \in BOOLEAN /\ ~Old /\ free \in Doings
    BY DEF Doings, NoWay, Old
  <2> HIDE DEF free
  <2>3. m.at = o.me.at /\ m.path = NoWay /\ m.fresh = Old /\ m.doing = free
    BY ONLY MeHas DEF m
  <2>4. m \in Mes
    BY <2>2, SituationIs DEF m, Me, Mes
  <2> HIDE DEF m
  <2>5. CASE g = o.grid
    <3>1. Ready(o.grid, m)
      BY <2>2, <2>3, SituationIs DEF Ready, Ends, Walking
    <3>2. r \in Rests(o)
      BY <2>1, <2>3, <2>4, <2>5, <3>1, SituationIs, RestIs DEF Having
    <3> QED BY <3>2, RestThenWalk
  <2>6. CASE /\ g = Set(o.grid, Dump, "Soil") /\ o.grid.at[Dump] = "Sky" /\ o.me.at # Dump
             /\ Standing(Dump) = 0
    <3>1. g \in Grids
      <4>1. "Soil" \in Materials /\ Passable(o.grid.at[Dump]) # Passable("Soil")
        BY <2>6 DEF Materials, Passable
      <4>2. Set(o.grid, Dump, "Soil") \in Grids
        <5> DEFINE soil == "Soil"
        <5> HIDE DEF g, soil
        <5> QED BY <4>1, SetIs, SituationIs, AntsAre DEF soil
      <4> QED BY <2>6, <4>2
    <3> HIDE DEF g
    <3>2. r \in Situations
      <4>1. o.n \in [Cells -> Int] /\ o.plans \in Nat
        BY SituationIs
      <4> HIDE DEF Mes, Grids
      <4> QED BY <2>1, <2>4, <3>1, <4>1 DEF Situations, Having
    <3>3. r.me = m /\ r.n = o.n /\ r.grid = g
      BY <2>1, HavingHas
    <3> QED BY <2>3, <2>6, <3>2, <3>3 DEF Alters
  <2> QED BY <2>5, <2>6 DEF Spoiled
<1>2. CASE r \in Moved(o)
  BY <1>2, MovedIs
<1>3. CASE /\ Planned(a, o, Outlet, Expansions).status = "Complete"
           /\ r \in Moved(Led(o, Planned(a, o, Outlet, Expansions).cells))
  <2> DEFINE p == Planned(a, o, Outlet, Expansions).cells
             s == Led(o, p)
  <2>1. p \in Seq(Cells) /\ Leads(o.grid, o.me.at, p)
    BY <1>3, PlannedIs, AntsAre
  <2> HIDE DEF p
  <2>0. Suits(o.me.at, p, o.me.doing)
    BY DEF Suits, Errands
  <2>2. s \in Rests(o) /\ s \in Fits
    BY <2>0, <2>1, LedIs, RestThenWalk
  <2>3. r \in Moved(s)
    BY <1>3 DEF p
  <2> HIDE DEF s
  <2> QED BY <2>2, <2>3, MovedIs, RestThenWalk
<1>4. CASE o.me.at # Outlet
  <2>1. r \in Moved(IF ~Walking(o.me) /\ Planned(a, o, Outlet, Expansions).status = "Complete"
                    THEN Led(o, Planned(a, o, Outlet, Expansions).cells) ELSE o)
    BY <1>4 DEF Deliver
  <2> QED BY <1>2, <1>3, <2>1
<1>5. CASE o.me.at = Outlet
  BY <1>1, <1>5 DEF Deliver
<1> QED BY <1>4, <1>5

\* What a worker does in its turn.
LEMMA ProcessWorkerIs ==
  ASSUME NEW o \in Fits, NEW a \in Ants, NEW r \in ProcessWorker(a, o)
  PROVE  (r \in Walks(o) \/ Alters(o, r)) /\ Errand(o, r)
<1> DEFINE free == Doing(o, "Free")
           digs == Cleared(Doing(o, "Excavate"))
<1>0. /\ "Free" \in Doings \ Errands /\ "Excavate" \in Doings \ Errands
      /\ o.me.doing \in Doings
  BY SituationIs DEF Doings, Errands
<1>1. free \in Rests(o) /\ free \in Fits /\ free.me.doing = "Free"
  BY <1>0, DoingIs, RestThenWalk
<1>2. digs \in Rests(o) /\ digs \in Fits /\ digs.me.doing = "Excavate" /\ digs.grid = o.grid
  <2> DEFINE d == "Excavate"
  <2>1. digs \in Rests(o) /\ digs.me.doing = d
    <3> HIDE DEF d
    <3> QED BY <1>0, GivesUpIs DEF d
  <2> HIDE DEF digs
  <2> QED BY <2>1, RestThenWalk DEF Rests
<1> HIDE DEF free, digs
<1>3. CASE o.me.doing \in {"Returning", "Storing"}
  <2>1. r \in Forage(a, o)
    BY <1>3 DEF ProcessWorker
  <2> QED BY <1>3, <2>1, ForageIs
<1>4. CASE o.me.doing = "Hauling"
  <2>1. r \in Deliver(a, o)
    BY <1>4 DEF ProcessWorker
  <2> QED BY <1>4, <2>1, DeliverIs DEF Errand
<1>5. CASE o.me.doing \notin {"Returning", "Storing", "Hauling"}
  <2> DEFINE Idle == o.me.doing \in {"ToSource", "Scouting"}
  <2>1. \/ r \in Moved(free) \/ r \in RouteTo(a, free, Post)
        \/ r \in Forage(a, IF o.me.doing \in {"ToSource", "Scouting"} THEN o ELSE free)
        \/ r = free
        \/ Diggable(o.grid) /\ r \in Excavate(a, digs)
        \/ Diggable(o.grid) /\ o.me.doing = "Excavate" /\ r \in Excavate(a, o)
    BY <1>5 DEF ProcessWorker, free, digs
  <2>2. ASSUME r \in Moved(free) \/ r \in RouteTo(a, free, Post) \/ r = free
        PROVE  r \in Walks(o) /\ r.me.doing = "Free"
    <3>1. r = free => r \in Rests(free)
      BY <1>1, StayRests
    <3>2. (r \in Walks(free) \/ r = free) /\ r.me.doing = "Free"
      BY <1>0, <1>1, <2>2, MovedIs, RouteToIs
    <3> QED BY <1>1, <3>1, <3>2, RestThenWalk
  <2>3. ASSUME r \in Forage(a, IF o.me.doing \in {"ToSource", "Scouting"} THEN o ELSE free)
        PROVE  r \in Walks(o) /\ Errand(o, r)
    <3>1. CASE o.me.doing \in {"ToSource", "Scouting"}
      BY <2>3, <3>1, ForageIs
    <3>2. CASE o.me.doing \notin {"ToSource", "Scouting"}
      <4>1. r \in Walks(free)
        BY <1>1, <2>3, <3>2, ForageIs
      <4> QED BY <1>1, <3>2, <4>1, RestThenWalk DEF Errand
    <3> QED BY <3>1, <3>2
  <2>4. ASSUME Diggable(o.grid), r \in Excavate(a, digs)
        PROVE  (r \in Walks(o) \/ Alters(o, r)) /\ r.me.doing # "Returning"
    <3>1. (r \in Walks(digs) \/ Alters(digs, r)) /\ r.me.doing # "Returning"
      BY <1>2, <2>4, ExcavateIs
    <3> QED BY <1>2, <3>1, RestThenWalk
  <2>5. ASSUME Diggable(o.grid), o.me.doing = "Excavate", r \in Excavate(a, o)
        PROVE  r \in Walks(o) \/ Alters(o, r)
    BY <2>5, ExcavateIs
  <2> QED BY <2>1, <2>2, <2>3, <2>4, <2>5 DEF Errand
<1> QED BY <1>3, <1>4, <1>5

\* What the queen does in her turn.
LEMMA ProcessQueenIs ==
  ASSUME NEW o \in Fits, Queen \in Ants, o.me.doing \notin Errands, NEW r \in ProcessQueen(o)
  PROVE  r \in Walks(o) /\ r.me.doing = o.me.doing
<1>1. CASE Walking(o.me)
  <2>1. PICK p \in Move(o) : r = IF p[2] THEN Cleared(p[1]) ELSE p[1]
    BY <1>1 DEF ProcessQueen
  <2>2. p[1] \in Walks(o) /\ p[1] \in Fits /\ p[1].me.doing = o.me.doing
    BY MoveIs DEF Walks
  <2>3. Cleared(p[1]) \in Rests(p[1]) /\ Cleared(p[1]).me.doing = o.me.doing
    BY <2>2, ClearedIs
  <2>4. Cleared(p[1]) \in Walks(o)
    BY <2>2, <2>3, WalkThenRest
  <2> QED BY <2>1, <2>2, <2>3, <2>4
<1>2. CASE r = Cleared(o)
  BY <1>2, ClearedIs, RestThenWalk
<1>3. ASSUME NEW target, o.plans # 0,
             r = LET way == Planned(Queen, o, target, Expansions \div 2)
                     spent == [Cleared(o) EXCEPT !.plans = @ - 1]
                 IN  IF way.status = "Complete" THEN Led(spent, way.cells) ELSE spent
      PROVE  r \in Walks(o) /\ r.me.doing = o.me.doing
  <2> DEFINE rid == Cleared(o)
             way == Planned(Queen, o, target, Expansions \div 2)
             spent == [rid EXCEPT !.plans = @ - 1]
  <2>1. rid \in Rests(o) /\ rid.me.doing = o.me.doing /\ rid.plans = o.plans
    BY ClearedIs
  <2>2. r = IF way.status = "Complete" THEN Led(spent, way.cells) ELSE spent
    BY <1>3
  <2>3. rid \in Fits /\ rid.grid = o.grid /\ rid.me.at = o.me.at
    BY <2>1, RestThenWalk DEF Rests
  <2> HIDE DEF rid
  <2>4. spent \in Rests(rid) /\ spent.me = rid.me /\ spent.grid = rid.grid
    BY <1>3, <2>1, <2>3, SpentIs
  <2> HIDE DEF spent
  <2>5. spent \in Fits /\ spent \in Rests(o)
    BY <2>1, <2>4, RestThenWalk
  <2>6. CASE way.status = "Complete"
    <3>1. way.cells \in Seq(Cells) /\ Leads(o.grid, o.me.at, way.cells)
      BY <2>6, PlannedIs, AntsAre
    <3> HIDE DEF way
    <3>2. Leads(spent.grid, spent.me.at, way.cells)
      BY <2>3, <2>4, <3>1
    <3>3. Led(spent, way.cells) \in Rests(spent)
          /\ Led(spent, way.cells).me.doing = o.me.doing
      <4>1. Suits(spent.me.at, way.cells, spent.me.doing)
        BY <2>1, <2>4 DEF Suits
      <4> QED BY <2>1, <2>4, <2>5, <3>1, <3>2, <4>1, LedIs
    <3>4. r \in Rests(o)
      BY <2>2, <2>5, <2>6, <3>3, RestThenWalk
    <3> QED BY <2>2, <2>6, <3>3, <3>4, RestThenWalk
  <2>7. CASE way.status # "Complete"
    BY <2>1, <2>2, <2>4, <2>5, <2>7, RestThenWalk
  <2> QED BY <2>6, <2>7
<1>4. \/ Walking(o.me) \/ r = Cleared(o)
      \/ /\ o.plans # 0
         /\ \E target : r = LET way == Planned(Queen, o, target, Expansions \div 2)
                                spent == [Cleared(o) EXCEPT !.plans = @ - 1]
                            IN  IF way.status = "Complete" THEN Led(spent, way.cells) ELSE spent
  BY DEF ProcessQueen
<1> QED BY <1>1, <1>2, <1>3, <1>4

\* What the ant whose turn it is may do.
Turned(a, o) ==
  IF a \in Workers THEN ProcessWorker(a, o) ELSE IF a = Queen THEN ProcessQueen(o) ELSE Moved(o)

LEMMA TurnedIs ==
  ASSUME NEW o \in Fits, NEW a \in Ants, a \in Workers \/ o.me.doing \notin Errands,
         NEW r \in Turned(a, o)
  PROVE  /\ r \in Walks(o) \/ Alters(o, r)
         /\ Errand(o, r)
         /\ a \in Workers \/ r.me.doing = o.me.doing
<1>1. CASE a \in Workers
  BY <1>1, ProcessWorkerIs DEF Turned
<1>2. CASE a \notin Workers /\ a = Queen
  <2>1. r \in Walks(o) /\ r.me.doing = o.me.doing
    BY <1>2, ProcessQueenIs DEF Turned
  <2> QED BY <1>2, <2>1 DEF Errand
<1>3. CASE a \notin Workers /\ a # Queen
  <2>1. r \in Walks(o) /\ r.me.doing = o.me.doing
    BY <1>3, MovedIs DEF Turned
  <2> QED BY <1>3, <2>1 DEF Errand
<1> QED BY <1>1, <1>2, <1>3

-----------------------------------------------------------------------------
(* Crowds *)

Crowd(w, c) == {a \in Ants : w[a].at = c}

\* Ants can be counted, and an id is never the mark of dawn or evening.
LEMMA AntsCount ==
  /\ IsFiniteSet(Ants) /\ Dawn \notin Ants /\ Evening \notin Ants /\ Ants \subseteq Nat
  /\ Workers \subseteq Ants /\ Away \notin Cells
<1>1. Away \notin Cells
  BY CellIs, GridAssumption DEF Away, Cells
<1>2. 0 \notin Ants /\ -1 \notin Ants
  BY TrafficAssumption
<1> QED BY <1>1, <1>2, TrafficAssumption DEF Ants, Dawn, Evening

LEMMA CrowdIs ==
  ASSUME NEW w, NEW c
  PROVE  /\ IsFiniteSet(Crowd(w, c)) /\ Cardinality(Crowd(w, c)) \in Nat
         /\ Cardinality(Crowd(w, c)) = 0 => Crowd(w, c) = {}
<1>1. Crowd(w, c) \in SUBSET Ants
  BY DEF Crowd
<1>2. IsFiniteSet(Crowd(w, c))
  BY <1>1, AntsCount, FS_Subset
<1> QED BY <1>2, FS_CardinalityType, FS_EmptySet

\* Nobody but ant a is elsewhere in v than in w.
OnlyMoves(w, v, a) == \A b \in Ants : b # a => v[b].at = w[b].at

\* What a crossing from d to e does to the crowd at c.
Shift(d, e, c) == (IF e = c THEN 1 ELSE 0) - (IF d = c THEN 1 ELSE 0)

\* Where one ant steps over, two crowds change by one.
LEMMA CrossIs ==
  ASSUME NEW w, NEW v, NEW a \in Ants, OnlyMoves(w, v, a), NEW c
  PROVE  Cardinality(Crowd(v, c)) = Cardinality(Crowd(w, c)) + Shift(w[a].at, v[a].at, c)
<1> DEFINE V == Crowd(v, c)
           W == Crowd(w, c)
<1>1. V \ {a} = W \ {a}
  BY DEF Crowd, OnlyMoves
<1>2. (a \in V <=> v[a].at = c) /\ (a \in W <=> w[a].at = c)
  BY DEF Crowd
<1>3. IsFiniteSet(V) /\ IsFiniteSet(W) /\ Cardinality(V) \in Nat /\ Cardinality(W) \in Nat
  BY CrowdIs
<1> HIDE DEF V, W
<1>4. /\ Cardinality(V \ {a}) = IF a \in V THEN Cardinality(V) - 1 ELSE Cardinality(V)
      /\ Cardinality(W \ {a}) = IF a \in W THEN Cardinality(W) - 1 ELSE Cardinality(W)
  BY <1>3, FS_RemoveElement
<1>5. Cardinality(V) = Cardinality(W) + Shift(w[a].at, v[a].at, c)
  <2>1. Cardinality(V \ {a}) = Cardinality(W \ {a})
    BY <1>1
  <2> DEFINE x == Cardinality(V)
             y == Cardinality(W)
  <2>2. x \in Int /\ y \in Int
    BY <1>3
  <2>3. (IF v[a].at = c THEN x - 1 ELSE x) = (IF w[a].at = c THEN y - 1 ELSE y)
    BY <1>2, <1>4, <2>1
  <2> HIDE DEF x, y
  <2>4. x = y + Shift(w[a].at, v[a].at, c)
    BY <2>2, <2>3 DEF Shift
  <2> QED BY <2>4 DEF x, y
<1> QED BY <1>5 DEF V, W

\* The count of a cell stays its crowd when an ant crosses into one with room.
LEMMA CountIs ==
  ASSUME NEW w, NEW v, NEW a \in Ants, OnlyMoves(w, v, a),
         NEW n \in [Cells -> Int], \A c \in Cells : n[c] = Cardinality(Crowd(w, c)),
         w[a].at \in Cells, v[a].at \in Cells, NEW k,
         \/ v[a].at = w[a].at /\ k = n
         \/ HasRoom(n, v[a].at) /\ k = Crossed(n, w[a].at, v[a].at)
  PROVE  /\ \A c \in Cells : k[c] = Cardinality(Crowd(v, c))
         /\ \A c \in Cells : Cardinality(Crowd(v, c)) > Room
                               => Cardinality(Crowd(v, c)) <= Cardinality(Crowd(w, c))
<1>1. ASSUME NEW c \in Cells
      PROVE  k[c] = n[c] + Shift(w[a].at, v[a].at, c)
  <2>1. CASE v[a].at = w[a].at /\ k = n
    BY <2>1 DEF Shift
  <2>2. CASE k = Crossed(n, w[a].at, v[a].at)
    BY <2>2 DEF Crossed, Shift
  <2> QED BY <2>1, <2>2
<1>2. ASSUME NEW c \in Cells
      PROVE  Cardinality(Crowd(v, c))
               = n[c] + Shift(w[a].at, v[a].at, c)
  <2>1. Cardinality(Crowd(v, c)) =
          Cardinality(Crowd(w, c)) + Shift(w[a].at, v[a].at, c)
    BY CrossIs
  <2> QED BY <2>1
<1>3. \A c \in Cells : k[c] = Cardinality(Crowd(v, c))
  BY <1>1, <1>2
<1>4. ASSUME NEW c \in Cells, Cardinality(Crowd(v, c)) > Room
      PROVE  Cardinality(Crowd(v, c)) <= Cardinality(Crowd(w, c))
  <2>1. n[c] \in Int /\ Room \in Nat /\ n[c] = Cardinality(Crowd(w, c))
    BY TrafficAssumption
  <2>2. CASE v[a].at = c /\ w[a].at # c
    <3>1. n[c] < Room
      BY <2>2 DEF HasRoom
    <3> QED BY <1>2, <1>4, <2>1, <2>2, <3>1 DEF Shift
  <2>3. CASE ~(v[a].at = c /\ w[a].at # c)
    BY <1>2, <2>1, <2>3 DEF Shift
  <2> QED BY <2>2, <2>3
<1> QED BY <1>3, <1>4

-----------------------------------------------------------------------------
(* Ticks *)

\* The next turn is an ant's that is there, or the evening.
LEMMA FollowingIs ==
  ASSUME NEW a
  PROVE  Following(a) = Evening \/ (Following(a) \in Ants /\ Here(Following(a)))
<1> DEFINE left == {b \in Ants : Here(b) /\ (a = Dawn \/ Before(a, b))}
<1>1. CASE left = {}
  BY <1>1 DEF Following
<1>2. CASE left # {}
  <2> DEFINE kind == [b \in left |-> Kind(b)]
  <2>1. PICK k \in left : \A b \in left : kind[k] <= kind[b]
    <3>1. kind \in [left -> Nat]
      BY DEF Kind
    <3> HIDE DEF kind, left
    <3> QED BY <1>2, <3>1, LeastKey
  <2> DEFINE alike == {b \in left : Kind(b) = Kind(k)}
             id == [b \in alike |-> b]
  <2>2. PICK f \in alike : \A b \in alike : id[f] <= id[b]
    <3>1. id \in [alike -> Nat] /\ alike # {}
      BY AntsCount
    <3> HIDE DEF id, alike
    <3> QED BY <3>1, LeastKey
  <2>3. ASSUME NEW c \in left PROVE c = f \/ Before(f, c)
    <3>1. Kind(f) <= Kind(c) /\ Kind(f) \in Nat /\ Kind(c) \in Nat /\ f \in Nat /\ c \in Nat
      BY <2>1, <2>2, AntsCount DEF Kind
    <3>2. Kind(f) = Kind(c) => f <= c
      BY <2>2
    <3> HIDE DEF left
    <3> QED BY <3>1, <3>2 DEF Before
  <2>4. Following(a) = CHOOSE b \in left : \A c \in left : c = b \/ Before(b, c)
    BY <1>2 DEF Following
  <2>5. Following(a) \in left
    <3> HIDE DEF left
    <3>1. \E b \in left : \A c \in left : c = b \/ Before(b, c)
      BY <2>2, <2>3 DEF left
    <3> QED BY <2>4, <3>1
  <2> QED BY <2>5
<1> QED BY <1>1, <1>2

\* An ant gives way to a walkable neighbour, or stays.
LEMMA GivesWayIs ==
  ASSUME NEW n \in [Cells -> Nat], NEW c \in Cells, NEW a \in Nat
  PROVE  LET d == GivesWay(n, c, a) IN d = c \/ (d \in Beside(c) /\ Walkable(grid, d))
<1> DEFINE round(i) == Step(c, ((i + a - 1) % 4) + 1)
           open == {i \in 1 .. 4 : Walkable(grid, round(i)) /\ HasRoom(n, round(i))}
           best == {i \in open : \A j \in open : n[round(i)] <= n[round(j)]}
<1>1. CASE open = {}
  BY <1>1 DEF GivesWay
<1>2. CASE open # {}
  <2>1. GivesWay(n, c, a) = round(Min(best))
    BY <1>2 DEF GivesWay
  <2>2. best \in SUBSET (1 .. 4)
    OBVIOUS
  <2>3. best # {}
    <3> DEFINE key == [i \in open |-> n[round(i)]]
    <3>1. \A i \in open : round(i) \in Cells
      BY DEF Walkable
    <3>2. key \in [open -> Nat]
      <4> HIDE DEF round, open
      <4> QED BY <3>1
    <3>3. PICK i \in open : \A j \in open : key[i] <= key[j]
      <4> HIDE DEF key, open
      <4> QED BY <1>2, <3>2, LeastKey
    <3>4. i \in best
      <4> HIDE DEF open, round
      <4> QED BY <3>3
    <3> QED BY <3>4
  <2>4. Min(best) \in best
    <3> HIDE DEF best
    <3>1. best \in SUBSET Nat
      BY <2>2
    <3> HIDE DEF best
    <3> QED BY <2>3, <3>1, MinIs
  <2> DEFINE i == Min(best)
             k == ((i + a - 1) % 4) + 1
  <2>5. i \in 1 .. 4 /\ Walkable(grid, round(i)) /\ round(i) = Step(c, k)
    <3> HIDE DEF i
    <3>1. i \in best
      BY <2>4 DEF i
    <3> QED BY <3>1
  <2> HIDE DEF i, best
  <2>6. k \in 1 .. 4
    BY <2>5
  <2> HIDE DEF k, round
  <2>7. round(i) \in Beside(c)
    BY <2>5, <2>6 DEF Beside, Walkable
  <2> QED BY <2>1, <2>5, <2>7 DEF i
<1> QED BY <1>1, <1>2

\* An ant in a crowd that gives way has a route of one cell.
LEMMA AsideIs ==
  ASSUME NEW a \in Ants, ant[a] \in Mes, Ready(grid, ant[a]), NEW n \in [Cells -> Nat]
  PROVE  LET r == Aside(a, [ant[a] EXCEPT !.path = IF Preempted(a) THEN <<>> ELSE @], n)
         IN  r \in Mes /\ r.at = ant[a].at /\ r.doing = ant[a].doing /\ Ready(grid, r)
<1> DEFINE w == ant[a]
           way == IF Preempted(a) THEN NoWay ELSE w.path
           m == Me(w.at, way, w.fresh, w.doing)
<1>1. /\ w.at \in Cells /\ w.path \in Seq(Cells) /\ w.fresh \in BOOLEAN /\ w.doing \in Doings
      /\ w = Me(w.at, w.path, w.fresh, w.doing)
  <2> HIDE DEF Cells, Doings
  <2> QED BY DEF Mes, Me
<1>2. [w EXCEPT !.path = IF Preempted(a) THEN <<>> ELSE @] = m
  <2>1. \A c, p, fresh, doing, q : [Me(c, p, fresh, doing) EXCEPT !.path = q] = Me(c, q, fresh, doing)
    BY DEF Me
  <2>2. [w EXCEPT !.path = IF Preempted(a) THEN <<>> ELSE @] = [w EXCEPT !.path = way]
    BY DEF NoWay
  <2> HIDE DEF way, w
  <2> QED BY ONLY <1>1, <2>1, <2>2 DEF m
<1>3. way \in Seq(Cells) /\ (w.doing \in Errands => way = w.path)
      /\ (way # <<>> => way = w.path)
  BY <1>1 DEF Preempted, NoWay, Errands
<1> HIDE DEF way
<1>4. m.at = w.at /\ m.path = way /\ m.fresh = w.fresh /\ m.doing = w.doing
  BY ONLY MeHas DEF m
<1>5. m \in Mes
  BY <1>1, <1>3 DEF m, Me, Mes
<1>6. Ready(grid, m)
  BY <1>3, <1>4 DEF Ready, Ends, Suits, Walking
<1> DEFINE d == GivesWay(n, m.at, a)
           q == <<d>>
           yes == TRUE
           s == Me(w.at, q, yes, w.doing)
<1>7. ASSUME d # m.at, w.doing \notin Errands
      PROVE  /\ [m EXCEPT !.path = <<d>>, !.fresh = TRUE] = s
             /\ s \in Mes /\ s.at = w.at /\ s.doing = w.doing /\ Ready(grid, s)
  <2>1. d \in Beside(w.at) /\ Walkable(grid, d)
    BY <1>1, <1>4, <1>7, AntsCount, GivesWayIs
  <2>2. d \in Cells /\ q \in Seq(Cells) /\ Len(q) = 1 /\ q[1] = d
    BY <2>1 DEF Beside
  <2>3. yes \in BOOLEAN /\ yes
    OBVIOUS
  <2>4. [m EXCEPT !.path = <<d>>, !.fresh = TRUE] = s
    <3>1. \A c, p, fresh, doing, x : [Me(c, p, fresh, doing) EXCEPT !.path = x] = Me(c, x, fresh, doing)
      BY DEF Me
    <3>2. \A c, p, fresh, doing, x : [Me(c, p, fresh, doing) EXCEPT !.fresh = x] = Me(c, p, x, doing)
      BY DEF Me
    <3>3. [m EXCEPT !.path = <<d>>, !.fresh = TRUE] = [[m EXCEPT !.path = q] EXCEPT !.fresh = yes]
      OBVIOUS
    <3> HIDE DEF w, q, yes, d
    <3>4. [m EXCEPT !.path = q] = Me(w.at, q, w.fresh, w.doing)
      BY ONLY <3>1 DEF m
    <3>5. [Me(w.at, q, w.fresh, w.doing) EXCEPT !.fresh = yes] = s
      BY ONLY <3>2 DEF s
    <3> HIDE DEF m, s
    <3>6. [[m EXCEPT !.path = q] EXCEPT !.fresh = yes] = s
      BY ONLY <3>4, <3>5
    <3> QED BY <3>3, <3>6 DEF q, yes, d
  <2> HIDE DEF d, q, yes
  <2>5. s.at = w.at /\ s.path = q /\ s.fresh = yes /\ s.doing = w.doing
    BY ONLY MeHas DEF s
  <2>6. s \in Mes
    BY <1>1, <2>2, <2>3 DEF s, Me, Mes
  <2> HIDE DEF s
  <2>7. Leads(grid, w.at, q)
    BY <2>1, <2>2 DEF Leads
  <2>8. Ready(grid, s)
    BY <1>1, <1>7, <2>5, <2>7 DEF Ready, Ends, Suits, Walking
  <2> QED BY <2>4, <2>5, <2>6, <2>8 DEF q, yes, d
<1> HIDE DEF s, m
<1> DEFINE r == Aside(a, m, n)
<1>8. r = m \/ (w.doing \notin Errands /\ d # m.at /\ r = [m EXCEPT !.path = <<d>>, !.fresh = TRUE])
  BY <1>4 DEF Aside, Errands
<1> HIDE DEF d, r, w
<1>9. r \in Mes /\ r.at = w.at /\ r.doing = w.doing /\ Ready(grid, r)
  BY <1>4, <1>5, <1>6, <1>7, <1>8 DEF d
<1> QED BY <1>2, <1>9 DEF r, w

-----------------------------------------------------------------------------
(* The invariant *)

Beings == [at : Cells \cup {Away}, path : Seq(Cells), fresh : BOOLEAN, doing : Doings]

TypedInv ==
  /\ turn \in {Dawn, Evening} \cup Ants /\ grid \in Grids /\ ant \in [Ants -> Beings]
  /\ count \in [Cells -> Int] /\ plans \in Nat
\* The hall stays open, and a field that counts as current fits the ground.
GroundInv ==
  /\ grid.at[Home] = "Air" /\ FieldFits(grid)
  /\ field.revision \in Nat /\ field.revision <= grid.revision
\* Nobody is inside ground and every current route can be walked; only workers forage.
AntInv ==
  \A a \in Ants : /\ Here(a) => Ready(grid, ant[a])
                  /\ a \notin Workers => ant[a].doing \notin Errands
\* Between dawn and the next the count is that of the ants on each cell.
CountInv == turn # Dawn => \A c \in Cells : count[c] = Standing(c)
TurnInv == turn \in Ants => Here(turn)

TrafficInv == TypedInv /\ GroundInv /\ AntInv /\ CountInv /\ TurnInv

\* Who is there, and with what.
LEMMA HereIs ==
  ASSUME ant \in [Ants -> Beings], NEW a \in Ants
  PROVE  /\ Here(a) <=> ant[a].at \in Cells
         /\ Here(a) => ant[a] \in Mes
         /\ ant[a] \in Beings
<1>1. ant[a] \in Beings
  OBVIOUS
<1>2. Here(a) <=> ant[a].at \in Cells
  <2> HIDE DEF Cells, Away
  <2> QED BY <1>1, AntsCount DEF Beings, Here
<1>3. Here(a) => ant[a] \in Mes
  <2> HIDE DEF Cells, Away, Doings
  <2> QED BY <1>1, <1>2 DEF Beings, Mes
<1> QED BY <1>1, <1>2, <1>3

LEMMA StandingIs == \A c : Standing(c) = Cardinality(Crowd(ant, c))
BY DEF Standing, Crowd

\* What has just been put somewhere.
LEMMA PlacedIs ==
  ASSUME NEW c \in Cells \cup {Away}
  PROVE  /\ Placed(c) \in Beings /\ Placed(c).at = c /\ ~Placed(c).fresh
         /\ Placed(c).doing = "Free"
BY DEF Placed, Beings, Doings

LEMMA InitInv == Init => TrafficInv
<1> SUFFICES ASSUME Init PROVE TrafficInv
  OBVIOUS
<1> USE TrafficAssumption
<1> DEFINE start(a) == IF a = Queen THEN Home ELSE IF a \in DOMAIN Founded THEN Founded[a] ELSE Away
<1>1. \A a \in Ants : start(a) \in Cells \cup {Away} /\ ant[a] = Placed(start(a))
  BY DEF Init
<1>2. ant \in [Ants -> Beings]
  <2>1. ant = [a \in Ants |-> Placed(start(a))]
    BY DEF Init
  <2> HIDE DEF start, Placed, Beings
  <2> QED BY <1>1, <2>1, PlacedIs
<1>3. grid \in Grids /\ grid.at = Terrain /\ grid.revision = 1 /\ turn = Dawn /\ plans = 0
  BY DEF Init, Grids
<1>4. count \in [Cells -> Int]
  <2>1. count = [c \in Cells |-> Standing(c)]
    BY DEF Init
  <2>2. \A c \in Cells : Standing(c) \in Nat
    BY CrowdIs, StandingIs
  <2> QED BY <2>1, <2>2
<1>5. TypedInv
  BY <1>2, <1>3, <1>4 DEF TypedInv
<1>6. Walkable(grid, Home)
  BY <1>3 DEF Walkable, Passable
<1>7. GroundInv
  <2>1. field = Field(grid, Home)
    BY DEF Init
  <2>2. field.revision = grid.revision
    BY <2>1 DEF Field
  <2>3. Descends(grid, Home, field.steps)
    BY <1>6, <2>1, CellsFinite, FieldIs
  <2> QED BY <1>3, <2>2, <2>3 DEF GroundInv, FieldFits
<1>8. AntInv
  <2>1. ASSUME NEW a \in Ants
        PROVE  (Here(a) => Ready(grid, ant[a])) /\ ant[a].doing \notin Errands
    <3>1. ant[a].at = start(a) /\ ~ant[a].fresh /\ ant[a].doing = "Free"
      <4> HIDE DEF start
      <4> QED BY <1>1, PlacedIs
    <3>2. Here(a) => Passable(grid.at[start(a)])
      BY <1>3, <1>6, <3>1 DEF Here, Passable
    <3> QED BY <3>1, <3>2 DEF Ready, Ends, Walking, Errands
  <2> QED BY <2>1 DEF AntInv
<1>9. CountInv /\ TurnInv
  BY <1>3, AntsCount DEF CountInv, TurnInv
<1> QED BY <1>5, <1>7, <1>8, <1>9 DEF TrafficInv

\* No walk crowds a cell.
CrowdStep == \A c \in Cells : Standing(c)' > Room /\ Standing(c)' > Standing(c) => turn = Evening
\* A load is taken up at the site, or with a route that had grown old and no plan left.
ErrandStep ==
  \A a \in Workers :
    (ant[a].doing = "ToSource" /\ ant'[a].doing = "Returning" /\ ant'[a].at # Site)
      => (turn = a /\ ~ant[a].fresh /\ plans = 0)

\* The counts of two states in which everybody is in the same place are the same.
LEMMA SameCrowd ==
  ASSUME NEW w, NEW v, \A a \in Ants : v[a].at = w[a].at, NEW c
  PROVE  Crowd(v, c) = Crowd(w, c)
BY DEF Crowd

LEMMA BeginTickKeeps ==
  ASSUME TrafficInv, BeginTick
  PROVE  TrafficInv' /\ CrowdStep /\ ErrandStep
<1> USE TrafficAssumption
<1>1. TypedInv /\ GroundInv /\ AntInv /\ turn = Dawn /\ grid' = grid
  BY DEF TrafficInv, BeginTick
<1>2. count' = [c \in Cells |-> Standing(c)] /\ count' \in [Cells -> Nat] /\ count' \in [Cells -> Int]
  <2>1. count' = [c \in Cells |-> Standing(c)]
    BY DEF BeginTick
  <2>2. \A c \in Cells : Standing(c) \in Nat
    BY CrowdIs, StandingIs
  <2> QED BY <2>1, <2>2
<1> DEFINE m(a) == [ant[a] EXCEPT !.path = IF Preempted(a) THEN <<>> ELSE @]
<1>3. ant' = [a \in Ants |-> IF Here(a) THEN Aside(a, m(a), count') ELSE ant[a]]
  BY DEF BeginTick
<1>4. ASSUME NEW a \in Ants
      PROVE  /\ ant'[a] \in Beings /\ ant'[a].at = ant[a].at /\ ant'[a].doing = ant[a].doing
             /\ Here(a) => Ready(grid, ant'[a])
  <2>0. ant \in [Ants -> Beings]
    BY <1>1 DEF TypedInv
  <2>1. CASE Here(a)
    <3>1. ant'[a] = Aside(a, m(a), count')
      BY <1>3, <2>1
    <3>2. ant[a] \in Mes /\ Ready(grid, ant[a])
      BY <1>1, <2>0, <2>1, HereIs DEF AntInv
    <3>3. ant'[a] \in Mes /\ ant'[a].at = ant[a].at /\ ant'[a].doing = ant[a].doing
          /\ Ready(grid, ant'[a])
      BY ZenonT(40), <1>2, <3>1, <3>2, AsideIs
    <3>4. ant'[a] \in Beings
      <4> HIDE DEF Cells, Doings
      <4> QED BY ONLY <3>3 DEF Beings, Mes
    <3> QED BY <3>3, <3>4
  <2>2. CASE ~Here(a)
    BY <1>3, <2>0, <2>2
  <2> QED BY <2>1, <2>2
<1>5. ant' \in [Ants -> Beings]
  <2> HIDE DEF Beings, m
  <2> QED BY <1>3, <1>4
<1>6. \A c : Standing(c)' = Standing(c)
  <2>1. \A c : Crowd(ant', c) = Crowd(ant, c)
    BY <1>4, SameCrowd
  <2> QED BY <2>1 DEF Standing, Crowd
<1>7. turn' = Following(Dawn) /\ plans' \in 0 .. Plans
  BY DEF BeginTick
<1>8. \A a \in Ants : Here(a)' <=> Here(a)
  BY <1>4 DEF Here
<1>9. turn' \in {Dawn, Evening} \cup Ants /\ TurnInv'
  BY <1>7, <1>8, FollowingIs, AntsCount DEF TurnInv
<1>10. TypedInv'
  BY <1>1, <1>2, <1>5, <1>7, <1>9 DEF TypedInv
<1>11. GroundInv'
  <2>1. Walkable(grid, Home)
    BY <1>1 DEF GroundInv, Walkable, Passable
  <2>2. /\ Field(grid, Home).revision = grid.revision
        /\ Descends(grid, Home, Field(grid, Home).steps)
    <3>1. Field(grid, Home).revision = grid.revision
      BY DEF Field
    <3> QED BY <2>1, <3>1, CellsFinite, FieldIs
  <2>3. grid.revision \in Nat
    BY <1>1 DEF TypedInv, Grids
  <2> DEFINE f == Field(grid, Home)
  <2>4. field' = IF field.revision = grid.revision THEN field ELSE f
    BY DEF BeginTick
  <2>5. f.revision = grid.revision /\ Descends(grid, Home, f.steps)
    BY <2>2
  <2> HIDE DEF f
  <2> QED BY <1>1, <2>3, <2>4, <2>5 DEF GroundInv, FieldFits
<1>12. AntInv'
  BY <1>1, <1>4, <1>8 DEF AntInv
<1>13. CountInv'
  BY <1>2, <1>6 DEF CountInv
<1>14. CrowdStep
  <2>1. \A c \in Cells : Standing(c) \in Int
    BY CrowdIs, StandingIs
  <2> QED BY <1>6, <2>1 DEF CrowdStep
<1>15. ErrandStep
  BY <1>4 DEF ErrandStep, Ants
<1> QED BY <1>9, <1>10, <1>11, <1>12, <1>13, <1>14, <1>15 DEF TrafficInv

\* Ground that opens or closes makes every route old; where it closed nobody stood.
LEMMA AltersIs ==
  ASSUME NEW o \in Fits, NEW r, Alters(o, r)
  PROVE  /\ r.grid \in Grids /\ r.grid.revision = o.grid.revision + 1
         /\ o.grid.at[Home] = "Air" => r.grid.at[Home] = "Air"
         /\ \A c \in Cells : Passable(o.grid.at[c]) =>
              Passable(r.grid.at[c]) \/ (c = Dump /\ Standing(Dump) = 0)
<1>1. o.grid \in Grids /\ Face \in Cells /\ Dump \in Cells /\ Home \in Cells
  BY SituationIs, AntsAre
<1>2. CASE r.grid = Set(o.grid, Face, "Air") /\ o.grid.at[Face] = "Soil"
  <2>1. "Air" \in Materials /\ Passable(o.grid.at[Face]) # Passable("Air")
    BY <1>2 DEF Materials, Passable
  <2>2. /\ Set(o.grid, Face, "Air") \in Grids
        /\ Set(o.grid, Face, "Air").revision = o.grid.revision + 1
        /\ Set(o.grid, Face, "Air").at = [o.grid.at EXCEPT ![Face] = "Air"]
    BY <1>1, <2>1, SetIs
  <2>3. o.grid.at \in [Cells -> Materials]
    BY <1>1 DEF Grids
  <2>4. /\ r.grid \in Grids /\ r.grid.revision = o.grid.revision + 1
        /\ r.grid.at = [o.grid.at EXCEPT ![Face] = "Air"]
    BY ONLY <1>2, <2>2
  <2> QED BY <1>1, <2>3, <2>4 DEF Passable
<1>3. CASE /\ r.grid = Set(o.grid, Dump, "Soil") /\ o.grid.at[Dump] = "Sky" /\ Standing(Dump) = 0
  <2>1. "Soil" \in Materials /\ Passable(o.grid.at[Dump]) # Passable("Soil")
    BY <1>3 DEF Materials, Passable
  <2>2. /\ Set(o.grid, Dump, "Soil") \in Grids
        /\ Set(o.grid, Dump, "Soil").revision = o.grid.revision + 1
        /\ Set(o.grid, Dump, "Soil").at = [o.grid.at EXCEPT ![Dump] = "Soil"]
    BY <1>1, <2>1, SetIs
  <2>3. o.grid.at \in [Cells -> Materials]
    BY <1>1 DEF Grids
  <2>4. /\ r.grid \in Grids /\ r.grid.revision = o.grid.revision + 1
        /\ r.grid.at = [o.grid.at EXCEPT ![Dump] = "Soil"]
    BY ONLY <1>3, <2>2
  <2> QED BY <1>1, <1>3, <2>3, <2>4
<1> QED BY <1>2, <1>3 DEF Alters

LEMMA ActKeeps ==
  ASSUME TrafficInv, Act
  PROVE  TrafficInv' /\ CrowdStep /\ ErrandStep
<1> DEFINE a == turn
           o == [me |-> ant[a], n |-> count, plans |-> plans, grid |-> grid]
<1>1. TypedInv /\ GroundInv /\ AntInv /\ CountInv /\ TurnInv /\ a \in Ants /\ field' = field
  BY DEF TrafficInv, Act
<1>2. ant \in [Ants -> Beings] /\ count \in [Cells -> Int] /\ grid \in Grids /\ plans \in Nat
  BY <1>1 DEF TypedInv
<1>3. Here(a) /\ ant[a] \in Mes /\ ant[a].at \in Cells /\ Ready(grid, ant[a])
      /\ (a \in Workers \/ ant[a].doing \notin Errands)
  BY <1>1, <1>2, HereIs DEF TurnInv, AntInv
<1>4. o.me = ant[a] /\ o.n = count /\ o.plans = plans /\ o.grid = grid /\ o \in Situations
  <2> HIDE DEF Mes, Grids, a
  <2> QED BY <1>2, <1>3 DEF Situations
<1>5. PICK r \in Turned(a, o) :
        /\ grid' = r.grid /\ count' = r.n /\ plans' = r.plans
        /\ ant' = [b \in Ants |->
             LET m == IF b = a THEN r.me ELSE ant[b]
             IN  IF r.grid.revision = grid.revision THEN m ELSE [m EXCEPT !.fresh = FALSE]]
  BY DEF Act, Turned
<1>6. turn' = Following(turn)
  BY DEF Act
<1> HIDE DEF o
<1>7. o \in Fits
  BY <1>1, <1>3, <1>4 DEF Fits, GroundInv
<1>8. /\ r \in Walks(o) \/ Alters(o, r)
      /\ Errand(o, r)
      /\ a \in Workers \/ r.me.doing = ant[a].doing
  BY <1>1, <1>3, <1>4, <1>5, <1>7, TurnedIs
<1>9. r \in Situations
  BY <1>8 DEF Walks, Fits, Alters
<1>10. r.me \in Mes /\ r.n \in [Cells -> Int] /\ r.plans \in Nat /\ r.grid \in Grids
  <2> HIDE DEF Mes, Grids
  <2> QED BY <1>9 DEF Situations
<1>11. r.me \in Beings /\ r.me.at \in Cells
  <2> HIDE DEF Cells, Doings
  <2> QED BY <1>10 DEF Beings, Mes
\* Everybody but the ant whose turn it is has at most its route made old.
<1>12. ASSUME NEW b \in Ants
       PROVE  /\ ant'[b] \in Beings
              /\ ant'[b].at = IF b = a THEN r.me.at ELSE ant[b].at
              /\ ant'[b].doing = IF b = a THEN r.me.doing ELSE ant[b].doing
              /\ r.grid.revision # grid.revision => ~ant'[b].fresh
              /\ r.grid.revision = grid.revision => ant'[b] = IF b = a THEN r.me ELSE ant[b]
  <2> DEFINE m == IF b = a THEN r.me ELSE ant[b]
             no == FALSE
  <2>1. m \in Beings
    BY <1>2, <1>11
  <2>2. ant'[b] = IF r.grid.revision = grid.revision THEN m ELSE [m EXCEPT !.fresh = no]
    BY <1>5
  <2>3. /\ m.at = IF b = a THEN r.me.at ELSE ant[b].at
        /\ m.doing = IF b = a THEN r.me.doing ELSE ant[b].doing
    OBVIOUS
  <2>4. no \in BOOLEAN /\ ~no
    OBVIOUS
  <2> HIDE DEF m, no
  <2>5. /\ [m EXCEPT !.fresh = no] \in Beings /\ [m EXCEPT !.fresh = no].at = m.at
        /\ [m EXCEPT !.fresh = no].doing = m.doing /\ [m EXCEPT !.fresh = no].fresh = no
    <3> HIDE DEF Doings, Cells
    <3> QED BY <2>1, <2>4 DEF Beings
  <2> QED BY <2>1, <2>2, <2>3, <2>4, <2>5 DEF m
<1>13. ant' \in [Ants -> Beings]
  <2> HIDE DEF Beings
  <2> QED BY <1>5, <1>12
<1>14. \A b \in Ants : Here(b)' <=> Here(b)
  <2>1. r.me.at # Away /\ ant[a].at # Away
    BY <1>3, <1>11, AntsCount
  <2> QED BY <1>12, <2>1 DEF Here
<1>15. TypedInv' /\ TurnInv'
  <2>1. turn' \in {Dawn, Evening} \cup Ants /\ TurnInv'
    BY <1>6, <1>14, FollowingIs, AntsCount DEF TurnInv
  <2> QED BY <1>5, <1>10, <1>13, <2>1 DEF TypedInv
<1>16. \/ r.me.at = ant[a].at /\ r.n = count
       \/ HasRoom(count, r.me.at) /\ r.n = Crossed(count, ant[a].at, r.me.at)
  <2>1. \/ r.me.at = o.me.at /\ r.n = o.n
        \/ HasRoom(o.n, r.me.at) /\ r.n = Crossed(o.n, o.me.at, r.me.at)
    BY <1>8 DEF Walks, Alters
  <2>2. o.me.at = ant[a].at /\ o.n = count
    BY <1>4
  <2> QED BY ONLY <2>1, <2>2
<1>17. OnlyMoves(ant, ant', a)
  BY <1>12 DEF OnlyMoves
<1>18. turn # Dawn /\ \A c \in Cells : count[c] = Cardinality(Crowd(ant, c))
  BY <1>1, AntsCount, StandingIs DEF CountInv
<1>19. /\ \A c \in Cells : r.n[c] = Cardinality(Crowd(ant', c))
       /\ \A c \in Cells : Cardinality(Crowd(ant', c)) > Room
                             => Cardinality(Crowd(ant', c)) <= Cardinality(Crowd(ant, c))
  <2>1. ant'[a].at = r.me.at /\ r.me.at \in Cells
    BY <1>1, <1>11, <1>12
  <2> HIDE DEF a
  <2> QED BY <1>1, <1>2, <1>3, <1>16, <1>17, <1>18, <2>1, CountIs
<1>20. \A c : Standing(c)' = Cardinality(Crowd(ant', c))
  BY DEF Standing, Crowd
<1>21. CountInv'
  BY <1>5, <1>19, <1>20 DEF CountInv
<1>22. CrowdStep
  <2>1. \A c \in Cells : Cardinality(Crowd(ant', c)) \in Nat /\ Cardinality(Crowd(ant, c)) \in Nat
    BY CrowdIs
  <2> QED BY <1>19, <1>20, <2>1, StandingIs DEF CrowdStep
<1>23. ErrandStep
  <2>1. ASSUME NEW b \in Workers, ant[b].doing = "ToSource", ant'[b].doing = "Returning",
               ant'[b].at # Site
        PROVE  turn = b /\ ~ant[b].fresh /\ plans = 0
    <3>1. b \in Ants
      BY AntsCount
    <3>2. b = a
      BY <1>12, <2>1, <3>1
    <3>3. ant'[b].at = r.me.at /\ r.me.doing = "Returning"
      BY <1>12, <2>1, <3>1, <3>2
    <3> QED BY <1>4, <1>8, <2>1, <3>2, <3>3 DEF Errand
  <2> QED BY <2>1 DEF ErrandStep
<1>24. GroundInv' /\ \A b \in Ants : Here(b) => Ready(grid', ant'[b])
  <2>0. grid.revision \in Nat /\ grid.at[Home] = "Air" /\ field.revision <= grid.revision
        /\ field.revision \in Nat
    BY <1>1, <1>2 DEF GroundInv, Grids
  <2>1. CASE r \in Walks(o)
    <3>1. grid' = grid /\ r.grid.revision = grid.revision /\ Ready(grid, r.me)
      BY <1>4, <1>5, <2>1 DEF Walks, Fits
    <3>2. GroundInv'
      BY <1>1, <3>1 DEF GroundInv, FieldFits
    <3>3. \A b \in Ants : Here(b) => Ready(grid, ant'[b])
      BY <1>1, <1>12, <3>1 DEF AntInv
    <3> QED BY <3>1, <3>2, <3>3
  <2>2. CASE Alters(o, r)
    <3>1. /\ r.grid.revision = grid.revision + 1 /\ r.grid.at[Home] = "Air"
          /\ \A c \in Cells : Passable(grid.at[c]) =>
               Passable(r.grid.at[c]) \/ (c = Dump /\ Standing(Dump) = 0)
      BY <1>4, <1>7, <2>0, <2>2, AltersIs
    <3>2. GroundInv'
      BY <1>1, <1>5, <2>0, <3>1 DEF GroundInv, FieldFits
    <3>3. ASSUME NEW b \in Ants, Here(b) PROVE Ready(grid', ant'[b])
      <4>1. ~ant'[b].fresh /\ ant'[b].at = ant[b].at
        BY <1>4, <1>12, <2>0, <2>2, <3>1 DEF Alters
      <4>2. Passable(grid.at[ant[b].at]) /\ ant[b].at \in Cells
        BY <1>1, <1>2, <3>3, HereIs DEF AntInv, Ready
      <4>3. ~(ant[b].at = Dump /\ Standing(Dump) = 0)
        <5>1. b \in Crowd(ant, ant[b].at)
          BY DEF Crowd
        <5> QED BY <5>1, CrowdIs, StandingIs
      <4>4. Passable(grid'.at[ant[b].at])
        BY <1>5, <3>1, <4>2, <4>3
      <4> QED BY <4>1, <4>4 DEF Ready, Ends, Walking
    <3> QED BY <3>2, <3>3
  <2> QED BY <1>8, <2>1, <2>2
<1>25. AntInv'
  <2>1. \A b \in Ants : b \notin Workers => ant'[b].doing \notin Errands
    BY <1>1, <1>3, <1>8, <1>12 DEF AntInv
  <2> QED BY <1>14, <1>24, <2>1 DEF AntInv
<1> QED BY <1>15, <1>21, <1>22, <1>23, <1>24, <1>25 DEF TrafficInv

LEMMA EndTickKeeps ==
  ASSUME TrafficInv, EndTick
  PROVE  TrafficInv' /\ CrowdStep /\ ErrandStep
<1>1. /\ TypedInv /\ GroundInv /\ AntInv /\ CountInv /\ turn = Evening /\ turn' = Dawn /\ plans' = 0
      /\ grid' = grid /\ field' = field
  BY DEF TrafficInv, EndTick
<1>2. ant \in [Ants -> Beings] /\ count \in [Cells -> Int] /\ grid \in Grids
  BY <1>1 DEF TypedInv
<1>3. PICK born \in {0} \cup {a \in Workers \cup Gynes : ~Here(a)},
           dead \in {0} \cup {a \in Mortal : Here(a)} :
        /\ ant' = [a \in Ants |-> IF a = born THEN Placed(BirthCell(a))
                                  ELSE IF a = dead THEN Placed(Away) ELSE ant[a]]
        /\ count' = IF born = 0 THEN count ELSE [count EXCEPT ![BirthCell(born)] = @ + 1]
  BY DEF EndTick
<1>4. /\ Home \in Cells /\ Passable(grid.at[Home])
  BY <1>1, AntsAre DEF GroundInv, Passable
<1>5. ASSUME NEW a \in Ants
      PROVE  BirthCell(a) \in Cells /\ Passable(grid.at[BirthCell(a)])
  <2>1. count \in [Cells -> Nat]
    <3>1. turn # Dawn
      BY <1>1 DEF Dawn, Evening
    <3>2. \A c \in Cells : count[c] = Cardinality(Crowd(ant, c))
      BY <1>1, <3>1, StandingIs DEF CountInv
    <3>3. \A c \in Cells : count[c] \in Nat
      BY <3>2, CrowdIs
    <3> QED BY <1>2, <3>3
  <2> DEFINE d == GivesWay(count, Home, a)
  <2>2. a \in Nat
    BY AntsCount
  <2>3. d = Home \/ (d \in Beside(Home) /\ Walkable(grid, d))
    BY <1>4, <2>1, <2>2, GivesWayIs
  <2> HIDE DEF d
  <2>4. d \in Cells /\ Passable(grid.at[d])
    BY <1>4, <2>3 DEF Beside, Walkable
  <2>5. BirthCell(a) = IF HasRoom(count, Home) THEN Home ELSE d
    BY DEF BirthCell, d
  <2> QED BY <1>4, <2>4, <2>5
<1>6. ASSUME NEW a \in Ants
      PROVE  /\ ant'[a] \in Beings
             /\ ant'[a] # ant[a] => ant'[a].doing = "Free"
             /\ (Here(a))' => Ready(grid, ant'[a])
  <2>1. CASE a = born
    <3>1. ant'[a] = Placed(BirthCell(a))
      BY <1>3, <2>1
    <3>2. ant'[a] \in Beings /\ ant'[a].at = BirthCell(a) /\ ~ant'[a].fresh /\ ant'[a].doing = "Free"
      BY <1>5, <3>1, PlacedIs
    <3>3. Ready(grid, ant'[a])
      BY <1>5, <3>2 DEF Ready, Ends, Walking
    <3> QED BY <3>2, <3>3
  <2>2. CASE a # born /\ a = dead
    <3>1. ant'[a] = Placed(Away)
      BY <1>3, <2>2
    <3>2. ant'[a] \in Beings /\ ant'[a].at = Away /\ ant'[a].doing = "Free"
      BY <3>1, PlacedIs
    <3> QED BY <3>2 DEF Here
  <2>3. CASE a # born /\ a # dead
    <3>1. ant'[a] = ant[a]
      BY <1>3, <2>3
    <3> QED BY <1>1, <1>2, <3>1 DEF AntInv, Here
  <2> QED BY <2>1, <2>2, <2>3
<1>7. ant' \in [Ants -> Beings]
  <2> HIDE DEF Beings
  <2> QED BY <1>3, <1>6
<1>8. count' \in [Cells -> Int]
  <2>1. CASE born = 0
    BY <1>2, <1>3, <2>1
  <2>2. CASE born # 0
    <3>1. born \in Ants
      BY <2>2 DEF Ants
    <3>2. BirthCell(born) \in Cells
      BY <1>5, <3>1
    <3> HIDE DEF BirthCell
    <3> QED BY <1>2, <1>3, <2>2, <3>2
  <2> QED BY <2>1, <2>2
<1>9. TypedInv'
  BY <1>1, <1>7, <1>8 DEF TypedInv
<1>10. GroundInv'
  BY <1>1 DEF GroundInv, FieldFits
<1>11. AntInv'
  BY <1>1, <1>6 DEF AntInv, Errands
<1>12. CountInv' /\ TurnInv'
  BY <1>1, AntsCount DEF CountInv, TurnInv
<1>13. CrowdStep
  BY <1>1 DEF CrowdStep
<1>14. ErrandStep
  BY <1>6, AntsCount DEF ErrandStep
<1> QED BY <1>9, <1>10, <1>11, <1>12, <1>13, <1>14 DEF TrafficInv

\* What no step of the run changes stays.
LEMMA StutterKeeps ==
  ASSUME TrafficInv, UNCHANGED vars
  PROVE  TrafficInv'
BY DEF vars, TrafficInv, TypedInv, GroundInv, AntInv, CountInv, TurnInv, FieldFits, Here, Standing

-----------------------------------------------------------------------------
(* Theorems *)

\* Whatever the ground, the ants, the caps and the order of births, deaths, digging and tipping,
\* the invariant of World::step's handlers holds.
THEOREM TrafficInvariance == Spec => []TrafficInv
<1>1. Init => TrafficInv
  BY InitInv
<1>2. TrafficInv /\ [Next]_vars => TrafficInv'
  BY BeginTickKeeps, ActKeeps, EndTickKeeps, StutterKeeps DEF Next
<1> QED BY <1>1, <1>2, PTL DEF Spec

\* At any moment the ants can be saved and opened again: nobody is inside ground, and a route
\* that counts as current can be walked from where its ant is.
THEOREM ActorsAlwaysRestorable == Spec => []ActorsRestorable
<1>1. TrafficInv => ActorsRestorable
  <2> SUFFICES ASSUME TrafficInv, NEW a \in Ants, Here(a)
               PROVE  /\ Passable(grid.at[ant[a].at])
                      /\ Walking(ant[a]) =>
                           LET way == <<ant[a].at>> \o ant[a].path
                           IN  \A i \in 1 .. Len(ant[a].path) :
                                 way[i + 1] \in Beside(way[i]) /\ Walkable(grid, way[i + 1])
    BY DEF ActorsRestorable
  <2>1. Ready(grid, ant[a]) /\ ant[a] \in Mes
    BY HereIs DEF TrafficInv, TypedInv, AntInv
  <2>2. ant[a].path \in Seq(Cells) /\ ant[a].at \in Cells
    <3> HIDE DEF Cells
    <3> QED BY <2>1 DEF Mes
  <2> DEFINE p == ant[a].path
             c == ant[a].at
             way == <<c>> \o p
  <2>3. ASSUME Walking(ant[a]), NEW i \in 1 .. Len(p)
        PROVE  way[i + 1] \in Beside(way[i]) /\ Walkable(grid, way[i + 1])
    <3>1. p[i] \in Beside(IF i = 1 THEN c ELSE p[i - 1]) /\ Walkable(grid, p[i])
      BY <2>1, <2>3 DEF Ready, Leads
    <3> HIDE DEF p, c
    <3>2. p \in Seq(Cells) /\ <<c>> \in Seq(Cells) /\ Len(<<c>>) = 1
      BY <2>2 DEF p, c
    <3>3. way[i + 1] = p[i] /\ way[i] = IF i = 1 THEN c ELSE p[i - 1]
      BY <3>2
    <3> QED BY <3>1, <3>3
  <2> QED BY <2>1, <2>3 DEF Ready
<1> QED BY <1>1, TrafficInvariance, PTL

\* However ants queue, pass and step aside, no walk takes a cell past its cap: only a birth does.
THEOREM NoWalkCrowds == Spec => OnlyBirthsCrowd
<1>1. TrafficInv /\ [Next]_vars =>
        [\A c \in Cells : Standing(c)' > Room /\ Standing(c)' > Standing(c) => turn = Evening]_vars
  BY BeginTickKeeps, ActKeeps, EndTickKeeps DEF Next, CrowdStep
<1> QED BY <1>1, TrafficInvariance, PTL DEF Spec, OnlyBirthsCrowd

\* Whoever steps aside, digs, is called to another task or dies, a current route leads a forager
\* to its site, home with a load or on to a heap: finishing one is how it knows that it is there.
THEOREM ErrandRoutesAlwaysLead == Spec => []ErrandRoutesLeadThere
<1>1. TrafficInv => ErrandRoutesLeadThere
  <2> SUFFICES ASSUME TrafficInv, NEW a \in Workers, Here(a), ant[a].doing \in DOMAIN Goal,
                      Walking(ant[a])
               PROVE  ant[a].path[Len(ant[a].path)] = Goal[ant[a].doing]
    BY DEF ErrandRoutesLeadThere
  <2>1. Suits(ant[a].at, ant[a].path, ant[a].doing)
    BY AntsCount DEF TrafficInv, AntInv, Ready, Ends, Walking
  <2>2. ant[a].doing \in Errands /\ To(ant[a].doing) = Goal[ant[a].doing]
    BY DEF Goal, Errands, To
  <2> QED BY <2>1, <2>2 DEF Suits, Walking
<1> QED BY <1>1, TrafficInvariance, PTL

\* The only ant that takes up a load away from the site is one whose route grew old and that had
\* no plan left: where plans last, a worker that takes a load up has reached the site.
PlansLast ==
  [][\A a \in Workers : turn = a /\ ant[a].doing = "ToSource" /\ ~ant[a].fresh => plans > 0]_vars

THEOREM LoadsComeFromTheSite == Spec /\ PlansLast => LoadsTakenAtSite
<1>1. TrafficInv /\ [Next]_vars
        /\ [\A a \in Workers : turn = a /\ ant[a].doing = "ToSource" /\ ~ant[a].fresh => plans > 0]_vars
        => [\A a \in Workers :
              ant[a].doing = "ToSource" /\ ant'[a].doing = "Returning" => ant'[a].at = Site]_vars
  BY BeginTickKeeps, ActKeeps, EndTickKeeps DEF Next, ErrandStep
<1> QED BY <1>1, TrafficInvariance, PTL DEF Spec, PlansLast, LoadsTakenAtSite
================================================================================
