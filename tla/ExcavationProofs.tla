--------------------------- MODULE ExcavationProofs ---------------------------
(***************************************************************************)
(* Theorems about Excavation for any ground, rock, sites, number of        *)
(* workers and limits: crews stay within their limit and never share a     *)
(* face, every grain is accounted for, only what is planned is dug, and    *)
(* the one project of the moment always offers a face or is finished by    *)
(* the next review.                                                        *)
(***************************************************************************)
EXTENDS Excavation, Totals

-----------------------------------------------------------------------------
(* Spreading from cell to cell *)

\* What the assumption on the constants says of the grid and the sites, as the proofs cite it.
LEMMA Geometry ==
  /\ IsFiniteSet(Cells) /\ Cardinality(Cells) \in Nat /\ Near \in [Cells -> SUBSET Cells]
  /\ \A c, d \in Cells : c \in Near[d] => d \in Near[c]
  /\ \A c \in Cells : Beside[c] \in SUBSET Near[c]
  /\ \A s \in Sites : s.centre \in s.inner /\ s.inner \in SUBSET s.outer /\ s.outer \in SUBSET Cells
  /\ Rock \in SUBSET Cells /\ FirstAir \in SUBSET (Cells \ Rock) /\ Home \in FirstAir /\ 0 \notin Cells
  /\ Workers \in Nat \ {0} /\ Diggers \in Nat \ {0} /\ Apron \in Nat
BY ExcavationAssumption, FS_CardinalityType

\* The cells within that are next to those in S.
Fringe(S, within) == {c \in within \ S : Near[c] \cap S # {}}

\* f lists what is reached after each step.
Spreads(f, seeds, within) ==
  /\ f \in [0 .. Cardinality(Cells) -> SUBSET Cells]
  /\ f[0] = seeds \cap within
  /\ \A k \in 1 .. Cardinality(Cells) : f[k] = f[k - 1] \cup Fringe(f[k - 1], within)

\* Spread is the last of the sets so reached.
LEMMA SpreadSteps ==
  ASSUME NEW seeds, NEW within \in SUBSET Cells
  PROVE  \E f : Spreads(f, seeds, within) /\ Spread(seeds, within) = f[Cardinality(Cells)]
<1> DEFINE N == Cardinality(Cells)
           Body(f) == [n \in 0 .. N |->
                         IF n = 0 THEN seeds \cap within
                         ELSE LET near == f[n - 1]
                              IN  near \cup {c \in within \ near : Near[c] \cap near # {}}]
           reach == CHOOSE f : f = Body(f)
           S == SUBSET Cells
           next == [p \in Steps(N, S) |-> p[2] \cup Fringe(p[2], within)]
<1>1. N \in Nat
  BY Geometry
<1>2. Spread(seeds, within) = reach[N]
  BY DEF Spread
<1>3. next \in [Steps(N, S) -> S]
  BY DEF Steps, Fringe
<1>4. PICK f \in [0 .. N -> S] : Passed(f, seeds \cap within, next, N)
  <2>1. seeds \cap within \in S
    OBVIOUS
  <2> HIDE DEF next, S, N
  <2> QED BY ONLY <1>1, <1>3, <2>1, Iterated
<1>5. ASSUME NEW k \in 1 .. N PROVE f[k] = f[k - 1] \cup Fringe(f[k - 1], within)
  <2>1. k - 1 \in 0 .. N /\ f[k - 1] \in S
    BY <1>1
  <2>2. <<k, f[k - 1]>> \in Steps(N, S)
    BY <2>1 DEF Steps
  <2>3. f[k] = next[<<k, f[k - 1]>>]
    BY <1>4 DEF Passed
  <2> QED BY <2>2, <2>3
<1>6. f[0] = seeds \cap within
  BY <1>4 DEF Passed
<1>7. f = Body(f)
  <2>1. ASSUME NEW n \in 0 .. N PROVE f[n] = Body(f)[n]
    <3>1. CASE n = 0
      BY <1>6, <3>1
    <3>2. CASE n # 0
      <4>1. n \in 1 .. N
        BY <1>1, <3>2
      <4> QED BY <1>5, <4>1, <3>2 DEF Fringe
    <3> QED BY <3>1, <3>2
  <2> HIDE DEF S
  <2> QED BY <2>1
<1>8. reach = Body(reach)
  <2> HIDE DEF Body
  <2> QED BY <1>7
<1>9. \A k \in 1 .. N : reach[k] = reach[k - 1] \cup Fringe(reach[k - 1], within)
  <2> SUFFICES ASSUME NEW k \in 1 .. N
               PROVE  reach[k] = reach[k - 1] \cup Fringe(reach[k - 1], within)
    OBVIOUS
  <2> HIDE DEF reach
  <2>1. k \in 0 .. N /\ k # 0
    BY <1>1
  <2>2. reach[k] = Body(reach)[k]
    BY <1>8
  <2> QED BY <2>1, <2>2 DEF Fringe
<1>10. reach[0] = seeds \cap within
  <2> HIDE DEF reach
  <2>1. 0 \in 0 .. N
    BY <1>1
  <2>2. reach[0] = Body(reach)[0]
    BY <1>8
  <2> QED BY <2>1, <2>2
<1>11. reach \in [0 .. N -> S]
  <2> DEFINE Bad == {k \in 0 .. N : reach[k] \notin S}
  <2> HIDE DEF reach, Body
  <2>1. ASSUME NEW k \in Bad PROVE \E j \in Bad : j < k
    <3>1. k # 0
      BY <1>10
    <3>2. k \in 1 .. N /\ k - 1 \in 0 .. N /\ k - 1 < k
      BY <1>1, <3>1
    <3>3. reach[k - 1] \notin S
      BY <1>9, <3>2 DEF Fringe
    <3> QED BY <3>2, <3>3
  <2>2. Bad \in SUBSET (0 .. N)
    OBVIOUS
  <2>3. Bad = {}
    <3> HIDE DEF Bad, N
    <3> QED BY ONLY <1>1, <2>1, <2>2, NoneBadUpTo
  <2>4. \A k \in 0 .. N : reach[k] \in S
    BY <2>3
  <2>5. reach = [k \in 0 .. N |-> reach[k]]
    BY <1>8 DEF Body
  <2> QED BY <2>4, <2>5
<1> HIDE DEF reach
<1> QED BY <1>2, <1>9, <1>10, <1>11 DEF Spreads

\* What is reached grows from the seeds, inside what may be entered, and starts from nothing else.
LEMMA SpreadChain ==
  ASSUME NEW seeds, NEW within \in SUBSET Cells, NEW f, Spreads(f, seeds, within),
         NEW k \in 0 .. Cardinality(Cells)
  PROVE  /\ f[k] \in SUBSET within /\ (seeds \cap within) \in SUBSET f[k]
         /\ (seeds \cap within = {} => f[k] = {})
         /\ f[k] \in SUBSET f[Cardinality(Cells)]
<1> DEFINE N == Cardinality(Cells)
           Base == seeds \cap within
           Bad == {j \in 0 .. N : ~(f[j] \in SUBSET within /\ Base \in SUBSET f[j]
                                    /\ (Base = {} => f[j] = {}))}
           Late == {j \in 0 .. N : f[N - j] \notin SUBSET f[N]}
<1>1. N \in Nat
  BY Geometry
<1>2. f[0] = Base /\ \A j \in 1 .. N : f[j] = f[j - 1] \cup Fringe(f[j - 1], within)
  BY DEF Spreads
<1>3. Base \in SUBSET within
  OBVIOUS
<1> HIDE DEF N, Base
<1>4. Bad = {}
  <2>1. ASSUME NEW j \in Bad PROVE \E i \in Bad : i < j
    <3>1. j # 0
      BY <1>2, <1>3
    <3>2. j \in 1 .. N /\ j - 1 \in 0 .. N /\ j - 1 < j
      BY <1>1, <3>1
    <3>3. f[j] = f[j - 1] \cup Fringe(f[j - 1], within)
      BY <1>2, <3>2
    <3>4. j - 1 \in Bad
      BY <3>2, <3>3 DEF Fringe
    <3> QED BY <3>2, <3>4
  <2>2. Bad \in SUBSET (0 .. N)
    OBVIOUS
  <2> HIDE DEF Bad
  <2> QED BY ONLY <1>1, <2>1, <2>2, NoneBadUpTo
<1>5. Late = {}
  <2>1. ASSUME NEW j \in Late PROVE \E i \in Late : i < j
    <3>1. j # 0
      BY <1>1
    <3>2. j \in 1 .. N /\ j - 1 \in 0 .. N /\ j - 1 < j /\ N - (j - 1) \in 1 .. N
          /\ (N - (j - 1)) - 1 = N - j
      BY <1>1, <3>1
    <3>3. f[N - (j - 1)] = f[N - j] \cup Fringe(f[N - j], within)
      BY <1>2, <3>2
    <3>4. j - 1 \in Late
      BY <3>2, <3>3
    <3> QED BY <3>2, <3>4
  <2>2. Late \in SUBSET (0 .. N)
    OBVIOUS
  <2> HIDE DEF Late
  <2> QED BY ONLY <1>1, <2>1, <2>2, NoneBadUpTo
<1>6. k \in 0 .. N /\ N - k \in 0 .. N /\ N - (N - k) = k
  BY <1>1 DEF N
<1>7. f[k] \in SUBSET f[N]
  BY <1>5, <1>6
<1>8. f[k] \in SUBSET within /\ Base \in SUBSET f[k] /\ (Base = {} => f[k] = {})
  BY <1>4, <1>6
<1> QED BY <1>7, <1>8 DEF N, Base

\* Spread contains its seeds, stays within, and is empty only without seeds.
LEMMA SpreadBounds ==
  ASSUME NEW seeds, NEW within \in SUBSET Cells
  PROVE  /\ Spread(seeds, within) \in SUBSET within
         /\ (seeds \cap within) \in SUBSET Spread(seeds, within)
         /\ Spread(seeds, within) # {} <=> seeds \cap within # {}
<1>1. PICK f : Spreads(f, seeds, within) /\ Spread(seeds, within) = f[Cardinality(Cells)]
  BY SpreadSteps
<1>2. Cardinality(Cells) \in 0 .. Cardinality(Cells)
  BY Geometry
<1> DEFINE last == f[Cardinality(Cells)]
<1> HIDE DEF last
<1>3. last \in SUBSET within /\ (seeds \cap within) \in SUBSET last
      /\ (seeds \cap within = {} => last = {})
  <2>1. /\ f[Cardinality(Cells)] \in SUBSET within
        /\ (seeds \cap within) \in SUBSET f[Cardinality(Cells)]
        /\ (seeds \cap within = {} => f[Cardinality(Cells)] = {})
    <3> DEFINE k == Cardinality(Cells)
    <3> HIDE DEF k
    <3>1. k \in 0 .. Cardinality(Cells)
      BY <1>2 DEF k
    <3>2. f[k] \in SUBSET within
      BY <1>1, <3>1, SpreadChain
    <3>3. (seeds \cap within) \in SUBSET f[k]
      BY ZenonT(40), <1>1, <3>1, SpreadChain
    <3>4. seeds \cap within = {} => f[k] = {}
      <4>1. Spreads(f, seeds, within)
        BY <1>1
      <4> QED BY <3>1, <4>1, SpreadChain, Zenon
    <3> QED BY <3>2, <3>3, <3>4 DEF k
  <2> QED BY <2>1 DEF last
<1>4. last # {} <=> seeds \cap within # {}
  BY <1>3
<1> QED BY <1>1, <1>3, <1>4 DEF last

\* More seeds and more room reach no less.
LEMMA SpreadGrows ==
  ASSUME NEW wider \in SUBSET Cells, NEW within \in SUBSET wider, NEW more, NEW seeds \in SUBSET more
  PROVE  Spread(seeds, within) \in SUBSET Spread(more, wider)
<1> DEFINE N == Cardinality(Cells)
<1>1. N \in Nat /\ within \in SUBSET Cells
  BY Geometry
<1>2. PICK f : Spreads(f, seeds, within) /\ Spread(seeds, within) = f[N]
  BY <1>1, SpreadSteps
<1>3. PICK g : Spreads(g, more, wider) /\ Spread(more, wider) = g[N]
  BY SpreadSteps
<1> DEFINE Bad == {k \in 0 .. N : f[k] \notin SUBSET g[k]}
<1>4. /\ f[0] = seeds \cap within /\ \A j \in 1 .. N : f[j] = f[j - 1] \cup Fringe(f[j - 1], within)
      /\ g[0] = more \cap wider /\ \A j \in 1 .. N : g[j] = g[j - 1] \cup Fringe(g[j - 1], wider)
  BY <1>2, <1>3 DEF Spreads
<1> HIDE DEF N
<1>5. ASSUME NEW k \in Bad PROVE \E j \in Bad : j < k
  <2>1. k # 0
    BY <1>4
  <2>2. k \in 1 .. N /\ k - 1 \in 0 .. N /\ k - 1 < k
    BY <1>1, <2>1
  <2>3. /\ f[k] = f[k - 1] \cup Fringe(f[k - 1], within)
        /\ g[k] = g[k - 1] \cup Fringe(g[k - 1], wider)
    BY <1>4, <2>2
  <2>4. k - 1 \in Bad
    BY <2>2, <2>3 DEF Fringe
  <2> QED BY <2>2, <2>4
<1>6. Bad \in SUBSET (0 .. N)
  OBVIOUS
<1>7. Bad = {}
  <2> HIDE DEF Bad
  <2> QED BY ONLY <1>1, <1>5, <1>6, NoneBadUpTo
<1>8. N \in 0 .. N
  BY <1>1
<1> QED BY <1>2, <1>3, <1>7, <1>8

\* There are as many steps as cells, so nothing next to what is reached is left out.
LEMMA SpreadClosed ==
  ASSUME NEW seeds, NEW within \in SUBSET Cells, NEW c \in within,
         Near[c] \cap Spread(seeds, within) # {}
  PROVE  c \in Spread(seeds, within)
<1> DEFINE N == Cardinality(Cells)
<1>1. N \in Nat /\ IsFiniteSet(Cells)
  BY Geometry
<1>2. PICK f : Spreads(f, seeds, within) /\ Spread(seeds, within) = f[N]
  BY SpreadSteps
<1>3. /\ f \in [0 .. N -> SUBSET Cells] /\ f[0] = seeds \cap within
      /\ \A j \in 1 .. N : f[j] = f[j - 1] \cup Fringe(f[j - 1], within)
  BY <1>2 DEF Spreads
<1> DEFINE Bad == {k \in 0 .. N : Fringe(f[k], within) # {} /\ ~(Cardinality(f[k]) >= k + 1)}
<1> HIDE DEF N
<1>4. \A k \in 0 .. N : IsFiniteSet(f[k]) /\ Cardinality(f[k]) \in Nat /\ Cardinality(f[k]) <= N
  BY <1>1, <1>3, FS_Subset, FS_CardinalityType DEF N
<1>5. ASSUME NEW k \in Bad PROVE \E j \in Bad : j < k
  <2>1. k # 0
    <3>1. CASE f[0] = {}
      BY <3>1 DEF Fringe
    <3>2. CASE f[0] # {}
      <4>1. 0 \in 0 .. N
        BY <1>1
      <4>2. Cardinality(f[0]) # 0
        BY <1>4, <3>2, <4>1, FS_EmptySet
      <4> QED BY <1>4, <4>1, <4>2
    <3> QED BY <3>1, <3>2
  <2>2. k \in 1 .. N /\ k - 1 \in 0 .. N /\ k - 1 < k /\ k \in 0 .. N
    BY <1>1, <2>1
  <2> DEFINE S == f[k - 1]
             T == f[k]
  <2>3. T = S \cup Fringe(S, within)
    BY <1>3, <2>2
  <2>4. /\ IsFiniteSet(S) /\ Cardinality(S) \in Nat /\ IsFiniteSet(T) /\ Cardinality(T) \in Nat
    BY <1>4, <2>2
  <2>5. Fringe(T, within) # {} /\ ~(Cardinality(T) >= k + 1)
    OBVIOUS
  <2> HIDE DEF S, T
  <2>6. Fringe(S, within) # {}
    BY <2>3, <2>5
  <2>7. S \in SUBSET T /\ S # T
    BY <2>3, <2>6 DEF Fringe
  <2>8. Cardinality(S) < Cardinality(T)
    BY <2>4, <2>7, FS_Subset
  <2>9. ~(Cardinality(S) >= (k - 1) + 1)
    BY <2>2, <2>4, <2>5, <2>8
  <2>10. k - 1 \in Bad
    BY <2>2, <2>6, <2>9 DEF S
  <2> QED BY <2>2, <2>10
<1>6. Bad \in SUBSET (0 .. N)
  OBVIOUS
<1>7. Bad = {}
  <2> HIDE DEF Bad
  <2> QED BY ONLY <1>1, <1>5, <1>6, NoneBadUpTo
<1>8. N \in 0 .. N
  BY <1>1
<1>9. Fringe(f[N], within) = {}
  <2>1. ~(Cardinality(f[N]) >= N + 1)
    BY <1>1, <1>4, <1>8
  <2> QED BY <1>7, <1>8, <2>1
<1> QED BY <1>2, <1>9 DEF Fringe

\* What leaves a set A on the way passes a cell outside A that is next to A.
LEMMA SpreadLeaves ==
  ASSUME NEW seeds, NEW within \in SUBSET Cells, NEW A, (seeds \cap within) \in SUBSET A,
         NEW c \in Spread(seeds, within), c \notin A
  PROVE  \E d \in Spread(seeds, within) : d \notin A /\ d \in within /\ Near[d] \cap A # {}
<1> DEFINE N == Cardinality(Cells)
<1>1. N \in Nat
  BY Geometry
<1>2. PICK f : Spreads(f, seeds, within) /\ Spread(seeds, within) = f[N]
  BY SpreadSteps
<1>3. /\ f[0] = seeds \cap within
      /\ \A j \in 1 .. N : f[j] = f[j - 1] \cup Fringe(f[j - 1], within)
  BY <1>2 DEF Spreads
<1>4. \A k \in 0 .. N : f[k] \in SUBSET f[N]
  BY <1>2, SpreadChain
<1> DEFINE Bad == {k \in 0 .. N : f[k] \notin SUBSET A}
<1> HIDE DEF N
<1>5. SUFFICES ASSUME \A d \in f[N] : d \notin A /\ d \in within => Near[d] \cap A = {}
               PROVE  FALSE
  BY <1>2
<1>6. ASSUME NEW k \in Bad PROVE \E j \in Bad : j < k
  <2>1. k # 0
    BY <1>3
  <2>2. k \in 1 .. N /\ k - 1 \in 0 .. N /\ k - 1 < k
    BY <1>1, <2>1
  <2>3. f[k] = f[k - 1] \cup Fringe(f[k - 1], within) /\ f[k] \in SUBSET f[N]
    BY <1>3, <1>4, <2>2
  <2>4. k - 1 \in Bad
    BY <1>5, <2>2, <2>3 DEF Fringe
  <2> QED BY <2>2, <2>4
<1>7. Bad \in SUBSET (0 .. N)
  OBVIOUS
<1>8. Bad = {}
  <2> HIDE DEF Bad
  <2> QED BY ONLY <1>1, <1>6, <1>7, NoneBadUpTo
<1>9. N \in 0 .. N
  BY <1>1
<1> QED BY <1>2, <1>8, <1>9

-----------------------------------------------------------------------------
(* What is open, and what the project still needs *)

AirInv == FirstAir \in SUBSET air /\ air \in SUBSET (Cells \ Rock)

\* What is connected is open and holds the founding chamber; ground is neither open nor rock.
LEMMA ConnectedFacts ==
  ASSUME AirInv
  PROVE  /\ Connected \in SUBSET air /\ Home \in Connected /\ Connected \in SUBSET Cells
         /\ Ground \in SUBSET Cells /\ Ground \cap air = {} /\ Ground \cap Rock = {}
<1>1. air \in SUBSET Cells /\ Home \in air
  BY Geometry DEF AirInv
<1>2. Connected \in SUBSET air /\ ({Home} \cap air) \in SUBSET Connected
  BY <1>1, SpreadBounds DEF Connected
<1>3. Home \in Connected
  BY <1>1, <1>2
<1>4. Ground \in SUBSET Cells /\ Ground \cap air = {} /\ Ground \cap Rock = {}
  BY DEF Ground
<1> QED BY <1>1, <1>2, <1>3, <1>4

\* Opening cells disconnects none and turns none back into ground.
LEMMA AirGrows ==
  ASSUME AirInv, AirInv', air \in SUBSET air'
  PROVE  /\ Connected \in SUBSET Connected' /\ Ground' \in SUBSET Ground
<1>1. air \in SUBSET Cells /\ air' \in SUBSET Cells
  BY DEF AirInv
<1>2. Connected \in SUBSET Connected'
  BY <1>1, SpreadGrows DEF Connected
<1>3. Ground' \in SUBSET Ground
  BY DEF Ground
<1> QED BY <1>2, <1>3

\* What the project needs is ground: along its passage or in its chamber.
LEMMA Needed ==
  ASSUME NEW rs, NEW ps
  PROVE  All(WorkOf(rs, ps))
           = ((IF PassageProject(rs, ps) = 0 THEN {} ELSE PassageCells(ps[PassageProject(rs, ps)]))
                \cup (IF Project(rs) = 0 THEN {} ELSE ChamberCells(rs[Project(rs)]))) \cap Ground
BY DEF All, WorkOf

\* FirstOf picks a member, or 0 when there is none.
LEMMA FirstIn ==
  ASSUME NEW n \in Nat, NEW S \in SUBSET (1 .. n)
  PROVE  IF S = {} THEN FirstOf(S) = 0 ELSE FirstOf(S) \in S
<1>1. CASE S = {}
  BY <1>1 DEF FirstOf
<1>2. CASE S # {}
  <2>1. \E m \in S : \A y \in S : m <= y
    <3>1. SUFFICES ASSUME \A m \in S : \E y \in S : ~(m <= y) PROVE FALSE
      OBVIOUS
    <3>2. S \in SUBSET (0 .. n)
      OBVIOUS
    <3>3. \A k \in S : \E j \in S : j < k
      BY <3>1
    <3>4. S = {}
      BY ONLY <3>2, <3>3, n \in Nat, NoneBadUpTo
    <3> QED BY <1>2, <3>4
  <2>2. Min(S) \in S
    BY <2>1 DEF Min
  <2> QED BY <1>2, <2>2 DEF FirstOf
<1> QED BY <1>1, <1>2

RoomRecord == [site : Sites, wide : BOOLEAN, complete : BOOLEAN]

\* A room's cells are cells.
LEMMA RoomInCells ==
  ASSUME NEW room \in RoomRecord
  PROVE  RoomCells(room) \in SUBSET Cells /\ room.site.inner \in SUBSET RoomCells(room)
         /\ room.site.centre \in RoomCells(room)
BY Geometry DEF RoomRecord, RoomCells

\* The project is one of the rooms that are not complete, its passage one of its unfinished ones.
LEMMA ProjectIn ==
  ASSUME NEW rs \in Seq(RoomRecord)
  PROVE  IF \A i \in DOMAIN rs : rs[i].complete THEN Project(rs) = 0
         ELSE Project(rs) \in DOMAIN rs /\ ~rs[Project(rs)].complete
<1> DEFINE S == {i \in DOMAIN rs : ~rs[i].complete}
<1>1. S \in SUBSET (1 .. Len(rs)) /\ Len(rs) \in Nat /\ 0 \notin S
  OBVIOUS
<1>2. IF S = {} THEN FirstOf(S) = 0 ELSE FirstOf(S) \in S
  <2> HIDE DEF S
  <2> QED BY <1>1, FirstIn
<1>3. Project(rs) = FirstOf(S)
  BY DEF Project
<1>4. CASE S = {}
  BY <1>2, <1>3, <1>4
<1>5. CASE S # {}
  BY <1>2, <1>3, <1>5
<1> QED BY <1>4, <1>5

\* The passage in work is the first unfinished one of the project's room, or there is none.
LEMMA PassageProjectIn ==
  ASSUME NEW Record, NEW rs, NEW ps \in Seq(Record)
  PROVE  IF \A i \in DOMAIN ps : ps[i].complete \/ ps[i].room # Project(rs)
         THEN PassageProject(rs, ps) = 0
         ELSE /\ PassageProject(rs, ps) \in DOMAIN ps
              /\ ~ps[PassageProject(rs, ps)].complete
              /\ ps[PassageProject(rs, ps)].room = Project(rs)
<1> DEFINE S == {i \in DOMAIN ps : ~ps[i].complete /\ ps[i].room = Project(rs)}
<1>1. S \in SUBSET (1 .. Len(ps)) /\ Len(ps) \in Nat /\ 0 \notin S
  OBVIOUS
<1>2. IF S = {} THEN FirstOf(S) = 0 ELSE FirstOf(S) \in S
  <2> HIDE DEF S
  <2> QED BY <1>1, FirstIn
<1>3. PassageProject(rs, ps) = FirstOf(S)
  BY DEF PassageProject
<1>4. CASE S = {}
  BY <1>2, <1>3, <1>4
<1>5. CASE S # {}
  BY <1>2, <1>3, <1>5
<1> QED BY <1>4, <1>5

\* While rooms and passages stay as they are, what is needed stays needed until it is cut.
LEMMA NeedLasts ==
  ASSUME AirInv, AirInv', air \in SUBSET air', UNCHANGED <<rooms, passages>>,
         rooms \in Seq(RoomRecord)
  PROVE  (All(WorkOf(rooms, passages)) \cap Ground') \in SUBSET All(WorkOf(rooms, passages))'
<1> DEFINE i == Project(rooms)
           k == PassageProject(rooms, passages)
           P == IF k = 0 THEN {} ELSE PassageCells(passages[k])
           C == IF i = 0 THEN {} ELSE ChamberCells(rooms[i])
<1>1. All(WorkOf(rooms, passages)) = (P \cup C) \cap Ground
  BY Needed
<1>2. i' = i /\ k' = k /\ P' = P
  BY DEF Project, PassageProject, PassageCells
<1>3. All(WorkOf(rooms, passages))' = (P' \cup C') \cap Ground'
  BY DEF All, WorkOf
<1>4. C \in SUBSET C'
  <2>1. CASE i = 0
    BY <2>1
  <2>2. CASE i # 0
    <3>1. rooms[i] \in RoomRecord
      <4>1. i \in DOMAIN rooms
        BY <2>2, ProjectIn
      <4> QED BY <4>1
    <3>2. RoomCells(rooms[i]) \in SUBSET Cells
      BY <3>1, RoomInCells
    <3> DEFINE room == rooms[i]
    <3>3. ChamberCells(rooms[i])' = Spread(RoomCells(room) \cap Connected', RoomCells(room) \ Rock)
      BY <1>2 DEF ChamberCells, RoomCells
    <3>4. ChamberCells(room) = Spread(RoomCells(room) \cap Connected, RoomCells(room) \ Rock)
      BY DEF ChamberCells
    <3>5. Connected \in SUBSET Connected'
      BY AirGrows
    <3>6. ChamberCells(rooms[i]) \in SUBSET ChamberCells(rooms[i])'
      <4> DEFINE R == RoomCells(room) \ Rock
                 E == RoomCells(room) \cap Connected
                 F == RoomCells(room) \cap Connected'
      <4>1. R \in SUBSET Cells /\ E \in SUBSET F /\ R \in SUBSET R
        BY <3>2, <3>5
      <4> HIDE DEF R, E, F
      <4>2. Spread(E, R) \in SUBSET Spread(F, R)
        BY ONLY <4>1, SpreadGrows
      <4> QED BY <3>3, <3>4, <4>2 DEF R, E, F
    <3> QED BY <1>2, <2>2, <3>6
  <2> QED BY <2>1, <2>2
<1>5. Ground' \in SUBSET Ground
  BY AirGrows
<1> HIDE DEF P, C
<1> QED BY <1>1, <1>2, <1>3, <1>4, <1>5

-----------------------------------------------------------------------------
(* Crews *)

WorkerRecord == [task : {"Excavate", "other"}, target : Cells \cup {0}, spoil : BOOLEAN,
                 alive : BOOLEAN]
Held == {w \in Ids : Digging(w)}
Apart == \A v, w \in Held : worker[v].target = worker[w].target => v = w
Claimed == \A w \in Held : worker[w].target \in Range(claims)
Planned ==
  \A w \in Held :
    worker[w].target \in Ground => worker[w].target \in All(WorkOf(rooms, passages))

\* During a tick every face that is held is claimed, and every held face that is still ground is
\* one the project needs.
CrewInv ==
  /\ turn \in 0 .. Workers + 1 /\ claims \in Seq(Cells) /\ Len(claims) <= Diggers
  /\ worker \in [Ids -> WorkerRecord] /\ Cardinality(Held) <= Diggers /\ Apart
  /\ turn # 0 => Claimed /\ Planned

WorkRecord == [fresh : BOOLEAN, approach : SUBSET Cells, chamber : SUBSET Cells]

\* The plan's cache is either stale or what would be computed now.
WorkInv == work \in WorkRecord /\ (work.fresh => work = WorkOf(rooms, passages))

\* A crew whose faces differ and are listed is no larger than the list.
LEMMA CrewSize ==
  ASSUME NEW list \in Seq(Cells), NEW crew, NEW face \in [crew -> Range(list)],
         \A v, w \in crew : face[v] = face[w] => v = w
  PROVE  IsFiniteSet(crew) /\ Cardinality(crew) <= Len(list)
<1> DEFINE n == Len(list)
           f == [i \in 1 .. n |-> list[i]]
           R == Range(list)
<1>1. n \in Nat /\ DOMAIN list = 1 .. n
  OBVIOUS
<1>2. R = {list[i] : i \in 1 .. n}
  BY <1>1 DEF Range
<1>3. f \in Surjection(1 .. n, R)
  BY <1>2 DEF Surjection
<1>4. IsFiniteSet(1 .. n) /\ Cardinality(1 .. n) = n
  <2> HIDE DEF n
  <2> QED BY <1>1, FS_Interval
<1>5. IsFiniteSet(R) /\ Cardinality(R) <= n
  <2> HIDE DEF n, R, f
  <2> QED BY <1>3, <1>4, FS_Surjection
<1>6. face \in Injection(crew, R)
  <2> HIDE DEF R
  <2> QED BY DEF Injection, IsInjective, R
<1>7. IsFiniteSet(crew) /\ Cardinality(crew) <= Cardinality(R)
  <2> HIDE DEF R
  <2> QED BY <1>5, <1>6, FS_Injection
<1>8. Cardinality(crew) \in Nat /\ Cardinality(R) \in Nat
  BY <1>5, <1>7, FS_CardinalityType
<1> HIDE DEF R
<1> QED BY <1>1, <1>5, <1>7, <1>8

\* The claims that are noted when a tick begins, worker by worker.
Notes(f, planned) ==
  /\ DOMAIN f = 0 .. Workers /\ f[0] = <<>>
  /\ \A w \in Ids :
       f[w] = IF Digging(w) /\ worker[w].target \in planned /\ Len(f[w - 1]) < Diggers
              THEN Append(f[w - 1], worker[w].target) ELSE f[w - 1]

\* Noted is the last of the lists of claims so made.
LEMMA NotedSteps ==
  ASSUME NEW planned \in SUBSET Cells, worker \in [Ids -> WorkerRecord]
  PROVE  \E f \in [0 .. Workers -> Seq(Cells)] : Notes(f, planned) /\ Noted(planned) = f[Workers]
<1> DEFINE N == Workers
           Takes(w, s) == Digging(w) /\ worker[w].target \in planned /\ Len(s) < Diggers
           Body(f) == [w \in 0 .. N |->
                         IF w = 0 THEN <<>>
                         ELSE IF Takes(w, f[w - 1]) THEN Append(f[w - 1], worker[w].target)
                              ELSE f[w - 1]]
           upTo == CHOOSE f : f = Body(f)
           S == Seq(Cells)
           next == [p \in Steps(N, S) |->
                      IF Takes(p[1], p[2]) THEN Append(p[2], worker[p[1]].target) ELSE p[2]]
<1>1. N \in Nat /\ <<>> \in S
  BY Geometry
<1>2. Noted(planned) = upTo[N]
  BY DEF Noted
<1>3. next \in [Steps(N, S) -> S]
  <2>1. ASSUME NEW p \in Steps(N, S) PROVE next[p] \in S
    <3>1. p[1] \in Ids /\ p[2] \in S
      BY DEF Steps, Ids
    <3>2. CASE Takes(p[1], p[2])
      <4>1. worker[p[1]].target \in Cells
        BY <3>2
      <4> QED BY <3>1, <3>2, <4>1
    <3>3. CASE ~Takes(p[1], p[2])
      BY <3>1, <3>3
    <3> QED BY <3>2, <3>3
  <2> QED BY <2>1
<1>4. PICK f \in [0 .. N -> S] : Passed(f, <<>>, next, N)
  <2> HIDE DEF next, S, N
  <2> QED BY ONLY <1>1, <1>3, Iterated
<1>5. f[0] = <<>>
  BY <1>4 DEF Passed
<1>6. ASSUME NEW w \in Ids
      PROVE  f[w] = IF Takes(w, f[w - 1]) THEN Append(f[w - 1], worker[w].target) ELSE f[w - 1]
  <2>1. w \in 1 .. N /\ w - 1 \in 0 .. N
    BY <1>1 DEF Ids
  <2>2. f[w - 1] \in S
    <3> HIDE DEF S
    <3> QED BY <2>1
  <2>3. <<w, f[w - 1]>> \in Steps(N, S)
    <3> HIDE DEF S
    <3> QED BY <2>1, <2>2 DEF Steps
  <2>4. f[w] = next[<<w, f[w - 1]>>]
    BY <1>4, <2>1 DEF Passed
  <2>5. next[<<w, f[w - 1]>>]
          = IF Takes(w, f[w - 1]) THEN Append(f[w - 1], worker[w].target) ELSE f[w - 1]
    <3> HIDE DEF S, Takes
    <3> QED BY <2>3
  <2> QED BY <2>4, <2>5
<1>7. f = Body(f)
  <2>1. ASSUME NEW w \in 0 .. N PROVE f[w] = Body(f)[w]
    <3>1. CASE w = 0
      BY <1>5, <3>1
    <3>2. CASE w # 0
      <4>1. w \in Ids
        BY <1>1, <3>2 DEF Ids
      <4> HIDE DEF Takes
      <4> QED BY <1>6, <4>1, <3>2
    <3> QED BY <3>1, <3>2
  <2>2. f = [w \in 0 .. N |-> f[w]]
    <3> HIDE DEF S
    <3> QED OBVIOUS
  <2> HIDE DEF S, Takes
  <2> QED BY <2>1, <2>2
<1>8. upTo = Body(upTo)
  <2> HIDE DEF Body
  <2> QED BY <1>7
<1>9. Notes(upTo, planned)
  <2> HIDE DEF upTo
  <2>1. DOMAIN upTo = 0 .. N
    BY <1>8
  <2>2. upTo[0] = <<>>
    <3>1. 0 \in 0 .. N
      BY <1>1
    <3>2. upTo[0] = Body(upTo)[0]
      BY <1>8
    <3> HIDE DEF Takes
    <3> QED BY <3>1, <3>2
  <2>3. ASSUME NEW w \in Ids
        PROVE  upTo[w] = IF Takes(w, upTo[w - 1]) THEN Append(upTo[w - 1], worker[w].target)
                         ELSE upTo[w - 1]
    <3>1. w \in 0 .. N /\ w # 0
      BY <1>1 DEF Ids
    <3>2. upTo[w] = Body(upTo)[w]
      BY <1>8
    <3> HIDE DEF Takes
    <3> QED BY <3>1, <3>2
  <2> QED BY <2>1, <2>2, <2>3 DEF Notes
<1>10. \A w \in 0 .. N : upTo[w] \in S
  <2> DEFINE Bad == {w \in 0 .. N : upTo[w] \notin S}
  <2> HIDE DEF upTo
  <2>1. ASSUME NEW w \in Bad PROVE \E v \in Bad : v < w
    <3>1. w # 0
      BY <1>1, <1>9 DEF Notes
    <3>2. w \in Ids /\ w - 1 \in 0 .. N /\ w - 1 < w
      BY <1>1, <3>1 DEF Ids
    <3>3. upTo[w] = IF Takes(w, upTo[w - 1]) THEN Append(upTo[w - 1], worker[w].target)
                    ELSE upTo[w - 1]
      BY <1>9, <3>2 DEF Notes
    <3>4. CASE upTo[w - 1] \in S
      <4>1. CASE Takes(w, upTo[w - 1])
        <5>1. worker[w].target \in Cells
          BY <4>1
        <5>2. Append(upTo[w - 1], worker[w].target) \in S
          BY <5>1, <3>4
        <5> QED BY <3>3, <4>1, <5>2
      <4>2. CASE ~Takes(w, upTo[w - 1])
        BY <3>3, <3>4, <4>2
      <4> QED BY <4>1, <4>2
    <3>5. CASE upTo[w - 1] \notin S
      BY <3>2, <3>5
    <3> QED BY <3>4, <3>5
  <2>2. Bad \in SUBSET (0 .. N)
    OBVIOUS
  <2>3. Bad = {}
    <3> HIDE DEF Bad, N
    <3> QED BY ONLY <1>1, <2>1, <2>2, NoneBadUpTo
  <2> QED BY <2>3
<1>11. upTo \in [0 .. N -> S]
  <2> HIDE DEF upTo, S
  <2>1. upTo = [w \in 0 .. N |-> upTo[w]]
    BY <1>8 DEF Body
  <2> QED BY <1>10, <2>1
<1> HIDE DEF upTo
<1> QED BY <1>2, <1>9, <1>11

\* Appending adds one element to what a list holds.
LEMMA RangeAppend ==
  ASSUME NEW S, NEW s \in Seq(S), NEW x \in S
  PROVE  /\ Append(s, x) \in Seq(S) /\ Len(Append(s, x)) = Len(s) + 1
         /\ x \in Range(Append(s, x)) /\ Range(s) \in SUBSET Range(Append(s, x))
<1> DEFINE t == Append(s, x)
<1>1. t \in Seq(S) /\ Len(t) = Len(s) + 1 /\ t[Len(s) + 1] = x /\ \A i \in 1 .. Len(s) : t[i] = s[i]
  OBVIOUS
<1>2. DOMAIN t = 1 .. Len(s) + 1 /\ DOMAIN s = 1 .. Len(s) /\ Len(s) \in Nat
  BY <1>1
<1> HIDE DEF t
<1>3. x \in Range(t)
  <2>1. Len(s) + 1 \in DOMAIN t
    BY <1>2
  <2> QED BY <1>1, <2>1 DEF Range
<1>4. ASSUME NEW y \in Range(s) PROVE y \in Range(t)
  <2>1. PICK i \in 1 .. Len(s) : s[i] = y
    BY <1>2 DEF Range
  <2>2. i \in DOMAIN t /\ t[i] = y
    BY <1>1, <1>2, <2>1
  <2> QED BY <2>2 DEF Range
<1> QED BY <1>1, <1>3, <1>4 DEF t

\* One more number adds at most itself to the part of a set up to it.
LEMMA PartStep ==
  ASSUME NEW n \in Nat, NEW S \in SUBSET (1 .. n), NEW k \in 1 .. n
  PROVE  IF k \in S THEN {w \in S : w <= k} = {w \in S : w <= k - 1} \cup {k}
                          /\ k \notin {w \in S : w <= k - 1}
         ELSE {w \in S : w <= k} = {w \in S : w <= k - 1}
<1>1. \A w \in S : w \in Int /\ (w <= k <=> w <= k - 1 \/ w = k)
  OBVIOUS
<1>2. ~(k <= k - 1)
  OBVIOUS
<1> QED BY <1>1, <1>2

\* The crew fits, so every face that is held and still planned is noted.
LEMMA NotedFaces ==
  ASSUME NEW planned \in SUBSET Cells, worker \in [Ids -> WorkerRecord],
         Cardinality(Held) <= Diggers
  PROVE  /\ Noted(planned) \in Seq(Cells) /\ Len(Noted(planned)) <= Diggers
         /\ \A w \in Held : worker[w].target \in planned => worker[w].target \in Range(Noted(planned))
<1> DEFINE N == Workers
           Stay == {w \in Held : worker[w].target \in planned}
           Part(k) == {w \in Stay : w <= k}
<1>1. N \in Nat /\ Diggers \in Nat /\ Ids = 1 .. N
  BY Geometry DEF Ids
<1>2. PICK f \in [0 .. N -> Seq(Cells)] : Notes(f, planned) /\ Noted(planned) = f[N]
  BY NotedSteps
<1>3. IsFiniteSet(Ids)
  BY <1>1, FS_Interval
<1>4. Held \in SUBSET Ids /\ IsFiniteSet(Held) /\ Cardinality(Held) \in Nat
  BY <1>3, FS_Subset, FS_CardinalityType DEF Held
<1>0. Stay \in SUBSET (1 .. N)
  BY <1>1, <1>4
<1>13. /\ Part(0) = {}
       /\ \A k \in Ids : IF k \in Stay THEN Part(k) = Part(k - 1) \cup {k} /\ k \notin Part(k - 1)
                                     ELSE Part(k) = Part(k - 1)
  <2> HIDE DEF Stay
  <2>1. Part(0) = {}
    BY <1>0, <1>1
  <2> QED BY ONLY <1>0, <1>1, <2>1, PartStep
<1>5. \A k \in 0 .. N : /\ IsFiniteSet(Part(k)) /\ Cardinality(Part(k)) \in Nat
                        /\ Cardinality(Part(k)) <= Diggers
  <2> TAKE k \in 0 .. N
  <2>1. Part(k) \in SUBSET Held
    OBVIOUS
  <2> HIDE DEF Part
  <2>2. IsFiniteSet(Part(k)) /\ Cardinality(Part(k)) <= Cardinality(Held)
    BY <1>4, <2>1, FS_Subset
  <2> QED BY <1>1, <1>4, <2>2, FS_CardinalityType
<1> DEFINE Bad == {k \in 0 .. N : ~(/\ Len(f[k]) <= Cardinality(Part(k))
                                    /\ \A w \in Part(k) : worker[w].target \in Range(f[k]))}
<1>6. ASSUME NEW k \in Bad PROVE \E j \in Bad : j < k
  <2>1. k # 0
    <3>1. Part(0) = {}
      BY <1>13
    <3>2. f[0] = <<>> /\ Len(f[0]) = 0
      BY <1>2 DEF Notes
    <3>3. 0 \in 0 .. N
      BY <1>1
    <3> HIDE DEF Part
    <3>4. Cardinality(Part(0)) \in Nat
      BY <1>5, <3>3
    <3> QED BY <3>1, <3>2, <3>4
  <2>2. k \in Ids /\ k \in 0 .. N /\ k - 1 \in 0 .. N /\ k - 1 < k
    BY <1>1, <2>1
  <2>3. f[k] = IF Digging(k) /\ worker[k].target \in planned /\ Len(f[k - 1]) < Diggers
               THEN Append(f[k - 1], worker[k].target) ELSE f[k - 1]
    BY <1>2, <2>2 DEF Notes
  <2>4. k \in Stay <=> Digging(k) /\ worker[k].target \in planned
    BY <2>2 DEF Held
  <2>5. SUFFICES ASSUME k - 1 \notin Bad PROVE FALSE
    BY <2>2
  <2>6. /\ Len(f[k - 1]) <= Cardinality(Part(k - 1))
        /\ \A w \in Part(k - 1) : worker[w].target \in Range(f[k - 1])
    BY <2>2, <2>5
  <2>7. f[k - 1] \in Seq(Cells) /\ Len(f[k - 1]) \in Nat
    BY <2>2
  <2>8. ~(/\ Len(f[k]) <= Cardinality(Part(k))
          /\ \A w \in Part(k) : worker[w].target \in Range(f[k]))
    OBVIOUS
  <2>9. CASE k \in Stay
    <3>1. Part(k) = Part(k - 1) \cup {k} /\ k \notin Part(k - 1)
      BY <1>13, <2>2, <2>9
    <3> HIDE DEF Part
    <3>2. Cardinality(Part(k)) = Cardinality(Part(k - 1)) + 1
      BY <1>5, <2>2, <3>1, FS_AddElement
    <3>3. Len(f[k - 1]) < Diggers
      BY <1>1, <1>5, <2>2, <2>6, <2>7, <3>2
    <3>4. f[k] = Append(f[k - 1], worker[k].target)
      BY <2>3, <2>4, <2>9, <3>3
    <3>5. worker[k].target \in Cells
      BY <2>4, <2>9
    <3>6. /\ Len(f[k]) = Len(f[k - 1]) + 1
          /\ worker[k].target \in Range(f[k]) /\ Range(f[k - 1]) \in SUBSET Range(f[k])
      BY <2>7, <3>4, <3>5, RangeAppend
    <3>7. Len(f[k]) <= Cardinality(Part(k))
      BY <1>5, <2>2, <2>6, <2>7, <3>2, <3>6
    <3>8. \A w \in Part(k) : worker[w].target \in Range(f[k])
      BY <2>6, <3>1, <3>6
    <3> QED BY <2>8, <3>7, <3>8
  <2>10. CASE k \notin Stay
    <3>1. Part(k) = Part(k - 1)
      BY <1>13, <2>2, <2>10
    <3>2. f[k] = f[k - 1]
      BY <2>3, <2>4, <2>10
    <3> HIDE DEF Part
    <3> QED BY <2>6, <2>8, <3>1, <3>2
  <2> QED BY <2>9, <2>10
<1>7. Bad \in SUBSET (0 .. N)
  OBVIOUS
<1>8. Bad = {}
  <2> HIDE DEF Bad, N
  <2> QED BY ONLY <1>1, <1>6, <1>7, NoneBadUpTo
<1>9. N \in 0 .. N /\ f[N] \in Seq(Cells)
  BY <1>1
<1>10. /\ Len(f[N]) <= Cardinality(Part(N))
       /\ \A w \in Part(N) : worker[w].target \in Range(f[N])
  <2> HIDE DEF Part
  <2> QED BY <1>8, <1>9
<1>11. Part(N) = Stay
  <2> HIDE DEF Stay
  <2> QED BY <1>0, <1>1
<1>12. Len(f[N]) <= Diggers
  <2>1. Len(f[N]) \in Nat
    BY <1>9
  <2> HIDE DEF Part
  <2> QED BY <1>1, <1>5, <1>9, <1>10, <2>1
<1> HIDE DEF Part
<1> QED BY <1>2, <1>9, <1>10, <1>11, <1>12

DigInv == AirInv /\ rooms \in Seq(RoomRecord) /\ CrewInv /\ WorkInv

\* The cache, consulted, tells what the project needs.
LEMMA WorkIsCurrent ==
  ASSUME WorkInv
  PROVE  WorkCells = WorkOf(rooms, passages)
BY DEF WorkInv, WorkCells

\* A worker's mind keeps its load; any face in it is the one the worker had.
LEMMA MindFacts ==
  ASSUME NEW w \in Ids, worker[w] \in WorkerRecord, NEW m \in Minds(w)
  PROVE  /\ m \in WorkerRecord /\ m.spoil = worker[w].spoil /\ m.alive = worker[w].alive
         /\ m.target # 0 => m = worker[w]
<1>1. CASE m = worker[w]
  BY <1>1
<1>2. CASE m # worker[w]
  <2>1. PICK t \in Chosen : m = [worker[w] EXCEPT !.task = t, !.target = 0]
    BY <1>2 DEF Minds
  <2>2. t \in {"Excavate", "other"}
    BY DEF Chosen
  <2> QED BY <2>1, <2>2 DEF WorkerRecord
<1> QED BY <1>1, <1>2

\* The face a worker cuts at is ground the project needs, claimed, and nobody else's.
LEMMA TargetFacts ==
  ASSUME DigInv, NEW w \in Ids, turn # 0, worker[w].alive, NEW m \in Minds(w),
         m.task = "Excavate", NEW t \in Targets(m)
  PROVE  /\ t[1] \in Ground /\ t[1] \in All(WorkOf(rooms, passages))
         /\ t[2] \in Seq(Cells) /\ Len(t[2]) <= Diggers
         /\ t[1] \in Range(t[2]) /\ Range(claims) \in SUBSET Range(t[2])
         /\ \A v \in Held \ {w} : worker[v].target # t[1]
<1>1. /\ claims \in Seq(Cells) /\ Len(claims) <= Diggers /\ worker \in [Ids -> WorkerRecord]
      /\ Apart /\ Claimed /\ Planned /\ Diggers \in Nat
  BY Geometry DEF DigInv, CrewInv
<1>2. CASE m.target \in Ground
  <2>1. t = <<m.target, claims>>
    BY <1>2 DEF Targets
  <2>2. m.target # 0 /\ m = worker[w]
    BY <1>1, <1>2, Geometry, MindFacts DEF Ground
  <2>3. w \in Held
    BY <2>2 DEF Held, Digging
  <2>4. t[1] = worker[w].target /\ t[2] = claims
    BY <2>1, <2>2
  <2> QED BY <1>1, <1>2, <2>2, <2>3, <2>4 DEF Apart, Claimed, Planned
<1>3. CASE m.target \notin Ground
  <2>1. PICK c \in Faces : t = <<c, Append(claims, c)>>
    BY <1>3 DEF Targets
  <2>2. WorkCells = WorkOf(rooms, passages)
    BY WorkIsCurrent DEF DigInv
  <2>3. Len(claims) < Diggers /\ c \notin Range(claims)
        /\ c \in WorkCells.approach \cup WorkCells.chamber
    <3>1. Len(claims) < Diggers
      <4>1. ~(Len(claims) >= Diggers)
        BY <2>1 DEF Faces
      <4> QED BY <1>1, <4>1
    <3>2. c \in Exposed(WorkCells.approach \ Range(claims))
          \/ c \in Exposed(WorkCells.chamber \ Range(claims))
      BY <2>1 DEF Faces
    <3> QED BY <3>1, <3>2 DEF Exposed
  <2>4. c \in All(WorkOf(rooms, passages))
    BY <2>2, <2>3 DEF All
  <2>5. c \in Ground /\ c \in Cells
    <3>1. c \in Ground
      <4> HIDE DEF Ground
      <4> QED BY <2>4, Needed
    <3> QED BY <3>1 DEF Ground
  <2>6. /\ Append(claims, c) \in Seq(Cells) /\ Len(Append(claims, c)) = Len(claims) + 1
        /\ c \in Range(Append(claims, c)) /\ Range(claims) \in SUBSET Range(Append(claims, c))
    BY <1>1, <2>5, RangeAppend
  <2>7. Len(claims) + 1 <= Diggers
    <3>1. Len(claims) \in Nat
      BY <1>1
    <3> QED BY <1>1, <2>3, <3>1
  <2>8. \A v \in Held : worker[v].target # c
    BY <1>1, <2>3 DEF Claimed
  <2>9. t[1] = c /\ t[2] = Append(claims, c)
    BY <2>1
  <2> QED BY <2>4, <2>5, <2>6, <2>7, <2>8, <2>9
<1> QED BY <1>2, <1>3

\* A worker's turn keeps the crews, as long as a face it ends with is claimed, needed and its own.
LEMMA CrewTurn ==
  ASSUME CrewInv, NEW w \in Ids, turn = w, turn' = w + 1, NEW n \in WorkerRecord,
         worker' = [worker EXCEPT ![w] = n],
         claims' \in Seq(Cells), Len(claims') <= Diggers, Range(claims) \in SUBSET Range(claims'),
         n.alive /\ n.task = "Excavate" /\ n.target # 0 =>
           /\ n.target \in Range(claims') /\ \A v \in Held \ {w} : worker[v].target # n.target
           /\ n.target \in Ground' => n.target \in All(WorkOf(rooms, passages))',
         Ground' \in SUBSET Ground,
         (All(WorkOf(rooms, passages)) \cap Ground') \in SUBSET All(WorkOf(rooms, passages))'
  PROVE  CrewInv'
<1> DEFINE need == All(WorkOf(rooms, passages))
<1>1. w \in 1 .. Workers /\ Workers \in Nat /\ Diggers \in Nat
  BY Geometry DEF Ids
<1>2. turn # 0 /\ turn' \in 0 .. Workers + 1
  BY <1>1
<1>3. worker \in [Ids -> WorkerRecord] /\ Apart /\ Claimed /\ Planned
  BY <1>2 DEF CrewInv
<1>4. worker' \in [Ids -> WorkerRecord] /\ worker'[w] = n /\ \A v \in Ids \ {w} : worker'[v] = worker[v]
  BY <1>3
<1>5. \A v \in Held' : /\ v \in Ids /\ (v # w => v \in Held)
                       /\ v = w => n.alive /\ n.task = "Excavate" /\ n.target # 0
  BY <1>4 DEF Held, Digging
<1>6. Claimed'
  BY <1>3, <1>4, <1>5 DEF Claimed
<1>7. Planned'
  <2>1. ASSUME NEW v \in Held', worker'[v].target \in Ground' PROVE worker'[v].target \in need'
    <3>1. CASE v = w
      BY <1>4, <1>5, <2>1, <3>1
    <3>2. CASE v # w
      <4> HIDE DEF need
      <4>1. worker'[v].target = worker[v].target /\ v \in Held
        BY <1>4, <1>5, <3>2
      <4>2. worker[v].target \in Ground
        BY <2>1, <4>1
      <4>3. worker[v].target \in need
        BY <1>3, <4>1, <4>2 DEF Planned, need
      <4> QED BY <2>1, <4>1, <4>3 DEF need
    <3> QED BY <3>1, <3>2
  <2> QED BY <2>1 DEF Planned
<1>8. Apart'
  <2>1. ASSUME NEW u \in Held', NEW v \in Held', worker'[u].target = worker'[v].target
        PROVE  u = v
    BY <1>3, <1>4, <1>5, <2>1 DEF Apart
  <2> QED BY <2>1 DEF Apart
<1>9. Cardinality(Held') <= Diggers
  <2> DEFINE crew == Held'
             face == [v \in crew |-> worker'[v].target]
             list == claims'
  <2>1. face \in [crew -> Range(list)]
    BY <1>6 DEF Claimed
  <2>2. \A u, v \in crew : face[u] = face[v] => u = v
    BY <1>8 DEF Apart
  <2>3. IsFiniteSet(crew) /\ Cardinality(crew) <= Len(list)
    <3> HIDE DEF crew, face, list
    <3>1. list \in Seq(Cells)
      BY DEF list
    <3> QED BY ONLY <2>1, <2>2, <3>1, CrewSize
  <2>4. Cardinality(crew) \in Nat /\ Len(list) \in Nat
    BY <2>3, FS_CardinalityType
  <2> HIDE DEF crew
  <2>5. Cardinality(crew) <= Diggers
    BY <1>1, <2>3, <2>4
  <2> QED BY <2>5 DEF crew
<1> QED BY <1>2, <1>4, <1>6, <1>7, <1>8, <1>9 DEF CrewInv

-----------------------------------------------------------------------------
(* Every step *)

\* A review only marks rooms complete.
LEMMA ReviewedRooms ==
  ASSUME rooms \in Seq(RoomRecord), NEW v \in Reviewed
  PROVE  /\ v[1] \in Seq(RoomRecord) /\ Len(v[1]) = Len(rooms)
         /\ \A i \in 1 .. Len(rooms) : v[1][i].site = rooms[i].site /\ v[1][i].wide = rooms[i].wide
<1> DEFINE cut == [i \in DOMAIN passages |->
                     [passages[i] EXCEPT !.complete = @ \/ Cut(passages[i])]]
           done(ps, i) == /\ ChamberCells(rooms[i]) # {} /\ ChamberCells(rooms[i]) \cap Ground = {}
                          /\ \A k \in DOMAIN ps : ps[k].room = i => ps[k].complete
           now(ps) == [i \in DOMAIN rooms |-> [rooms[i] EXCEPT !.complete = @ \/ done(ps, i)]]
<1>1. PICK ps \in Entered(rooms, cut) : v = <<now(ps), ps>>
  BY DEF Reviewed
<1> HIDE DEF done
<1>2. DOMAIN rooms = 1 .. Len(rooms) /\ Len(rooms) \in Nat
  OBVIOUS
<1>3. ASSUME NEW i \in 1 .. Len(rooms)
      PROVE  /\ now(ps)[i] \in RoomRecord
             /\ now(ps)[i].site = rooms[i].site /\ now(ps)[i].wide = rooms[i].wide
  <2>1. rooms[i] \in RoomRecord
    BY <1>2
  <2>2. now(ps)[i] = [rooms[i] EXCEPT !.complete = rooms[i].complete \/ done(ps, i)]
    BY <1>2
  <2>3. (rooms[i].complete \/ done(ps, i)) \in BOOLEAN
    OBVIOUS
  <2> QED BY <2>1, <2>2, <2>3 DEF RoomRecord
<1>4. now(ps) \in [1 .. Len(rooms) -> RoomRecord]
  BY <1>2, <1>3
<1>5. now(ps) \in Seq(RoomRecord) /\ Len(now(ps)) = Len(rooms)
  BY <1>2, <1>4
<1> QED BY <1>1, <1>3, <1>5

\* Widening keeps the number of rooms and all of the sites.
LEMMA WidenedRooms ==
  ASSUME NEW rs \in Seq(RoomRecord), NEW ps, NEW kind, NEW u \in Widened(rs, ps, kind)
  PROVE  \E i \in DOMAIN rs :
           /\ u[2] = ps /\ u[1] \in Seq(RoomRecord) /\ DOMAIN u[1] = DOMAIN rs
           /\ ~rs[i].wide /\ u[1][i].wide /\ u[1][i].site = rs[i].site
           /\ \A j \in DOMAIN rs \ {i} : u[1][j] = rs[j]
<1>1. PICK i \in DOMAIN rs :
        ~rs[i].wide /\ u = <<[rs EXCEPT ![i].wide = TRUE, ![i].complete = FALSE], ps>>
  BY DEF Widened
<1>2. rs[i] \in RoomRecord /\ DOMAIN rs = 1 .. Len(rs) /\ Len(rs) \in Nat
  OBVIOUS
<1>3. /\ DOMAIN u[1] = DOMAIN rs /\ \A j \in DOMAIN rs \ {i} : u[1][j] = rs[j]
      /\ u[1][i] = [[rs[i] EXCEPT !.wide = TRUE] EXCEPT !.complete = FALSE]
  BY <1>1
<1>4. u[1][i] = [site |-> rs[i].site, wide |-> TRUE, complete |-> FALSE] /\ rs[i].wide = FALSE
  BY <1>1, <1>2, <1>3 DEF RoomRecord
<1>5. u[1][i] \in RoomRecord
  BY <1>2, <1>4 DEF RoomRecord
<1>6. \A j \in 1 .. Len(rs) : u[1][j] \in RoomRecord
  BY <1>2, <1>3, <1>5
<1>7. u[1] \in Seq(RoomRecord)
  <2> DEFINE r == u[1]
  <2>1. r = [j \in 1 .. Len(rs) |-> r[j]]
    BY <1>1, <1>2
  <2> HIDE DEF r
  <2>2. r \in [1 .. Len(rs) -> RoomRecord]
    BY <1>6, <2>1 DEF r
  <2>3. r \in Seq(RoomRecord)
    BY <1>2, <2>2
  <2> QED BY <2>3 DEF r
<1>8. u[2] = ps /\ ~rs[i].wide /\ u[1][i].wide /\ u[1][i].site = rs[i].site
  BY <1>1, <1>4
<1> QED BY <1>3, <1>7, <1>8

NewPassage(r, i, c) == [route |-> r, room |-> i, complete |-> c]
WithPassage(ps, r, i, c) == Append(ps, NewPassage(r, i, c))

\* A new room behind the others, and its passage.
IsSited(u, rs, ps) ==
  \E s \in Sites : \E r \in RoutesTo(s.centre) :
    /\ u[2] = WithPassage(ps, r, Len(rs) + 1, FALSE)
    /\ u[1] \in Seq(RoomRecord) /\ Len(u[1]) = Len(rs) + 1
    /\ u[1][Len(rs) + 1].site = s /\ ~u[1][Len(rs) + 1].complete
    /\ \A j \in 1 .. Len(rs) : u[1][j] = rs[j]

\* Siting a room (nest_plan.cpp, choose_site) keeps the rooms there are and appends an unfinished one.
LEMMA SitedRooms ==
  ASSUME NEW rs \in Seq(RoomRecord), NEW ps, NEW kind, NEW u \in Sited(rs, ps, kind)
  PROVE  IsSited(u, rs, ps)
<1>1. PICK s \in Sites : \E r \in RoutesTo(s.centre) :
        u = <<Append(rs, [site |-> s, wide |-> FALSE, complete |-> FALSE]),
              Append(ps, [route |-> r, room |-> Len(rs) + 1, complete |-> FALSE])>>
  BY DEF Sited
<1>2. PICK r \in RoutesTo(s.centre) :
        u = <<Append(rs, [site |-> s, wide |-> FALSE, complete |-> FALSE]),
              Append(ps, [route |-> r, room |-> Len(rs) + 1, complete |-> FALSE])>>
  BY <1>1
<1> DEFINE room == [site |-> s, wide |-> FALSE, complete |-> FALSE]
<1>3. room \in RoomRecord
  BY DEF RoomRecord
<1>4. u[1] = Append(rs, room) /\ u[2] = WithPassage(ps, r, Len(rs) + 1, FALSE)
  BY <1>2 DEF NewPassage, WithPassage
<1>6. room.site = s /\ ~room.complete
  OBVIOUS
<1> HIDE DEF room
<1>5. /\ Append(rs, room) \in Seq(RoomRecord) /\ Len(Append(rs, room)) = Len(rs) + 1
      /\ Append(rs, room)[Len(rs) + 1] = room
      /\ \A j \in 1 .. Len(rs) : Append(rs, room)[j] = rs[j]
  BY <1>3
<1> QED BY <1>4, <1>5, <1>6 DEF IsSited

\* An update is a review, and without a project one widening, one new room or one cross-passage.
LEMMA UpdateCases ==
  ASSUME NEW u \in Updates
  PROVE  \E v \in Reviewed :
           \/ u = v
           \/ /\ Project(v[1]) = 0
              /\ \/ \E kind \in {"Nursery", "Granary"} :
                      u \in Widened(v[1], v[2], kind) \/ u \in Sited(v[1], v[2], kind)
                 \/ u \in Linked(v[1], v[2])
<1>1. PICK v \in Reviewed :
        u \in {v} \cup
          IF Project(v[1]) # 0 THEN {}
          ELSE Grown(v[1], v[2], "Nursery") \cup Grown(v[1], v[2], "Granary")
                 \cup (IF PassageProject(v[1], v[2]) = 0 THEN Linked(v[1], v[2]) ELSE {})
  BY DEF Updates
<1>2. \A kind : Grown(v[1], v[2], kind)
                   \in SUBSET (Widened(v[1], v[2], kind) \cup Sited(v[1], v[2], kind))
  BY DEF Grown
<1> QED BY <1>1, <1>2

\* A cross-passage behind the other passages; the rooms stay as they are.
IsLinked(u, rs, ps) ==
  u[1] = rs /\ \E i \in DOMAIN rs : \E j \in DOMAIN rs :
                 \E r \in Routes(rs[j].site.centre, {rs[i].site.centre}) :
                   rs[i].site.centre \in Connected /\ u[2] = WithPassage(ps, r, 0, FALSE)

\* A cross-passage is built between two finished rooms, both reached from the entrance.
LEMMA LinkedPassage ==
  ASSUME NEW rs, NEW ps, NEW u \in Linked(rs, ps)
  PROVE  IsLinked(u, rs, ps)
<1> DEFINE between == {b \in (DOMAIN rs) \X (DOMAIN rs) :
                    /\ b[1] < b[2] /\ rs[b[1]].complete /\ rs[b[2]].complete
                    /\ {rs[b[1]].site.centre, rs[b[2]].site.centre} \subseteq Connected}
           route(b) == Routes(rs[b[2]].site.centre, {rs[b[1]].site.centre})
<1>1. \E r \in UNION {route(b) : b \in between} :
        u = <<rs, Append(ps, [route |-> r, room |-> 0, complete |-> FALSE])>>
  BY DEF Linked
<1>2. PICK b \in between : \E r \in route(b) :
        u = <<rs, Append(ps, [route |-> r, room |-> 0, complete |-> FALSE])>>
  BY <1>1
<1>3. b[1] \in DOMAIN rs /\ b[2] \in DOMAIN rs /\ rs[b[1]].site.centre \in Connected
  OBVIOUS
<1>4. PICK r \in route(b) :
        u = <<rs, Append(ps, [route |-> r, room |-> 0, complete |-> FALSE])>>
  BY <1>2
<1>5. u[1] = rs /\ u[2] = WithPassage(ps, r, 0, FALSE)
  BY <1>4 DEF NewPassage, WithPassage
<1> HIDE DEF between
<1> QED BY <1>3, <1>4, <1>5 DEF IsLinked

\* Whatever the plan becomes, its rooms are rooms.
LEMMA UpdatedRooms ==
  ASSUME rooms \in Seq(RoomRecord), NEW u \in Updates
  PROVE  u[1] \in Seq(RoomRecord)
<1>1. PICK v \in Reviewed :
           \/ u = v
           \/ /\ Project(v[1]) = 0
              /\ \/ \E kind \in {"Nursery", "Granary"} :
                      u \in Widened(v[1], v[2], kind) \/ u \in Sited(v[1], v[2], kind)
                 \/ u \in Linked(v[1], v[2])
  BY UpdateCases
<1>2. v[1] \in Seq(RoomRecord)
  BY ReviewedRooms
<1>3. CASE u = v
  BY <1>2, <1>3
<1>4. ASSUME NEW kind, u \in Widened(v[1], v[2], kind) PROVE u[1] \in Seq(RoomRecord)
  BY <1>2, <1>4, WidenedRooms
<1>5. ASSUME NEW kind, u \in Sited(v[1], v[2], kind) PROVE u[1] \in Seq(RoomRecord)
  BY <1>2, <1>5, SitedRooms DEF IsSited
<1>6. ASSUME u \in Linked(v[1], v[2]) PROVE u[1] \in Seq(RoomRecord)
  <2>1. u[1] = v[1]
    BY <1>6, LinkedPassage DEF IsLinked
  <2> QED BY <1>2, <2>1
<1> QED BY <1>1, <1>3, <1>4, <1>5, <1>6

\* Nothing changes what the project needs but the nest and its plan.
LEMMA WorkSame ==
  ASSUME UNCHANGED <<air, rooms, passages>>
  PROVE  /\ WorkOf(rooms, passages)' = WorkOf(rooms, passages) /\ Ground' = Ground
         /\ All(WorkOf(rooms, passages))' = All(WorkOf(rooms, passages))
<1>1. WorkOf(rooms, passages)' = WorkOf(rooms, passages)
  BY DEF WorkOf, Project, PassageProject, PassageCells, ChamberCells, RoomCells, Connected, Ground
<1>2. Ground' = Ground
  BY DEF Ground
<1> QED BY <1>1, <1>2 DEF All

\* The dig starts with nobody assigned, nothing cut and the founding rooms planned.
LEMMA DigInit == Init => DigInv
<1> SUFFICES ASSUME Init PROVE DigInv
  OBVIOUS
<1> USE DEF Init
<1>1. AirInv
  BY Geometry DEF AirInv
<1>2. rooms \in Seq(RoomRecord)
  <2>1. Founding \in Seq(Sites) /\ DOMAIN Founding = 1 .. Len(Founding) /\ Len(Founding) \in Nat
    BY ExcavationAssumption
  <2>2. \A i \in 1 .. Len(Founding) : Founding[i] \in Sites
    BY <2>1
  <2>3. rooms = [i \in 1 .. Len(Founding) |-> [site |-> Founding[i], wide |-> FALSE, complete |-> TRUE]]
    BY <2>1
  <2>4. rooms \in [1 .. Len(Founding) -> RoomRecord]
    BY <2>2, <2>3 DEF RoomRecord
  <2> QED BY <2>1, <2>4
<1>3. CrewInv
  <2>1. Held = {}
    BY DEF Held, Digging, Unassigned
  <2>2. worker \in [Ids -> WorkerRecord]
    BY DEF Unassigned, WorkerRecord
  <2>3. Cardinality(Held) <= Diggers
    <3>1. Cardinality(Held) = 0
      BY <2>1, FS_EmptySet
    <3> QED BY <3>1, Geometry
  <2>4. Apart
    BY <2>1 DEF Apart
  <2>5. claims \in Seq(Cells) /\ Len(claims) <= Diggers /\ turn \in 0 .. Workers + 1 /\ turn = 0
    BY Geometry
  <2> HIDE DEF Init
  <2> QED BY <2>2, <2>3, <2>4, <2>5 DEF CrewInv
<1>4. WorkInv
  BY DEF WorkInv, WorkRecord
<1> QED BY <1>1, <1>2, <1>3, <1>4 DEF DigInv

\* A tick that begins keeps the plan or takes a new one, and works from it.
LEMMA BeginTickKeepsDig ==
  ASSUME DigInv, BeginTick
  PROVE  DigInv' /\ All(work') \in SUBSET Cells
<1> USE DEF DigInv
<1>0. UNCHANGED air /\ turn = 0 /\ turn' = 1
  BY DEF BeginTick
<1>1. AirInv'
  BY <1>0 DEF AirInv
<1>2. rooms' \in Seq(RoomRecord) /\ work' = WorkOf(rooms, passages)'
  <2>1. CASE UNCHANGED <<rooms, passages>> /\ work' = WorkCells
    <3>1. WorkOf(rooms, passages)' = WorkOf(rooms, passages)
      BY <1>0, <2>1, WorkSame
    <3>2. WorkCells = WorkOf(rooms, passages)
      BY WorkIsCurrent
    <3> QED BY <2>1, <3>1, <3>2
  <2>2. CASE \E u \in Updates : rooms' = u[1] /\ passages' = u[2] /\ work' = WorkOf(u[1], u[2])
    <3>1. PICK u \in Updates : rooms' = u[1] /\ passages' = u[2] /\ work' = WorkOf(u[1], u[2])
      BY <2>2
    <3>2. u[1] \in Seq(RoomRecord)
      BY UpdatedRooms
    <3> DEFINE rs == u[1]
               ps == u[2]
    <3>3. rooms' = rs /\ passages' = ps /\ air' = air
      BY <1>0, <3>1
    <3> HIDE DEF rs, ps
    <3>4. Connected' = Connected /\ Ground' = Ground
      BY <3>3 DEF Connected, Ground
    <3>5. \A room : ChamberCells(room)' = ChamberCells(room)
      BY <3>4 DEF ChamberCells, RoomCells
    <3>6. Project(rooms)' = Project(rs)
      BY <3>3 DEF Project
    <3>7. PassageProject(rooms, passages)' = PassageProject(rs, ps)
      BY <3>3, <3>6 DEF PassageProject
    <3>8. WorkOf(rooms, passages)' = WorkOf(rs, ps)
      BY <3>3, <3>4, <3>5, <3>6, <3>7 DEF WorkOf, PassageCells, RoomCells, ChamberCells
    <3> QED BY <3>1, <3>2, <3>8 DEF rs, ps
  <2> QED BY <2>1, <2>2 DEF BeginTick
<1> DEFINE planned == All(work')
<1>3. planned = All(WorkOf(rooms, passages))'
  BY <1>2 DEF All
<1>4. planned \in SUBSET Cells
  <2>1. planned \in SUBSET Ground'
    BY <1>3 DEF All, WorkOf
  <2> QED BY <2>1 DEF Ground
<1>5. worker' = Dropped(planned) /\ claims' = Noted(planned)
  BY DEF BeginTick
<1> HIDE DEF planned
<1>6. worker \in [Ids -> WorkerRecord] /\ Cardinality(Held) <= Diggers /\ Apart
  BY DEF CrewInv
<1>7. /\ worker' \in [Ids -> WorkerRecord] /\ Held' = {w \in Held : worker[w].target \in planned}
      /\ \A w \in Held' : worker'[w] = worker[w]
  <2>1. \A w \in Ids : worker'[w] = IF Digging(w) /\ worker[w].target \notin planned
                                    THEN [worker[w] EXCEPT !.target = 0] ELSE worker[w]
    BY <1>5 DEF Dropped
  <2>2. worker' \in [Ids -> WorkerRecord]
    <3>1. \A w \in Ids : worker'[w] \in WorkerRecord
      BY <1>6, <2>1 DEF WorkerRecord
    <3>2. worker' = [w \in Ids |-> worker'[w]]
      BY <1>5 DEF Dropped
    <3> QED BY <3>1, <3>2
  <2>3. ASSUME NEW w \in Ids
        PROVE  /\ w \in Held' <=> w \in Held /\ worker[w].target \in planned
               /\ w \in Held' => worker'[w] = worker[w]
    <3>1. CASE Digging(w) /\ worker[w].target \notin planned
      <4>1. worker'[w].target = 0
        BY <1>6, <2>1, <3>1 DEF WorkerRecord
      <4> QED BY <3>1, <4>1 DEF Held, Digging
    <3>2. CASE ~(Digging(w) /\ worker[w].target \notin planned)
      <4>1. worker'[w] = worker[w]
        BY <2>1, <3>2
      <4> QED BY <3>2, <4>1 DEF Held, Digging
    <3> QED BY <3>1, <3>2
  <2>4. Held \in SUBSET Ids /\ Held' \in SUBSET Ids
    BY DEF Held
  <2> HIDE DEF DigInv
  <2> QED BY <2>2, <2>3, <2>4
<1>8. Apart'
  BY <1>6, <1>7 DEF Apart
<1>9. Cardinality(Held') <= Diggers
  <2>1. Held' \in SUBSET Held /\ IsFiniteSet(Held)
    <3>1. IsFiniteSet(1 .. Workers)
      BY Geometry, FS_Interval
    <3>2. Held \in SUBSET (1 .. Workers)
      BY DEF Held, Ids
    <3> QED BY <1>7, <3>1, <3>2, FS_Subset
  <2>2. Cardinality(Held') <= Cardinality(Held) /\ IsFiniteSet(Held')
    BY <2>1, FS_Subset
  <2> QED BY <1>6, <2>1, <2>2, Geometry, FS_CardinalityType
<1>10. /\ claims' \in Seq(Cells) /\ Len(claims') <= Diggers
       /\ \A w \in Held : worker[w].target \in planned => worker[w].target \in Range(claims')
  BY <1>4, <1>5, <1>6, NotedFaces
<1>11. Claimed'
  BY <1>7, <1>10 DEF Claimed
<1>12. Planned'
  BY <1>3, <1>7 DEF Planned
<1>13. turn' \in 0 .. Workers + 1
  BY <1>0, Geometry
<1>14. CrewInv'
  BY <1>7, <1>8, <1>9, <1>10, <1>11, <1>12, <1>13 DEF CrewInv
<1>15. WorkInv'
  <2>1. work' \in WorkRecord
    BY <1>2 DEF WorkOf, WorkRecord, Ground
  <2> QED BY <1>2, <2>1 DEF WorkInv
<1> QED BY <1>1, <1>2, <1>4, <1>14, <1>15 DEF planned

\* A bite turns one face into air.
LEMMA BiteOpens ==
  ASSUME AirInv, rooms \in Seq(RoomRecord), NEW c \in Ground, air' = air \cup {c},
         UNCHANGED <<rooms, passages>>
  PROVE  /\ AirInv' /\ Ground' \in SUBSET Ground
         /\ (All(WorkOf(rooms, passages)) \cap Ground') \in SUBSET All(WorkOf(rooms, passages))'
<1>1. AirInv'
  BY Geometry DEF AirInv, Ground
<1>2. air \in SUBSET air'
  OBVIOUS
<1> QED BY <1>1, <1>2, AirGrows, NeedLasts

\* A turn keeps the plan, the crews and the cache, and cuts only what is needed.
LEMMA TurnKeepsDig ==
  ASSUME DigInv, NEW w \in Ids, ProcessWorker(w) \/ SkipDead(w)
  PROVE  DigInv' /\ (air' # air => (air' \ air) \in SUBSET All(WorkOf(rooms, passages)))
<1>0. /\ AirInv /\ rooms \in Seq(RoomRecord) /\ CrewInv /\ WorkInv
      /\ claims \in Seq(Cells) /\ Len(claims) <= Diggers /\ worker \in [Ids -> WorkerRecord]
      /\ worker[w] \in WorkerRecord
  BY DEF DigInv, CrewInv
<1>1. turn = w /\ turn' = w + 1 /\ turn # 0
  BY Geometry DEF ProcessWorker, SkipDead, Ids
<1>2. Claimed /\ Planned /\ Apart
  BY <1>0, <1>1 DEF CrewInv
\* A turn that leaves the nest and the plan alone.
<1>3. ASSUME UNCHANGED <<air, rooms, passages>>, NEW n \in WorkerRecord,
             worker' = [worker EXCEPT ![w] = n],
             claims' \in Seq(Cells), Len(claims') <= Diggers, Range(claims) \in SUBSET Range(claims'),
             n.alive /\ n.task = "Excavate" /\ n.target # 0 =>
               /\ n.target \in Range(claims') /\ \A v \in Held \ {w} : worker[v].target # n.target
               /\ n.target \in Ground => n.target \in All(WorkOf(rooms, passages)),
             work' = work \/ work' = WorkCells \/ work'.fresh = FALSE,
             work' \in WorkRecord
      PROVE  DigInv'
  <2>1. /\ WorkOf(rooms, passages)' = WorkOf(rooms, passages) /\ Ground' = Ground
        /\ All(WorkOf(rooms, passages))' = All(WorkOf(rooms, passages))
    BY <1>3, WorkSame
  <2>2. Ground' \in SUBSET Ground
        /\ (All(WorkOf(rooms, passages)) \cap Ground') \in SUBSET All(WorkOf(rooms, passages))'
    BY <2>1
  <2>3. n.alive /\ n.task = "Excavate" /\ n.target # 0 =>
           /\ n.target \in Range(claims') /\ \A v \in Held \ {w} : worker[v].target # n.target
           /\ n.target \in Ground' => n.target \in All(WorkOf(rooms, passages))'
    BY <1>3, <2>1
  <2>4. CrewInv'
    <3> HIDE DEF Ground
    <3> QED BY <1>0, <1>1, <1>3, <2>2, <2>3, CrewTurn
  <2>5. WorkInv'
    <3>1. WorkCells = WorkOf(rooms, passages)
      BY <1>0, WorkIsCurrent
    <3> QED BY <1>0, <1>3, <2>1, <3>1 DEF WorkInv
  <2>6. AirInv' /\ rooms' \in Seq(RoomRecord)
    BY <1>0, <1>3 DEF AirInv
  <2> QED BY <2>4, <2>5, <2>6 DEF DigInv
\* A face that was held before the turn.
<1>12. work \in WorkRecord /\ WorkCells \in WorkRecord /\ [work EXCEPT !.fresh = FALSE] \in WorkRecord
  <2>1. WorkOf(rooms, passages) \in WorkRecord
    BY DEF WorkOf, WorkRecord, Ground
  <2>2. work \in WorkRecord
    BY <1>0 DEF WorkInv
  <2> QED BY <2>1, <2>2 DEF WorkCells, WorkRecord
<1>4. ASSUME NEW m \in Minds(w), m.alive, m.task = "Excavate", m.target # 0
      PROVE  /\ m.target \in Range(claims) /\ \A v \in Held \ {w} : worker[v].target # m.target
             /\ m.target \in Ground => m.target \in All(WorkOf(rooms, passages))
  <2>1. m = worker[w]
    BY <1>0, <1>4, MindFacts
  <2>2. w \in Held
    BY <1>4, <2>1 DEF Held, Digging
  <2> QED BY <1>2, <2>1, <2>2 DEF Claimed, Planned, Apart
<1>5. CASE Pass(w)
  <2>1. PICK m \in Minds(w) : worker' = [worker EXCEPT ![w] = m]
    BY <1>5 DEF Pass, Becomes
  <2>2. m \in WorkerRecord
    BY <1>0, MindFacts
  <2>3. UNCHANGED <<air, rooms, passages, work, claims>>
    BY <1>5 DEF Pass, Kept
  <2>4. claims' \in Seq(Cells) /\ Len(claims') <= Diggers /\ Range(claims) \in SUBSET Range(claims')
    BY <1>0, <2>3
  <2>5. DigInv'
    BY <1>3, <1>4, <1>12, <2>1, <2>2, <2>3, <2>4
  <2> QED BY <2>3, <2>5
<1>6. CASE Deliver(w)
  <2>1. PICK m \in Minds(w) : worker' = [worker EXCEPT ![w] = [m EXCEPT !.spoil = FALSE]]
    BY <1>6 DEF Deliver, Becomes
  <2> DEFINE n == [m EXCEPT !.spoil = FALSE]
  <2>2. m \in WorkerRecord
    BY <1>0, MindFacts
  <2>3. n \in WorkerRecord /\ n.alive = m.alive /\ n.task = m.task /\ n.target = m.target
    BY <2>2 DEF WorkerRecord
  <2>4. UNCHANGED <<air, rooms, passages, claims>>
    BY <1>6 DEF Deliver
  <2>5. (work' = work \/ work'.fresh = FALSE) /\ work' \in WorkRecord
    <3>1. work' = work \/ work' = [work EXCEPT !.fresh = FALSE]
      BY <1>6 DEF Deliver
    <3>2. work \in WorkRecord
      BY <1>0 DEF WorkInv
    <3> QED BY <1>12, <3>1, <3>2 DEF WorkRecord
  <2>6. claims' \in Seq(Cells) /\ Len(claims') <= Diggers /\ Range(claims) \in SUBSET Range(claims')
    BY <1>0, <2>4
  <2> HIDE DEF n
  <2>7. DigInv'
    BY <1>3, <1>4, <2>1, <2>3, <2>4, <2>5, <2>6 DEF n
  <2> QED BY <2>4, <2>7
<1>7. CASE StandBy(w)
  <2>1. PICK m \in Minds(w) : worker' = [worker EXCEPT ![w] = [m EXCEPT !.target = 0]]
    BY <1>7 DEF StandBy, Becomes
  <2> DEFINE n == [m EXCEPT !.target = 0]
  <2>2. n \in WorkerRecord /\ n.target = 0
    BY <1>0, MindFacts DEF WorkerRecord
  <2>3. UNCHANGED <<air, rooms, passages, claims>> /\ (work' = work \/ work' = WorkCells)
    BY <1>7 DEF StandBy
  <2>4. claims' \in Seq(Cells) /\ Len(claims') <= Diggers /\ Range(claims) \in SUBSET Range(claims')
    BY <1>0, <2>3
  <2> HIDE DEF n
  <2>5. DigInv'
    BY <1>3, <1>12, <2>1, <2>2, <2>3, <2>4 DEF n
  <2> QED BY <2>3, <2>5
<1>8. CASE Approach(w) /\ worker[w].alive
  <2>0. PICK m \in Minds(w) : \E t \in Targets(m) :
          /\ m.task = "Excavate" /\ worker' = [worker EXCEPT ![w] = [m EXCEPT !.target = t[1]]]
          /\ claims' = t[2]
    BY <1>8 DEF Approach, Becomes
  <2>1. PICK t \in Targets(m) :
          /\ m.task = "Excavate" /\ worker' = [worker EXCEPT ![w] = [m EXCEPT !.target = t[1]]]
          /\ claims' = t[2]
    BY <2>0
  <2> DEFINE n == [m EXCEPT !.target = t[1]]
  <2>2. /\ t[1] \in Ground /\ t[1] \in All(WorkOf(rooms, passages))
        /\ t[2] \in Seq(Cells) /\ Len(t[2]) <= Diggers
        /\ t[1] \in Range(t[2]) /\ Range(claims) \in SUBSET Range(t[2])
        /\ \A v \in Held \ {w} : worker[v].target # t[1]
    BY <1>1, <1>8, <2>1, TargetFacts
  <2>3. t[1] \in Cells
    BY <2>2 DEF Ground
  <2>4. n \in WorkerRecord /\ n.target = t[1]
    BY <1>0, <2>3, MindFacts DEF WorkerRecord
  <2>5. UNCHANGED <<air, rooms, passages>> /\ (work' = work \/ work' = WorkCells)
    BY <1>8 DEF Approach
  <2> HIDE DEF n
  <2>6. DigInv'
    BY <1>3, <1>12, <2>1, <2>2, <2>4, <2>5 DEF n
  <2> QED BY <2>5, <2>6
<1>9. CASE Bite(w) /\ worker[w].alive
  <2>0. PICK m \in Minds(w) : \E t \in Targets(m) :
          /\ m.task = "Excavate" /\ air' = air \cup {t[1]} /\ claims' = t[2]
          /\ worker' = [worker EXCEPT ![w] = [m EXCEPT !.target = 0, !.spoil = TRUE]]
    BY <1>9 DEF Bite, Becomes
  <2>1. PICK t \in Targets(m) :
          /\ m.task = "Excavate" /\ air' = air \cup {t[1]} /\ claims' = t[2]
          /\ worker' = [worker EXCEPT ![w] = [m EXCEPT !.target = 0, !.spoil = TRUE]]
    BY <2>0
  <2> DEFINE n == [m EXCEPT !.target = 0, !.spoil = TRUE]
  <2>2. /\ t[1] \in Ground /\ t[1] \in All(WorkOf(rooms, passages))
        /\ t[2] \in Seq(Cells) /\ Len(t[2]) <= Diggers /\ Range(claims) \in SUBSET Range(t[2])
    BY <1>1, <1>9, <2>1, TargetFacts
  <2>3. n \in WorkerRecord /\ n.target = 0
    BY <1>0, MindFacts DEF WorkerRecord
  <2>4. UNCHANGED <<rooms, passages>> /\ work' = [work EXCEPT !.fresh = FALSE]
    BY <1>9 DEF Bite
  <2>5. /\ AirInv' /\ Ground' \in SUBSET Ground
        /\ (All(WorkOf(rooms, passages)) \cap Ground') \in SUBSET All(WorkOf(rooms, passages))'
    BY <1>0, <2>1, <2>2, <2>4, BiteOpens
  <2> HIDE DEF n
  <2>6. CrewInv'
    BY <1>0, <1>1, <2>1, <2>2, <2>3, <2>5, CrewTurn DEF n
  <2>7. WorkInv'
    <3>1. ~work'.fresh /\ work' \in WorkRecord
      BY <1>0, <2>4 DEF WorkInv, WorkRecord
    <3> QED BY <3>1 DEF WorkInv
  <2>8. DigInv'
    BY <1>0, <2>4, <2>5, <2>6, <2>7 DEF DigInv
  <2> QED BY <2>1, <2>2, <2>8
<1>10. CASE SkipDead(w)
  <2>1. UNCHANGED <<air, rooms, passages, work, claims, worker>>
    BY <1>10 DEF SkipDead, Kept
  <2> DEFINE n == worker[w]
  <2>2. n \in WorkerRecord /\ ~n.alive /\ worker' = [worker EXCEPT ![w] = n]
    BY <1>0, <1>10, <2>1 DEF SkipDead
  <2>3. claims' \in Seq(Cells) /\ Len(claims') <= Diggers /\ Range(claims) \in SUBSET Range(claims')
    BY <1>0, <2>1
  <2>4. DigInv'
    <3> HIDE DEF n
    <3> QED BY <1>3, <1>12, <2>1, <2>2, <2>3
  <2> QED BY <2>1, <2>4
<1>11. \/ Pass(w) \/ Deliver(w) \/ StandBy(w) \/ SkipDead(w)
       \/ (Approach(w) /\ worker[w].alive) \/ (Bite(w) /\ worker[w].alive)
  BY DEF ProcessWorker
<1> QED BY <1>5, <1>6, <1>7, <1>8, <1>9, <1>10, <1>11

\* Workers that die let go of their faces.
LEMMA EndTickKeepsDig ==
  ASSUME DigInv, EndTick
  PROVE  DigInv'
<1>0. /\ AirInv /\ rooms \in Seq(RoomRecord) /\ CrewInv /\ WorkInv
      /\ claims \in Seq(Cells) /\ Len(claims) <= Diggers /\ worker \in [Ids -> WorkerRecord]
      /\ Cardinality(Held) <= Diggers /\ Apart
  BY DEF DigInv, CrewInv
<1>1. turn' = 0 /\ UNCHANGED <<air, rooms, passages, work, claims>>
  BY DEF EndTick
<1>2. PICK dead \in SUBSET Ids :
        worker' = [w \in Ids |-> IF w \in dead THEN [Unassigned EXCEPT !.alive = FALSE] ELSE worker[w]]
  BY DEF EndTick
<1>3. \A w \in Ids : /\ worker'[w] \in WorkerRecord
                     /\ worker'[w].alive => worker'[w] = worker[w]
  <2>1. [Unassigned EXCEPT !.alive = FALSE] \in WorkerRecord
        /\ [Unassigned EXCEPT !.alive = FALSE].alive = FALSE
    BY DEF Unassigned, WorkerRecord
  <2> QED BY <1>0, <1>2, <2>1
<1>4. worker' \in [Ids -> WorkerRecord]
  <2>1. worker' = [w \in Ids |-> worker'[w]]
    BY <1>2
  <2> QED BY <1>3, <2>1
<1>5. Held' \in SUBSET Held /\ \A w \in Held' : worker'[w] = worker[w]
  BY <1>3 DEF Held, Digging
<1>6. Apart'
  BY <1>0, <1>5 DEF Apart
<1>7. Cardinality(Held') <= Diggers
  <2>1. IsFiniteSet(Held)
    <3>1. IsFiniteSet(1 .. Workers)
      BY Geometry, FS_Interval
    <3>2. Held \in SUBSET (1 .. Workers)
      BY DEF Held, Ids
    <3> QED BY <3>1, <3>2, FS_Subset
  <2>2. Cardinality(Held') <= Cardinality(Held) /\ IsFiniteSet(Held')
    BY <1>5, <2>1, FS_Subset
  <2> QED BY <1>0, <2>1, <2>2, Geometry, FS_CardinalityType
<1>8. CrewInv'
  <2>1. turn' \in 0 .. Workers + 1
    BY <1>1, Geometry
  <2> QED BY <1>0, <1>1, <1>4, <1>6, <1>7, <2>1 DEF CrewInv
<1>9. WorkInv'
  <2>1. WorkOf(rooms, passages)' = WorkOf(rooms, passages)
    BY <1>1, WorkSame
  <2> QED BY <1>0, <1>1, <2>1 DEF WorkInv
<1>10. AirInv' /\ rooms' \in Seq(RoomRecord)
  BY <1>0, <1>1 DEF AirInv
<1> QED BY <1>8, <1>9, <1>10 DEF DigInv

\* Every step keeps the dig invariant, and the ground it opens is ground of the work planned before it.
LEMMA DigStep ==
  ASSUME DigInv, [Next]_vars
  PROVE  DigInv' /\ (air' # air => (air' \ air) \in SUBSET All(WorkOf(rooms, passages)))
<1>1. CASE BeginTick
  <2>1. air' = air
    BY <1>1 DEF BeginTick
  <2> QED BY <1>1, <2>1, BeginTickKeepsDig
<1>2. ASSUME NEW w \in Ids, ProcessWorker(w) \/ SkipDead(w)
      PROVE  DigInv' /\ (air' # air => (air' \ air) \in SUBSET All(WorkOf(rooms, passages)))
  BY <1>2, TurnKeepsDig
<1>3. CASE EndTick
  <2>1. air' = air
    BY <1>3 DEF EndTick
  <2> QED BY <1>3, <2>1, EndTickKeepsDig
<1>4. CASE UNCHANGED vars
  <2>1. UNCHANGED <<turn, air, rooms, passages, work, claims, worker>>
    BY <1>4 DEF vars
  <2>2. /\ WorkOf(rooms, passages)' = WorkOf(rooms, passages) /\ Ground' = Ground
        /\ All(WorkOf(rooms, passages))' = All(WorkOf(rooms, passages))
    BY <2>1, WorkSame
  <2>3. Held' = Held
    BY <2>1 DEF Held, Digging
  <2>4. CrewInv'
    BY <2>1, <2>2, <2>3 DEF DigInv, CrewInv, Apart, Claimed, Planned
  <2>5. WorkInv'
    BY <2>1, <2>2 DEF DigInv, WorkInv
  <2>6. AirInv' /\ rooms' \in Seq(RoomRecord)
    BY <2>1 DEF DigInv, AirInv
  <2> QED BY <2>1, <2>4, <2>5, <2>6 DEF DigInv
<1> QED BY <1>1, <1>2, <1>3, <1>4 DEF Next

\* The inductive invariant of the crews and the plan's cache.
THEOREM DigInvariance == Spec => []DigInv
<1>1. DigInv /\ [Next]_vars => DigInv'
  BY DigStep
<1> QED BY DigInit, <1>1, PTL DEF Spec

\* For any ground and any number of workers, no two ants cut one face and no more than a crew of
\* them cuts at once (nest_plan.cpp:270-282, world.cpp:1181-1194).
THEOREM CrewsAlwaysFit == Spec => []CrewsFit
<1>1. DigInv => CrewsFit
  BY DEF DigInv, CrewInv, CrewsFit, Apart, Held
<1> QED BY <1>1, DigInvariance, PTL

\* For any ground, a cell is cut only while the project of the moment needs it, however long its
\* face has been held and however stale the plan's cache (nest_plan.hpp:3-10).
THEOREM OnlyThePlanIsDug == Spec => DugAsPlanned
<1>1. DigInv /\ [Next]_vars
        => [air' # air => air' \ air \subseteq All(WorkOf(rooms, passages))]_vars
  BY DigStep
<1> QED BY <1>1, DigInvariance, PTL DEF Spec, DugAsPlanned

-----------------------------------------------------------------------------
(* Grains *)

StatsRecord == [excavated : Nat, delivered : Nat, overflow : Nat]
Loaded == {w \in Ids : worker[w].spoil}
Dug == air \ FirstAir

\* Every grain cut is somewhere, and the counters are numbers.
GrainInv ==
  /\ stats \in StatsRecord /\ mound \in Nat /\ lost \in Nat
  /\ stats.excavated = Cardinality(Dug)
  /\ stats.excavated = stats.delivered + Cardinality(Loaded) + lost
  /\ stats.delivered = mound + stats.overflow

\* Cells and workers can be counted.
LEMMA Countable ==
  ASSUME AirInv
  PROVE  /\ IsFiniteSet(Dug) /\ Cardinality(Dug) \in Nat
         /\ IsFiniteSet(Loaded) /\ Cardinality(Loaded) \in Nat
<1>1. IsFiniteSet(Cells) /\ Dug \in SUBSET Cells
  BY Geometry DEF AirInv, Dug
<1>2. IsFiniteSet(1 .. Workers) /\ Loaded \in SUBSET (1 .. Workers)
  BY Geometry, FS_Interval DEF Loaded, Ids
<1> QED BY <1>1, <1>2, FS_Subset, FS_CardinalityType

\* A turn changes at most the load of the worker whose turn it is.
LEMMA LoadChange ==
  ASSUME worker \in [Ids -> WorkerRecord], NEW w \in Ids, NEW n \in WorkerRecord,
         worker' = [worker EXCEPT ![w] = n]
  PROVE  Loaded' = IF n.spoil THEN Loaded \cup {w} ELSE Loaded \ {w}
<1>1. worker'[w] = n /\ \A v \in Ids \ {w} : worker'[v] = worker[v]
  OBVIOUS
<1>2. \A v \in Ids : v \in Loaded' <=> IF v = w THEN n.spoil ELSE v \in Loaded
  BY <1>1 DEF Loaded
<1>3. Loaded' \in SUBSET Ids /\ Loaded \in SUBSET Ids
  BY DEF Loaded
<1>4. CASE n.spoil
  BY <1>2, <1>3, <1>4
<1>5. CASE ~n.spoil
  BY <1>2, <1>3, <1>5
<1> QED BY <1>4, <1>5

\* A turn that neither takes up nor puts down a load leaves the count as it is.
LEMMA LoadKept ==
  ASSUME worker \in [Ids -> WorkerRecord], NEW w \in Ids, NEW n \in WorkerRecord,
         n.spoil = worker[w].spoil, worker' = [worker EXCEPT ![w] = n]
  PROVE  Loaded' = Loaded
<1>1. Loaded' = IF n.spoil THEN Loaded \cup {w} ELSE Loaded \ {w}
  BY LoadChange
<1>2. w \in Loaded <=> n.spoil
  BY DEF Loaded
<1> QED BY <1>1, <1>2

\* No grain is cut, carried, heaped or lost at the start.
LEMMA GrainInit == Init => GrainInv
<1> SUFFICES ASSUME Init PROVE GrainInv
  OBVIOUS
<1>1. Dug = {} /\ Loaded = {}
  BY DEF Init, Dug, Loaded, Unassigned
<1>2. Cardinality(Dug) = 0 /\ Cardinality(Loaded) = 0
  BY <1>1, FS_EmptySet
<1>3. stats = [excavated |-> 0, delivered |-> 0, overflow |-> 0] /\ mound = 0 /\ lost = 0
  BY DEF Init
<1> QED BY <1>2, <1>3 DEF GrainInv, StatsRecord

\* A step that leaves the grains where they are.
LEMMA GrainsKept ==
  ASSUME GrainInv, UNCHANGED <<air, mound, stats, lost>>, Loaded' = Loaded
  PROVE  GrainInv'
BY DEF GrainInv, Dug

\* Reviewing the plan changes no load: a builder whose face is gone drops its claim, not its spoil.
LEMMA BeginTickKeepsGrains ==
  ASSUME DigInv, GrainInv, BeginTick
  PROVE  GrainInv'
<1>1. worker' = Dropped(All(work')) /\ UNCHANGED <<air, mound, stats, lost>>
  BY DEF BeginTick
<1>2. worker \in [Ids -> WorkerRecord]
  BY DEF DigInv, CrewInv
<1> DEFINE planned == All(work')
<1> HIDE DEF planned
<1>3. \A w \in Ids : worker'[w].spoil = worker[w].spoil
  <2> TAKE w \in Ids
  <2>1. worker'[w] = IF Digging(w) /\ worker[w].target \notin planned
                     THEN [worker[w] EXCEPT !.target = 0] ELSE worker[w]
    BY <1>1 DEF Dropped, planned
  <2>2. [worker[w] EXCEPT !.target = 0].spoil = worker[w].spoil
    BY <1>2 DEF WorkerRecord
  <2> QED BY <2>1, <2>2
<1>4. Loaded' = Loaded
  BY <1>3 DEF Loaded
<1> QED BY <1>1, <1>4, GrainsKept

\* A bite adds a grain to the digger's load; a delivery takes it to the mound, or out of view.
LEMMA TurnKeepsGrains ==
  ASSUME DigInv, GrainInv, NEW w \in Ids, ProcessWorker(w) \/ SkipDead(w)
  PROVE  GrainInv'
<1>0. AirInv /\ worker \in [Ids -> WorkerRecord] /\ worker[w] \in WorkerRecord
  BY DEF DigInv, CrewInv
<1>1. turn # 0
  BY Geometry DEF ProcessWorker, SkipDead, Ids
<1>2. /\ IsFiniteSet(Dug) /\ Cardinality(Dug) \in Nat
      /\ IsFiniteSet(Loaded) /\ Cardinality(Loaded) \in Nat
  BY <1>0, Countable
<1>10. /\ stats.excavated \in Nat /\ stats.delivered \in Nat /\ stats.overflow \in Nat
       /\ mound \in Nat /\ lost \in Nat
       /\ stats.excavated = Cardinality(Dug)
       /\ stats.excavated = stats.delivered + Cardinality(Loaded) + lost
       /\ stats.delivered = mound + stats.overflow
  BY DEF GrainInv, StatsRecord
<1>3. CASE Pass(w)
  <2>1. PICK m \in Minds(w) : worker' = [worker EXCEPT ![w] = m]
    BY <1>3 DEF Pass, Becomes
  <2>2. m \in WorkerRecord /\ m.spoil = worker[w].spoil
    BY <1>0, MindFacts
  <2>3. Loaded' = Loaded
    BY <1>0, <2>1, <2>2, LoadKept
  <2>4. UNCHANGED <<air, mound, stats, lost>>
    BY <1>3 DEF Pass, Kept
  <2> QED BY <2>3, <2>4, GrainsKept
<1>4. CASE StandBy(w)
  <2>1. PICK m \in Minds(w) : worker' = [worker EXCEPT ![w] = [m EXCEPT !.target = 0]]
    BY <1>4 DEF StandBy, Becomes
  <2> DEFINE n == [m EXCEPT !.target = 0]
  <2>2. n \in WorkerRecord /\ n.spoil = worker[w].spoil
    BY <1>0, MindFacts DEF WorkerRecord
  <2> HIDE DEF n
  <2>3. Loaded' = Loaded
    BY <1>0, <2>1, <2>2, LoadKept DEF n
  <2>4. UNCHANGED <<air, mound, stats, lost>>
    BY <1>4 DEF StandBy
  <2> QED BY <2>3, <2>4, GrainsKept
<1>5. CASE Approach(w) /\ worker[w].alive
  <2>0. PICK m \in Minds(w) : \E t \in Targets(m) :
          m.task = "Excavate" /\ worker' = [worker EXCEPT ![w] = [m EXCEPT !.target = t[1]]]
    BY <1>5 DEF Approach, Becomes
  <2>1. PICK t \in Targets(m) :
          m.task = "Excavate" /\ worker' = [worker EXCEPT ![w] = [m EXCEPT !.target = t[1]]]
    BY <2>0
  <2>2. t[1] \in Ground
    BY <1>1, <1>5, <2>1, TargetFacts
  <2> DEFINE n == [m EXCEPT !.target = t[1]]
  <2>3. n \in WorkerRecord /\ n.spoil = worker[w].spoil
    BY <1>0, <2>2, MindFacts DEF WorkerRecord, Ground
  <2> HIDE DEF n
  <2>4. Loaded' = Loaded
    BY <1>0, <2>1, <2>3, LoadKept DEF n
  <2>5. UNCHANGED <<air, mound, stats, lost>>
    BY <1>5 DEF Approach
  <2> QED BY <2>4, <2>5, GrainsKept
<1>6. CASE SkipDead(w)
  <2>1. UNCHANGED <<air, mound, stats, lost, worker>>
    BY <1>6 DEF SkipDead, Kept
  <2>2. Loaded' = Loaded
    BY <2>1 DEF Loaded
  <2> QED BY <2>1, <2>2, GrainsKept
<1>7. CASE Deliver(w)
  <2>1. PICK m \in Minds(w) : m.spoil /\ worker' = [worker EXCEPT ![w] = [m EXCEPT !.spoil = FALSE]]
    BY <1>7 DEF Deliver, Becomes
  <2> DEFINE n == [m EXCEPT !.spoil = FALSE]
  <2>2. n \in WorkerRecord /\ n.spoil = FALSE /\ worker[w].spoil
    <3>1. m \in WorkerRecord /\ m.spoil = worker[w].spoil
      BY <1>0, MindFacts
    <3>2. worker[w].spoil
      BY <2>1, <3>1, Zenon
    <3>3. n \in WorkerRecord /\ n.spoil = FALSE
      BY <3>1 DEF WorkerRecord
    <3> QED BY <3>2, <3>3
  <2> HIDE DEF n
  <2>3. Loaded' = Loaded \ {w} /\ w \in Loaded
    BY <1>0, <2>1, <2>2, LoadChange DEF n, Loaded
  <2>4. Cardinality(Loaded') = Cardinality(Loaded) - 1
    BY <1>2, <2>3, FS_RemoveElement
  <2>5. UNCHANGED <<air, lost>>
    BY <1>7 DEF Deliver
  <2>6. Dug' = Dug
    BY <2>5 DEF Dug
  <2>7. stats \in StatsRecord
    BY DEF GrainInv
  <2>8. CASE mound' = mound + 1 /\ stats' = [stats EXCEPT !.delivered = @ + 1]
    <3>1. /\ stats' \in StatsRecord /\ stats'.excavated = stats.excavated
          /\ stats'.overflow = stats.overflow /\ stats'.delivered = stats.delivered + 1
      BY <2>7, <2>8 DEF StatsRecord
    <3>2. stats'.delivered = mound' + stats'.overflow /\ mound' \in Nat /\ lost' \in Nat
      BY <1>10, <2>5, <2>8, <3>1
    <3>3. stats'.excavated = Cardinality(Dug')
      BY <1>10, <2>6, <3>1
    <3>4. stats'.excavated = stats'.delivered + Cardinality(Loaded') + lost'
      BY <1>2, <1>10, <2>4, <2>5, <3>1
    <3> QED BY <3>1, <3>2, <3>3, <3>4 DEF GrainInv
  <2>9. CASE mound' = mound /\ stats' = [stats EXCEPT !.delivered = @ + 1, !.overflow = @ + 1]
    <3>0. /\ stats' = [stats EXCEPT !.delivered = stats.delivered + 1, !.overflow = stats.overflow + 1]
          /\ stats.delivered + 1 \in Nat /\ stats.overflow + 1 \in Nat
      BY <1>10, <2>9
    <3>1. /\ stats' \in StatsRecord /\ stats'.excavated = stats.excavated
          /\ stats'.overflow = stats.overflow + 1 /\ stats'.delivered = stats.delivered + 1
      BY <2>7, <3>0 DEF StatsRecord
    <3>2. stats'.delivered = mound' + stats'.overflow /\ mound' \in Nat /\ lost' \in Nat
      BY <1>10, <2>5, <2>9, <3>1
    <3>3. stats'.excavated = Cardinality(Dug')
      BY <1>10, <2>6, <3>1
    <3>4. stats'.excavated = stats'.delivered + Cardinality(Loaded') + lost'
      BY <1>2, <1>10, <2>4, <2>5, <3>1
    <3> QED BY <3>1, <3>2, <3>3, <3>4 DEF GrainInv
  <2> QED BY <1>7, <2>8, <2>9 DEF Deliver
<1>8. CASE Bite(w) /\ worker[w].alive
  <2>0. PICK m \in Minds(w) : \E t \in Targets(m) :
          /\ ~m.spoil /\ m.task = "Excavate" /\ air' = air \cup {t[1]}
          /\ worker' = [worker EXCEPT ![w] = [m EXCEPT !.target = 0, !.spoil = TRUE]]
    BY <1>8 DEF Bite, Becomes
  <2>1. PICK t \in Targets(m) :
          /\ ~m.spoil /\ m.task = "Excavate" /\ air' = air \cup {t[1]}
          /\ worker' = [worker EXCEPT ![w] = [m EXCEPT !.target = 0, !.spoil = TRUE]]
    BY <2>0
  <2>2. t[1] \in Ground
    BY <1>1, <1>8, <2>1, TargetFacts
  <2> DEFINE n == [m EXCEPT !.target = 0, !.spoil = TRUE]
  <2>3. n \in WorkerRecord /\ n.spoil = TRUE /\ ~worker[w].spoil
    BY <1>0, <2>1, MindFacts DEF WorkerRecord
  <2> HIDE DEF n
  <2>4. Loaded' = Loaded \cup {w} /\ w \notin Loaded
    BY <1>0, <2>1, <2>3, LoadChange DEF n, Loaded
  <2>5. Cardinality(Loaded') = Cardinality(Loaded) + 1
    BY <1>2, <2>4, FS_AddElement
  <2>6. Dug' = Dug \cup {t[1]} /\ t[1] \notin Dug
    BY <1>0, <2>1, <2>2 DEF Dug, Ground, AirInv
  <2>7. Cardinality(Dug') = Cardinality(Dug) + 1
    BY <1>2, <2>6, FS_AddElement
  <2>8. UNCHANGED <<mound, lost>> /\ stats' = [stats EXCEPT !.excavated = @ + 1]
    BY <1>8 DEF Bite
  <2>9. /\ stats' \in StatsRecord /\ stats'.excavated = stats.excavated + 1
        /\ stats'.overflow = stats.overflow /\ stats'.delivered = stats.delivered
    BY <2>8 DEF GrainInv, StatsRecord
  <2>10. stats'.delivered = mound' + stats'.overflow /\ mound' \in Nat /\ lost' \in Nat
    BY <1>10, <2>8, <2>9
  <2>11. stats'.excavated = Cardinality(Dug')
    BY <1>10, <2>7, <2>9
  <2>12. stats'.excavated = stats'.delivered + Cardinality(Loaded') + lost'
    BY <1>2, <1>10, <2>5, <2>8, <2>9
  <2> QED BY <2>9, <2>10, <2>11, <2>12 DEF GrainInv
<1>9. \/ Pass(w) \/ Deliver(w) \/ StandBy(w) \/ SkipDead(w)
      \/ (Approach(w) /\ worker[w].alive) \/ (Bite(w) /\ worker[w].alive)
  BY DEF ProcessWorker
<1> QED BY <1>3, <1>4, <1>5, <1>6, <1>7, <1>8, <1>9

\* The grains of the workers that die are counted as lost.
LEMMA EndTickKeepsGrains ==
  ASSUME DigInv, GrainInv, EndTick
  PROVE  GrainInv'
<1>0. AirInv /\ worker \in [Ids -> WorkerRecord]
  BY DEF DigInv, CrewInv
<1>1. PICK dead \in SUBSET Ids :
        /\ worker' = [w \in Ids |->
                        IF w \in dead THEN [Unassigned EXCEPT !.alive = FALSE] ELSE worker[w]]
        /\ lost' = lost + Cardinality({w \in dead : worker[w].spoil})
  BY DEF EndTick
<1> DEFINE gone == {w \in dead : worker[w].spoil}
<1>2. IsFiniteSet(Loaded) /\ Cardinality(Loaded) \in Nat
  BY <1>0, Countable
<1>3. gone \in SUBSET Loaded
  BY DEF Loaded
<1>4. Loaded' = Loaded \ gone
  <2>1. \A w \in Ids : worker'[w].spoil = IF w \in dead THEN FALSE ELSE worker[w].spoil
    <3>1. [Unassigned EXCEPT !.alive = FALSE].spoil = FALSE
      BY DEF Unassigned
    <3> QED BY <1>1, <3>1
  <2> QED BY <2>1 DEF Loaded
<1>5. lost' = lost + Cardinality(gone)
  BY <1>1
<1> HIDE DEF gone
<1>6. /\ Cardinality(Loaded') = Cardinality(Loaded) - Cardinality(gone)
      /\ Cardinality(Loaded') \in Nat /\ Cardinality(gone) \in Nat
  <2>1. IsFiniteSet(gone) /\ Cardinality(gone) \in Nat
    BY <1>2, <1>3, FS_Subset, FS_CardinalityType
  <2>2. IsFiniteSet(Loaded \ gone)
        /\ Cardinality(Loaded \ gone) = Cardinality(Loaded) - Cardinality(Loaded \cap gone)
    BY <1>2, FS_Difference
  <2>3. Loaded \cap gone = gone
    BY <1>3
  <2> QED BY <1>4, <2>1, <2>2, <2>3, FS_CardinalityType
<1>7. UNCHANGED <<air, mound, stats>> /\ Dug' = Dug
  BY DEF EndTick, Dug
<1>8. /\ stats.excavated \in Nat /\ stats.delivered \in Nat /\ lost \in Nat
      /\ stats.excavated = stats.delivered + Cardinality(Loaded) + lost
  BY DEF GrainInv, StatsRecord
<1>9. lost' \in Nat /\ stats.excavated = stats.delivered + Cardinality(Loaded') + lost'
  BY <1>2, <1>5, <1>6, <1>8
<1> QED BY <1>7, <1>9 DEF GrainInv

\* The inductive invariant of the grains.
THEOREM GrainInvariance == Spec => []GrainInv
<1>1. DigInv /\ GrainInv /\ [Next]_vars => GrainInv'
  <2> SUFFICES ASSUME DigInv, GrainInv, [Next]_vars PROVE GrainInv'
    OBVIOUS
  <2>1. CASE UNCHANGED vars
    <3>1. UNCHANGED <<air, mound, stats, lost>> /\ Loaded' = Loaded
      BY <2>1 DEF vars, Loaded
    <3> QED BY <3>1, GrainsKept
  <2> QED BY <2>1, BeginTickKeepsGrains, TurnKeepsGrains, EndTickKeepsGrains DEF Next
<1> QED BY GrainInit, <1>1, DigInvariance, PTL DEF Spec

\* For any ground, every grain cut out of the nest is on the mound, out of view, in a hauler's grip
\* or dead with one (world.cpp:911,985,1219).
THEOREM EveryGrainCounted == Spec => []GrainsBalance
<1>1. GrainInv => GrainsBalance
  BY DEF GrainInv, GrainsBalance, Dug, Loaded
<1> QED BY <1>1, GrainInvariance, PTL

-----------------------------------------------------------------------------
(* Routes *)

\* A route through no rock from one of `ends`.
Leads(route, ends) ==
  /\ route \in Seq(Cells) /\ Len(route) >= 1 /\ route[1] \in ends
  /\ \A i \in 1 .. Len(route) : route[i] \notin Rock
  /\ \A i \in 1 .. Len(route) - 1 : route[i] \in Near[route[i + 1]]

\* The routes that reach goal, wherever they come from.
Backs(goal) == {r \in Seq(Cells) : Leads(r, Cells) /\ r[Len(r)] = goal}

\* A route that is led back one cell further still reaches its goal.
LEMMA BackStep ==
  ASSUME NEW goal, NEW r \in Backs(goal), NEW c \in Near[Head(r)], c \notin Rock
  PROVE  <<c>> \o r \in Backs(goal)
<1> DEFINE q == <<c>> \o r
<1>1. /\ r \in Seq(Cells) /\ Len(r) \in Nat /\ Len(r) >= 1 /\ r[Len(r)] = goal /\ Head(r) = r[1]
      /\ \A i \in 1 .. Len(r) : r[i] \notin Rock /\ r[i] \in Cells
      /\ \A i \in 1 .. Len(r) - 1 : r[i] \in Near[r[i + 1]]
  BY DEF Backs, Leads
<1>2. c \in Cells
  BY <1>1, Geometry
<1>3. /\ q \in Seq(Cells) /\ Len(q) = Len(r) + 1 /\ q[1] = c
      /\ \A i \in 1 .. Len(r) : q[i + 1] = r[i]
  <2>1. <<c>> \in Seq(Cells) /\ Len(<<c>>) = 1
    BY <1>2
  <2> QED BY <1>1, <2>1
<1> HIDE DEF q
<1>4. \A i \in 2 .. Len(q) : i - 1 \in 1 .. Len(r) /\ q[i] = r[i - 1]
  <2> TAKE i \in 2 .. Len(q)
  <2>1. i - 1 \in 1 .. Len(r) /\ (i - 1) + 1 = i
    BY <1>1, <1>3
  <2> QED BY <1>3, <2>1
<1>5. \A i \in 1 .. Len(q) : q[i] \notin Rock
  <2> TAKE i \in 1 .. Len(q)
  <2>1. CASE i = 1
    BY <1>3, <2>1
  <2>2. CASE i # 1
    <3>1. i \in 2 .. Len(q)
      BY <1>1, <1>3, <2>2
    <3> QED BY <1>1, <1>4, <3>1
  <2> QED BY <2>1, <2>2
<1>6. \A i \in 1 .. Len(q) - 1 : q[i] \in Near[q[i + 1]]
  <2> TAKE i \in 1 .. Len(q) - 1
  <2>1. i \in 1 .. Len(r) /\ q[i + 1] = r[i]
    BY <1>1, <1>3
  <2>2. CASE i = 1
    BY <1>1, <1>3, <2>1, <2>2
  <2>3. CASE i # 1
    <3>1. i \in 2 .. Len(q) /\ i - 1 \in 1 .. Len(r) - 1 /\ (i - 1) + 1 = i
      BY <1>1, <1>3, <2>1, <2>3
    <3>2. q[i] = r[i - 1] /\ r[i - 1] \in Near[r[i]]
      BY <1>1, <1>4, <3>1
    <3> QED BY <2>1, <3>2
  <2> QED BY <2>2, <2>3
<1>7. q[Len(q)] = goal
  <2>1. Len(r) \in 1 .. Len(r)
    BY <1>1
  <2> QED BY <1>1, <1>3, <2>1
<1>8. Len(q) >= 1 /\ q[1] \in Cells
  BY <1>1, <1>2, <1>3
<1>9. Leads(q, Cells)
  BY <1>3, <1>5, <1>6, <1>8 DEF Leads
<1>10. q \in Backs(goal)
  BY <1>3, <1>7, <1>9 DEF Backs
<1> QED BY <1>10 DEF q

\* What Routes offers are routes to the goal from one of the ends.
LEMMA RoutesLead ==
  ASSUME NEW goal \in Cells, NEW ends, NEW r \in Routes(goal, ends)
  PROVE  Leads(r, ends) /\ r[Len(r)] = goal
<1> DEFINE N == Cardinality(Cells)
           S == SUBSET Backs(goal)
           Longer(R) == UNION {{<<c>> \o q : c \in Near[Head(q)] \ (Rock \cup Range(q))} :
                                 q \in {p \in R : Head(p) \notin ends}}
           Body(f) == [n \in 1 .. N |-> IF n = 1 THEN {<<goal>>} ELSE Longer(f[n - 1])]
           back == CHOOSE f : f = Body(f)
           next == [p \in Steps(N - 1, S) |-> Longer(p[2])]
<1>1. N \in Nat /\ N >= 1 /\ N - 1 \in Nat
  <2>1. N \in Nat /\ IsFiniteSet(Cells) /\ Cells # {}
    BY Geometry
  <2>2. N # 0
    BY <2>1, FS_EmptySet
  <2> HIDE DEF N
  <2> QED BY <2>1, <2>2
<1>2. goal \notin Rock /\ r \in UNION {back[n] : n \in DOMAIN back} /\ Head(r) \in ends
  BY DEF Routes
<1>3. {<<goal>>} \in S
  <2>1. <<goal>> \in Seq(Cells) /\ Len(<<goal>>) = 1 /\ <<goal>>[1] = goal
    OBVIOUS
  <2>2. Leads(<<goal>>, Cells)
    BY <1>2, <2>1 DEF Leads
  <2> QED BY <2>1, <2>2 DEF Backs
<1>4. \A R \in S : Longer(R) \in S
  <2>1. ASSUME NEW R \in S, NEW x \in Longer(R) PROVE x \in Backs(goal)
    <3>1. PICK q \in R : x \in {<<c>> \o q : c \in Near[Head(q)] \ (Rock \cup Range(q))}
      OBVIOUS
    <3>2. PICK c \in Near[Head(q)] \ Rock : x = <<c>> \o q
      BY <3>1
    <3> QED BY <3>2, BackStep
  <2> HIDE DEF Longer
  <2> QED BY <2>1
<1> HIDE DEF Longer
<1>5. PICK g \in [0 .. N - 1 -> S] : Passed(g, {<<goal>>}, next, N - 1)
  <2>1. next \in [Steps(N - 1, S) -> S]
    <3>1. \A p \in Steps(N - 1, S) : p[2] \in S
      <4> HIDE DEF S
      <4> QED BY DEF Steps
    <3> HIDE DEF S
    <3> QED BY <1>4, <3>1
  <2> HIDE DEF next, S, N
  <2> QED BY ONLY <1>1, <1>3, <2>1, Iterated
<1> DEFINE f == [n \in 1 .. N |-> g[n - 1]]
<1>6. f = Body(f)
  <2>1. ASSUME NEW n \in 1 .. N PROVE f[n] = Body(f)[n]
    <3>1. CASE n = 1
      <4>1. f[n] = g[0]
        BY <3>1
      <4>2. g[0] = {<<goal>>}
        BY <1>5 DEF Passed
      <4> QED BY <3>1, <4>1, <4>2
    <3>2. CASE n # 1
      <4>1. n - 1 \in 1 .. N - 1 /\ n - 1 \in 1 .. N /\ (n - 1) - 1 \in 0 .. N - 1
        BY <1>1, <3>2
      <4>2. f[n] = g[n - 1] /\ f[n - 1] = g[(n - 1) - 1]
        BY <4>1
      <4>3. g[(n - 1) - 1] \in S
        <5> HIDE DEF S
        <5> QED BY <1>5, <4>1
      <4>4. <<n - 1, g[(n - 1) - 1]>> \in Steps(N - 1, S)
        <5> HIDE DEF S
        <5> QED BY <4>1, <4>3 DEF Steps
      <4>5. g[n - 1] = next[<<n - 1, g[(n - 1) - 1]>>]
        BY <1>5, <4>1 DEF Passed
      <4>6. g[n - 1] = Longer(f[n - 1])
        <5> HIDE DEF S, f
        <5> QED BY <4>2, <4>4, <4>5
      <4> QED BY <3>2, <4>2, <4>6
    <3> QED BY <3>1, <3>2
  <2> HIDE DEF S, N
  <2> QED BY <2>1
<1>7. back = Body(back)
  <2> HIDE DEF Body, f
  <2> QED BY <1>6
<1>8. /\ DOMAIN back = 1 .. N /\ back[1] = {<<goal>>}
      /\ \A n \in 2 .. N : back[n] = Longer(back[n - 1])
  <2> HIDE DEF back
  <2>1. DOMAIN back = 1 .. N
    BY <1>7
  <2>2. \A n \in 1 .. N : back[n] = Body(back)[n]
    BY <1>7
  <2>3. 1 \in 1 .. N /\ \A n \in 2 .. N : n \in 1 .. N /\ n # 1
    BY <1>1
  <2> HIDE DEF N
  <2> QED BY <2>1, <2>2, <2>3
<1> HIDE DEF back
<1> DEFINE Bad == {k \in 0 .. N - 1 : back[k + 1] \notin S}
<1>9. ASSUME NEW k \in Bad PROVE \E j \in Bad : j < k
  <2>1. k # 0
    BY <1>3, <1>8
  <2>2. k \in 1 .. N - 1 /\ k - 1 \in 0 .. N - 1 /\ k - 1 < k /\ k + 1 \in 2 .. N
        /\ (k - 1) + 1 = k /\ (k + 1) - 1 = k
    BY <1>1, <2>1
  <2>3. back[k + 1] = Longer(back[k])
    BY <1>8, <2>2
  <2>4. back[k] \notin S
    <3> HIDE DEF S
    <3> QED BY <1>4, <2>3
  <2> QED BY <2>2, <2>4
<1>10. Bad \in SUBSET (0 .. N - 1)
  OBVIOUS
<1>11. Bad = {}
  <2> HIDE DEF Bad, N
  <2> QED BY ONLY <1>1, <1>9, <1>10, NoneBadUpTo
<1>12. r \in Backs(goal)
  <2>1. PICK n \in 1 .. N : r \in back[n]
    BY <1>2, <1>8
  <2>2. n - 1 \in 0 .. N - 1 /\ (n - 1) + 1 = n
    BY <1>1
  <2>3. back[n] \in S
    BY <1>11, <2>2
  <2> QED BY <2>1, <2>3
<1>13. Leads(r, Cells) /\ r[Len(r)] = goal /\ r \in Seq(Cells) /\ Len(r) >= 1
  BY <1>12 DEF Backs, Leads
<1>14. r[1] \in ends
  BY <1>2, <1>13
<1> QED BY <1>13, <1>14 DEF Leads

-----------------------------------------------------------------------------
(* The plan *)

PassageRecord == [route : Seq(Cells), room : Nat, complete : BOOLEAN]

\* A passage begins where the nest is and ends where its room is, and what is called complete is.
PassageSound(p, rs) ==
  /\ Leads(p.route, Connected)
  /\ p.room # 0 => p.room \in DOMAIN rs /\ p.route[Len(p.route)] = rs[p.room].site.centre
  /\ p.complete => Cut(p)
PassagesSound(ps, rs) == ps \in Seq(PassageRecord) /\ \A k \in DOMAIN ps : PassageSound(ps[k], rs)

\* A room that is complete, or has no passage, is reached from the nest.
Reached(rs, ps) ==
  \A i \in DOMAIN rs :
    (rs[i].complete \/ \A k \in DOMAIN ps : ps[k].room # i) => RoomCells(rs[i]) \cap Connected # {}

OneProject(rs) == \A i, j \in DOMAIN rs : ~rs[i].complete /\ ~rs[j].complete => i = j

PlanOf(rs, ps) ==
  rs \in Seq(RoomRecord) /\ PassagesSound(ps, rs) /\ Reached(rs, ps) /\ OneProject(rs)

\* Passages are only put behind those there are.
Extends(p, ps) == Len(p) >= Len(ps) /\ \A k \in 1 .. Len(ps) : p[k] = ps[k]

\* q is ps with one more sound passage, of room i.
Added(q, ps, rs, i) ==
  PassagesSound(q, rs) /\ Extends(q, ps) /\ Len(q) = Len(ps) + 1 /\ q[Len(ps) + 1].room = i

\* One more sound passage leaves the passages sound.
LEMMA PassageAdded ==
  ASSUME NEW rs, NEW ps, PassagesSound(ps, rs), NEW p \in PassageRecord, PassageSound(p, rs)
  PROVE  Added(Append(ps, p), ps, rs, p.room)
<1> DEFINE q == Append(ps, p)
<1>3. ps \in Seq(PassageRecord) /\ Len(ps) \in Nat
  BY DEF PassagesSound
<1>4. /\ q \in Seq(PassageRecord) /\ Len(q) = Len(ps) + 1 /\ q[Len(ps) + 1] = p
      /\ \A k \in 1 .. Len(ps) : q[k] = ps[k]
  BY <1>3
<1> HIDE DEF q
<1>5. \A k \in DOMAIN q : PassageSound(q[k], rs)
  <2> TAKE k \in DOMAIN q
  <2>1. k \in 1 .. Len(ps) + 1
    BY <1>4
  <2>2. CASE k = Len(ps) + 1
    BY <1>4, <2>2
  <2>3. CASE k # Len(ps) + 1
    <3>1. k \in 1 .. Len(ps) /\ k \in DOMAIN ps
      BY <1>3, <2>1, <2>3
    <3> QED BY <1>4, <3>1 DEF PassagesSound
  <2> QED BY <2>2, <2>3
<1>6. PassagesSound(q, rs) /\ Extends(q, ps)
  BY <1>3, <1>4, <1>5 DEF PassagesSound, Extends
<1>7. Added(q, ps, rs, p.room)
  BY <1>4, <1>6 DEF Added
<1> QED BY <1>7 DEF q

\* Extensions of extensions are extensions.
LEMMA ExtendsTransitive ==
  ASSUME NEW T, NEW a \in Seq(T), NEW b \in Seq(T), NEW c \in Seq(T), Extends(c, b), Extends(b, a)
  PROVE  Extends(c, a)
<1>1. Len(a) \in Nat /\ Len(b) \in Nat /\ Len(c) \in Nat
  OBVIOUS
<1> QED BY <1>1 DEF Extends

\* A route from the nest to a room makes a sound passage.
LEMMA RouteSound ==
  ASSUME NEW rs \in Seq(RoomRecord), NEW i \in DOMAIN rs, NEW r \in RoutesTo(rs[i].site.centre),
         NEW c \in BOOLEAN, c => Cut([route |-> r])
  PROVE  /\ NewPassage(r, i, c) \in PassageRecord /\ NewPassage(r, i, c).room = i
         /\ PassageSound(NewPassage(r, i, c), rs)
<1>1. rs[i] \in RoomRecord /\ i \in Nat
  OBVIOUS
<1>2. rs[i].site.centre \in Cells
  BY <1>1, RoomInCells
<1>3. Leads(r, Connected) /\ r[Len(r)] = rs[i].site.centre
  BY <1>2, RoutesLead DEF RoutesTo
<1> DEFINE p == NewPassage(r, i, c)
<1>4. p.route = r /\ p.room = i /\ p.complete = c
  BY DEF NewPassage
<1>5. p \in PassageRecord
  BY <1>1, <1>3 DEF NewPassage, PassageRecord, Leads
<1>6. Cut([route |-> r]) => Cut(p)
  BY <1>4 DEF Cut, PassageCells
<1> HIDE DEF p
<1>7. PassageSound(p, rs)
  BY <1>3, <1>4, <1>6 DEF PassageSound
<1> QED BY <1>4, <1>5, <1>7 DEF p

\* A room that needs an entrance gets a sound one.
LEMMA EntranceSound ==
  ASSUME NEW rs \in Seq(RoomRecord), NEW ps, PassagesSound(ps, rs), NEW i \in 1 .. Len(rs),
         NEW q \in Entrance(rs, ps, i)
  PROVE  PassagesSound(q, rs) /\ Extends(q, ps)
<1>1. i \in DOMAIN rs /\ i \in Nat
  OBVIOUS
<1>2. CASE q = ps
  <2>1. Len(ps) \in Nat
    BY DEF PassagesSound
  <2> QED BY <1>2, <2>1 DEF Extends
<1>3. CASE q # ps
  <2>1. PICK r \in RoutesTo(rs[i].site.centre) :
          q = Append(ps, [route |-> r, room |-> i, complete |-> Cut([route |-> r])])
    BY <1>3 DEF Entrance
  <2> DEFINE c == Cut([route |-> r])
  <2>2. c \in BOOLEAN /\ (c => Cut([route |-> r]))
    BY DEF Cut
  <2>3. q = Append(ps, NewPassage(r, i, c))
    BY <2>1 DEF NewPassage
  <2> HIDE DEF c
  <2>4. NewPassage(r, i, c) \in PassageRecord /\ PassageSound(NewPassage(r, i, c), rs)
    BY <1>1, <2>2, RouteSound
  <2> DEFINE p == NewPassage(r, i, c)
  <2> HIDE DEF p
  <2>5. Added(Append(ps, p), ps, rs, p.room)
    BY <2>4, PassageAdded DEF p
  <2>6. q = Append(ps, p)
    BY <2>3 DEF p
  <2> QED BY <2>5, <2>6 DEF Added
<1> QED BY <1>2, <1>3

\* Once every room has been seen to, the passages are sound and those there were are still there.
LEMMA EnteredSound ==
  ASSUME NEW rs \in Seq(RoomRecord), NEW ps, PassagesSound(ps, rs), NEW q \in Entered(rs, ps)
  PROVE  PassagesSound(q, rs) /\ Extends(q, ps)
<1> DEFINE N == Len(rs)
           Good == {p \in Seq(PassageRecord) : PassagesSound(p, rs) /\ Extends(p, ps)}
           S == SUBSET Good
           More(R, i) == UNION {Entrance(rs, p, i) : p \in R}
           Body(f) == [i \in 0 .. N |-> IF i = 0 THEN {ps} ELSE More(f[i - 1], i)]
           upTo == CHOOSE f : f = Body(f)
           next == [x \in Steps(N, S) |-> More(x[2], x[1])]
<1>1. N \in Nat /\ ps \in Seq(PassageRecord) /\ Len(ps) \in Nat
  BY DEF PassagesSound
<1>2. q \in upTo[N]
  BY DEF Entered
<1>3. {ps} \in S
  BY <1>1 DEF Extends
<1>4. ASSUME NEW R \in S, NEW i \in 1 .. N PROVE More(R, i) \in S
  <2>1. ASSUME NEW x \in More(R, i) PROVE x \in Good
    <3>1. PICK p \in R : x \in Entrance(rs, p, i)
      OBVIOUS
    <3>2. p \in Seq(PassageRecord) /\ PassagesSound(p, rs) /\ Extends(p, ps)
      OBVIOUS
    <3>3. PassagesSound(x, rs) /\ Extends(x, p)
      BY <3>1, <3>2, EntranceSound
    <3>4. x \in Seq(PassageRecord)
      BY <3>3 DEF PassagesSound
    <3>5. Extends(x, ps)
      BY <1>1, <3>2, <3>3, <3>4, ExtendsTransitive
    <3> QED BY <3>3, <3>4, <3>5
  <2> HIDE DEF More, Good
  <2> QED BY <2>1
<1> HIDE DEF More
<1>5. PICK f \in [0 .. N -> S] : Passed(f, {ps}, next, N)
  <2>1. next \in [Steps(N, S) -> S]
    <3>1. \A x \in Steps(N, S) : x[2] \in S /\ x[1] \in 1 .. N
      <4> HIDE DEF S, N
      <4> QED BY DEF Steps
    <3> HIDE DEF S, N
    <3> QED BY <1>4, <3>1
  <2> HIDE DEF next, S, N
  <2> QED BY ONLY <1>1, <1>3, <2>1, Iterated
<1>6. f = Body(f)
  <2>1. ASSUME NEW i \in 0 .. N PROVE f[i] = Body(f)[i]
    <3>1. CASE i = 0
      <4>1. f[0] = {ps}
        BY <1>5 DEF Passed
      <4> QED BY <3>1, <4>1
    <3>2. CASE i # 0
      <4>1. i \in 1 .. N /\ i - 1 \in 0 .. N
        BY <1>1, <3>2
      <4>2. f[i - 1] \in S
        <5> HIDE DEF S
        <5> QED BY <4>1
      <4>3. <<i, f[i - 1]>> \in Steps(N, S)
        <5> HIDE DEF S
        <5> QED BY <4>1, <4>2 DEF Steps
      <4>4. f[i] = next[<<i, f[i - 1]>>]
        BY <1>5, <4>1 DEF Passed
      <4>5. f[i] = More(f[i - 1], i)
        <5> HIDE DEF S
        <5> QED BY <4>3, <4>4
      <4> QED BY <3>2, <4>5
    <3> QED BY <3>1, <3>2
  <2>2. f = [i \in 0 .. N |-> f[i]]
    <3> HIDE DEF S
    <3> QED OBVIOUS
  <2> HIDE DEF S, N
  <2> QED BY <2>1, <2>2
<1>7. upTo = Body(upTo)
  <2> HIDE DEF Body
  <2> QED BY <1>6
<1>8. upTo[0] = {ps} /\ \A i \in 1 .. N : upTo[i] = More(upTo[i - 1], i)
  <2> HIDE DEF upTo
  <2>1. \A i \in 0 .. N : upTo[i] = Body(upTo)[i]
    BY <1>7
  <2>2. 0 \in 0 .. N /\ \A i \in 1 .. N : i \in 0 .. N /\ i # 0
    BY <1>1
  <2> HIDE DEF N
  <2> QED BY <2>1, <2>2
<1> HIDE DEF upTo
<1> DEFINE Bad == {i \in 0 .. N : upTo[i] \notin S}
<1>9. ASSUME NEW i \in Bad PROVE \E j \in Bad : j < i
  <2>1. i # 0
    BY <1>3, <1>8
  <2>2. i \in 1 .. N /\ i - 1 \in 0 .. N /\ i - 1 < i
    BY <1>1, <2>1
  <2>3. upTo[i - 1] \notin S
    <3> HIDE DEF S
    <3> QED BY <1>4, <1>8, <2>2
  <2> QED BY <2>2, <2>3
<1>10. Bad \in SUBSET (0 .. N)
  OBVIOUS
<1>11. Bad = {}
  <2> HIDE DEF Bad, N
  <2> QED BY ONLY <1>1, <1>9, <1>10, NoneBadUpTo
<1>12. N \in 0 .. N
  BY <1>1
<1>13. q \in Good
  BY <1>2, <1>11, <1>12
<1> QED BY <1>13

\* A review keeps the plan sound and its passages where they are; it completes what it may.
LEMMA ReviewKeepsPlan ==
  ASSUME AirInv, PlanOf(rooms, passages), NEW v \in Reviewed
  PROVE  PlanOf(v[1], v[2]) /\ Len(v[2]) >= Len(passages)
         /\ \A k \in DOMAIN passages :
              /\ v[2][k].room = passages[k].room
              /\ v[2][k].complete <=> passages[k].complete \/ Cut(passages[k])
<1> DEFINE cut == [i \in DOMAIN passages |->
                     [passages[i] EXCEPT !.complete = @ \/ Cut(passages[i])]]
           done(ps, i) == /\ ChamberCells(rooms[i]) # {} /\ ChamberCells(rooms[i]) \cap Ground = {}
                          /\ \A k \in DOMAIN ps : ps[k].room = i => ps[k].complete
           now(ps) == [i \in DOMAIN rooms |-> [rooms[i] EXCEPT !.complete = @ \/ done(ps, i)]]
<1>1. PICK ps \in Entered(rooms, cut) : v = <<now(ps), ps>>
  BY DEF Reviewed
<1>2. /\ rooms \in Seq(RoomRecord) /\ passages \in Seq(PassageRecord)
      /\ \A k \in DOMAIN passages : PassageSound(passages[k], rooms)
      /\ Reached(rooms, passages) /\ OneProject(rooms)
      /\ DOMAIN passages = 1 .. Len(passages) /\ Len(passages) \in Nat
      /\ DOMAIN rooms = 1 .. Len(rooms) /\ Len(rooms) \in Nat
  BY DEF PlanOf, PassagesSound
<1> HIDE DEF done
<1>3. \A k \in DOMAIN passages :
        /\ cut[k] \in PassageRecord /\ cut[k].route = passages[k].route
        /\ cut[k].room = passages[k].room
        /\ cut[k].complete <=> passages[k].complete \/ Cut(passages[k])
  <2> TAKE k \in DOMAIN passages
  <2>1. passages[k] \in PassageRecord
    BY <1>2
  <2> DEFINE c == passages[k].complete \/ Cut(passages[k])
  <2>2. cut[k] = [passages[k] EXCEPT !.complete = c] /\ c \in BOOLEAN
    OBVIOUS
  <2> HIDE DEF c, cut
  <2>3. /\ cut[k] \in PassageRecord /\ cut[k].route = passages[k].route
        /\ cut[k].room = passages[k].room /\ cut[k].complete = c
    BY <2>1, <2>2 DEF PassageRecord
  <2> QED BY <2>3 DEF c
<1>4. cut \in Seq(PassageRecord) /\ Len(cut) = Len(passages) /\ DOMAIN cut = DOMAIN passages
  <2>1. cut \in [1 .. Len(passages) -> PassageRecord]
    BY <1>2, <1>3
  <2> QED BY <1>2, <2>1
<1> HIDE DEF cut
<1>5. PassagesSound(cut, rooms)
  <2>1. ASSUME NEW k \in DOMAIN passages PROVE PassageSound(cut[k], rooms)
    <3>1. PassageSound(passages[k], rooms)
      BY <1>2
    <3>2. Cut(cut[k]) <=> Cut(passages[k])
      BY <1>3 DEF Cut, PassageCells
    <3> QED BY <1>3, <3>1, <3>2 DEF PassageSound
  <2> QED BY <1>4, <2>1 DEF PassagesSound
<1>6. PassagesSound(ps, rooms) /\ Extends(ps, cut)
  BY <1>1, <1>2, <1>5, EnteredSound
<1>7. v[1] = now(ps) /\ v[2] = ps
  BY <1>1
<1>8. /\ v[1] \in Seq(RoomRecord) /\ Len(v[1]) = Len(rooms) /\ DOMAIN v[1] = DOMAIN rooms
      /\ \A i \in DOMAIN rooms : /\ v[1][i].site = rooms[i].site /\ v[1][i].wide = rooms[i].wide
                                 /\ RoomCells(v[1][i]) = RoomCells(rooms[i])
  BY <1>2, ReviewedRooms DEF RoomCells
<1>9. \A i \in DOMAIN rooms : v[1][i].complete <=> rooms[i].complete \/ done(ps, i)
  <2> TAKE i \in DOMAIN rooms
  <2>1. rooms[i] \in RoomRecord
    BY <1>2
  <2> DEFINE c == rooms[i].complete \/ done(ps, i)
  <2>2. v[1][i] = [rooms[i] EXCEPT !.complete = c]
    BY <1>7
  <2> HIDE DEF c
  <2>3. v[1][i].complete = c
    BY <2>1, <2>2 DEF RoomRecord
  <2> QED BY <2>3 DEF c
<1>10. PassagesSound(v[2], v[1])
  <2>1. ASSUME NEW p, PassageSound(p, rooms) PROVE PassageSound(p, v[1])
    BY <1>8, <2>1 DEF PassageSound
  <2> QED BY <1>6, <1>7, <2>1 DEF PassagesSound
<1>11. Len(v[2]) >= Len(passages) /\ \A k \in DOMAIN passages : k \in DOMAIN v[2] /\ v[2][k] = cut[k]
  <2>1. Len(ps) >= Len(cut) /\ \A k \in 1 .. Len(cut) : ps[k] = cut[k]
    BY <1>6 DEF Extends
  <2>2. ps \in Seq(PassageRecord)
    BY <1>6 DEF PassagesSound
  <2>3. Len(ps) \in Nat /\ DOMAIN ps = 1 .. Len(ps)
    BY <2>2
  <2> QED BY <1>2, <1>4, <1>7, <2>1, <2>3
<1>12. Reached(v[1], v[2])
  <2> SUFFICES ASSUME NEW i \in DOMAIN rooms,
                      v[1][i].complete \/ \A k \in DOMAIN v[2] : v[2][k].room # i
               PROVE  RoomCells(rooms[i]) \cap Connected # {}
    BY <1>8 DEF Reached
  <2>1. CASE done(ps, i)
    <3>1. ChamberCells(rooms[i]) # {}
      BY <2>1 DEF done
    <3>2. rooms[i] \in RoomRecord
      BY <1>2
    <3> DEFINE E == RoomCells(rooms[i]) \cap Connected
               R == RoomCells(rooms[i]) \ Rock
    <3>3. R \in SUBSET Cells /\ ChamberCells(rooms[i]) = Spread(E, R)
      BY <3>2, RoomInCells DEF ChamberCells
    <3> HIDE DEF E, R
    <3>4. E \cap R # {}
      BY <3>1, <3>3, SpreadBounds
    <3> QED BY <3>4 DEF E
  <2>2. CASE rooms[i].complete \/ \A k \in DOMAIN v[2] : v[2][k].room # i
    <3>1. rooms[i].complete \/ \A k \in DOMAIN passages : passages[k].room # i
      BY <1>3, <1>11, <2>2
    <3> QED BY <1>2, <3>1 DEF Reached
  <2> QED BY <1>9, <2>1, <2>2
<1>13. OneProject(v[1])
  BY <1>2, <1>8, <1>9 DEF OneProject
<1>14. PlanOf(v[1], v[2])
  BY <1>8, <1>10, <1>12, <1>13 DEF PlanOf
<1> QED BY <1>3, <1>11, <1>14

\* Growing an idle plan by a room or a passage keeps it sound.
LEMMA GrowthKeepsPlan ==
  ASSUME NEW rs, NEW ps, PlanOf(rs, ps), Project(rs) = 0, NEW kind,
         NEW u \in Widened(rs, ps, kind) \cup Sited(rs, ps, kind) \cup Linked(rs, ps)
  PROVE  PlanOf(u[1], u[2])
<1>1. /\ rs \in Seq(RoomRecord) /\ PassagesSound(ps, rs) /\ Reached(rs, ps) /\ OneProject(rs)
      /\ ps \in Seq(PassageRecord) /\ Len(ps) \in Nat /\ DOMAIN ps = 1 .. Len(ps)
      /\ DOMAIN rs = 1 .. Len(rs) /\ Len(rs) \in Nat
  BY DEF PlanOf, PassagesSound
<1>2. \A i \in DOMAIN rs : rs[i].complete
  <2>1. IF \A i \in DOMAIN rs : rs[i].complete THEN Project(rs) = 0
         ELSE Project(rs) \in DOMAIN rs /\ ~rs[Project(rs)].complete
    BY <1>1, ProjectIn
  <2>2. 0 \notin DOMAIN rs
    BY <1>1
  <2> QED BY <2>1, <2>2
<1>3. \A i \in DOMAIN rs : RoomCells(rs[i]) \cap Connected # {}
  BY <1>1, <1>2 DEF Reached
<1>4. CASE u \in Widened(rs, ps, kind)
  <2>1. PICK i \in DOMAIN rs :
           /\ u[2] = ps /\ u[1] \in Seq(RoomRecord) /\ DOMAIN u[1] = DOMAIN rs
           /\ ~rs[i].wide /\ u[1][i].wide /\ u[1][i].site = rs[i].site
           /\ \A j \in DOMAIN rs \ {i} : u[1][j] = rs[j]
    <3>1. rs \in Seq(RoomRecord)
      BY <1>1
    <3> QED BY <1>4, <3>1, WidenedRooms
  <2>2. u[2] = ps
    BY <2>1
  <2>3. \A j \in DOMAIN rs : u[1][j].site = rs[j].site
    BY <2>1
  <2>4. PassagesSound(u[2], u[1])
    <3>1. ASSUME NEW p, PassageSound(p, rs) PROVE PassageSound(p, u[1])
      BY <2>1, <2>3, <3>1 DEF PassageSound
    <3> QED BY <1>1, <2>2, <3>1 DEF PassagesSound
  <2>5. \A j \in DOMAIN rs : RoomCells(u[1][j]) \cap Connected # {}
    <3> TAKE j \in DOMAIN rs
    <3>1. CASE j = i
      <4>1. rs[i] \in RoomRecord
        BY <1>1
      <4>2. RoomCells(u[1][i]) = rs[i].site.outer /\ RoomCells(rs[i]) = rs[i].site.inner
        BY <2>1 DEF RoomCells
      <4>3. rs[i].site.inner \in SUBSET rs[i].site.outer
        BY <4>1, Geometry DEF RoomRecord
      <4> QED BY <1>3, <3>1, <4>2, <4>3
    <3>2. CASE j # i
      BY <1>3, <2>1, <3>2
    <3> QED BY <3>1, <3>2
  <2>6. Reached(u[1], u[2])
    BY <2>1, <2>5 DEF Reached
  <2>7. OneProject(u[1])
    BY <1>2, <2>1 DEF OneProject
  <2> QED BY <2>1, <2>4, <2>6, <2>7 DEF PlanOf
<1>5. CASE u \in Sited(rs, ps, kind)
  <2>1. PICK s \in Sites : \E r \in RoutesTo(s.centre) :
           /\ u[2] = WithPassage(ps, r, Len(rs) + 1, FALSE)
           /\ u[1] \in Seq(RoomRecord) /\ Len(u[1]) = Len(rs) + 1
           /\ u[1][Len(rs) + 1].site = s /\ ~u[1][Len(rs) + 1].complete
           /\ \A j \in 1 .. Len(rs) : u[1][j] = rs[j]
    <3>1. rs \in Seq(RoomRecord)
      BY <1>1
    <3>2. IsSited(u, rs, ps)
      BY <1>5, <3>1, SitedRooms
    <3> QED BY <3>2 DEF IsSited
  <2>2. PICK r \in RoutesTo(s.centre) :
           u[2] = WithPassage(ps, r, Len(rs) + 1, FALSE)
    BY <2>1
  <2> DEFINE n == Len(rs) + 1
             rs2 == u[1]
  <2>3. /\ rs2 \in Seq(RoomRecord) /\ DOMAIN rs2 = 1 .. n /\ n \in DOMAIN rs2 /\ n \in Nat
        /\ rs2[n].site = s /\ ~rs2[n].complete /\ n \notin DOMAIN rs
        /\ \A j \in DOMAIN rs : j \in DOMAIN rs2 /\ rs2[j] = rs[j]
        /\ \A j \in DOMAIN rs2 : j = n \/ j \in DOMAIN rs
    BY <1>1, <2>1
  <2> HIDE DEF rs2, n
  <2>4. PassagesSound(ps, rs2)
    <3>1. ASSUME NEW p, PassageSound(p, rs) PROVE PassageSound(p, rs2)
      BY <2>3, <3>1 DEF PassageSound
    <3> QED BY <1>1, <3>1 DEF PassagesSound
  <2> DEFINE no == FALSE
             p == NewPassage(r, n, no)
  <2>5. u[2] = Append(ps, p)
    BY <2>2 DEF n, WithPassage
  <2>6. p \in PassageRecord /\ p.room = n /\ PassageSound(p, rs2)
    <3>1. r \in RoutesTo(rs2[n].site.centre)
      BY <2>3
    <3>2. no \in BOOLEAN /\ (no => Cut([route |-> r]))
      OBVIOUS
    <3> HIDE DEF no
    <3> QED BY <2>3, <3>1, <3>2, RouteSound
  <2> HIDE DEF p
  <2>7. /\ PassagesSound(u[2], rs2) /\ Extends(u[2], ps)
        /\ Len(u[2]) = Len(ps) + 1 /\ u[2][Len(ps) + 1].room = n
    <3>1. Added(Append(ps, p), ps, rs2, p.room)
      BY <2>4, <2>6, PassageAdded
    <3> QED BY <2>5, <2>6, <3>1 DEF Added
  <2>8. Reached(rs2, u[2])
    <3> SUFFICES ASSUME NEW i \in DOMAIN rs2,
                        rs2[i].complete \/ \A k \in DOMAIN u[2] : u[2][k].room # i
                 PROVE  RoomCells(rs2[i]) \cap Connected # {}
      BY DEF Reached
    <3>1. Len(ps) + 1 \in DOMAIN u[2]
      <4>1. u[2] \in Seq(PassageRecord)
        BY <2>7 DEF PassagesSound
      <4> QED BY <1>1, <2>7, <4>1
    <3>2. i # n
      BY <2>3, <2>7, <3>1
    <3>3. i \in DOMAIN rs /\ rs2[i] = rs[i]
      BY <2>3, <3>2
    <3> QED BY <1>3, <3>3
  <2>9. OneProject(rs2)
    BY <1>2, <2>3 DEF OneProject
  <2> QED BY <2>3, <2>7, <2>8, <2>9 DEF PlanOf, rs2
<1>6. CASE u \in Linked(rs, ps)
  <2>0. IsLinked(u, rs, ps)
    BY <1>6, LinkedPassage
  <2>1. PICK i \in DOMAIN rs, j \in DOMAIN rs :
          \E r \in Routes(rs[j].site.centre, {rs[i].site.centre}) :
            rs[i].site.centre \in Connected /\ u[2] = WithPassage(ps, r, 0, FALSE)
    BY <2>0 DEF IsLinked
  <2>2. PICK r \in Routes(rs[j].site.centre, {rs[i].site.centre}) :
            rs[i].site.centre \in Connected /\ u[2] = WithPassage(ps, r, 0, FALSE)
    BY <2>1
  <2>10. u[1] = rs
    BY <2>0 DEF IsLinked
  <2>3. rs[j].site.centre \in Cells
    <3>1. rs[j] \in RoomRecord
      BY <1>1
    <3> QED BY <3>1, RoomInCells
  <2>4. Leads(r, {rs[i].site.centre})
    BY <2>3, RoutesLead
  <2>5. Leads(r, Connected) /\ r \in Seq(Cells)
    BY <2>2, <2>4 DEF Leads
  <2> DEFINE p == NewPassage(r, 0, FALSE)
  <2>6. p.route = r /\ p.room = 0 /\ ~p.complete /\ p \in PassageRecord
    BY <2>5 DEF NewPassage, PassageRecord
  <2>11. u[2] = Append(ps, p)
    BY <2>2 DEF WithPassage
  <2> HIDE DEF p
  <2>7. PassageSound(p, rs)
    BY <2>5, <2>6 DEF PassageSound
  <2>8. PassagesSound(u[2], rs)
    <3>1. Added(Append(ps, p), ps, rs, p.room)
      BY <1>1, <2>6, <2>7, PassageAdded
    <3> QED BY <2>11, <3>1 DEF Added
  <2>9. Reached(u[1], u[2])
    BY <1>3, <2>10 DEF Reached
  <2> QED BY <1>1, <2>8, <2>9, <2>10 DEF PlanOf
<1> QED BY <1>4, <1>5, <1>6 DEF IsSited

\* Whatever an update makes of the plan, it is sound.
LEMMA UpdateKeepsPlan ==
  ASSUME AirInv, PlanOf(rooms, passages), NEW u \in Updates
  PROVE  PlanOf(u[1], u[2])
<1>1. PICK v \in Reviewed :
           \/ u = v
           \/ /\ Project(v[1]) = 0
              /\ \/ \E kind \in {"Nursery", "Granary"} :
                      u \in Widened(v[1], v[2], kind) \/ u \in Sited(v[1], v[2], kind)
                 \/ u \in Linked(v[1], v[2])
  BY UpdateCases
<1>2. PlanOf(v[1], v[2])
  BY ReviewKeepsPlan
<1>3. CASE u = v
  BY <1>2, <1>3
<1>4. ASSUME Project(v[1]) = 0, NEW kind,
             u \in Widened(v[1], v[2], kind) \cup Sited(v[1], v[2], kind) \cup Linked(v[1], v[2])
      PROVE  PlanOf(u[1], u[2])
  <2> DEFINE rs == v[1]
             ps == v[2]
  <2>1. PlanOf(rs, ps) /\ Project(rs) = 0
        /\ u \in Widened(rs, ps, kind) \cup Sited(rs, ps, kind) \cup Linked(rs, ps)
    BY <1>2, <1>4
  <2> HIDE DEF rs, ps
  <2> QED BY <2>1, GrowthKeepsPlan
<1> QED BY <1>1, <1>3, <1>4

PlanInv == PlanOf(rooms, passages)

\* Nothing is planned but the founding rooms, which are reached from home.
LEMMA PlanInit == Init => PlanInv
<1> SUFFICES ASSUME Init PROVE PlanInv
  OBVIOUS
<1>1. rooms \in Seq(RoomRecord)
  BY DigInit DEF DigInv
<1>2. passages = <<>> /\ air = FirstAir
      /\ rooms = [i \in DOMAIN Founding |-> [site |-> Founding[i], wide |-> FALSE, complete |-> TRUE]]
  BY DEF Init
<1>3. PassagesSound(passages, rooms)
  BY <1>2 DEF PassagesSound
<1>4. \A i \in DOMAIN rooms : RoomCells(rooms[i]) = Founding[i].inner /\ rooms[i].complete
  BY <1>2 DEF RoomCells
<1>5. Reached(rooms, passages)
  BY <1>2, <1>4, FoundingAssumption DEF Reached, Connected
<1>6. OneProject(rooms)
  BY <1>4 DEF OneProject
<1> QED BY <1>1, <1>3, <1>5, <1>6 DEF PlanInv, PlanOf

\* Cells that are opened take nothing from a plan that stays as it is.
LEMMA AirKeepsPlan ==
  ASSUME AirInv, AirInv', air \in SUBSET air', UNCHANGED <<rooms, passages>>, PlanInv
  PROVE  PlanInv'
<1>1. Connected \in SUBSET Connected' /\ Ground' \in SUBSET Ground
  BY AirGrows
<1>2. rooms \in Seq(RoomRecord) /\ passages \in Seq(PassageRecord) /\ OneProject(rooms)
      /\ Reached(rooms, passages) /\ \A k \in DOMAIN passages : PassageSound(passages[k], rooms)
  BY DEF PlanInv, PlanOf, PassagesSound
<1>3. ASSUME NEW k \in DOMAIN passages PROVE PassageSound(passages[k], rooms)'
  <2> DEFINE p == passages[k]
  <2>1. Leads(p.route, Connected) => Leads(p.route, Connected')
    BY <1>1 DEF Leads
  <2>2. PassageCells(p) \cap Ground = {} => PassageCells(p) \cap Ground' = {}
    BY <1>1
  <2>3. PassageSound(p, rooms)
    BY <1>2
  <2> QED BY <2>1, <2>2, <2>3 DEF PassageSound, Cut, PassageCells, Leads
<1>4. Reached(rooms, passages)'
  <2>1. ASSUME NEW i \in DOMAIN rooms, RoomCells(rooms[i]) \cap Connected # {}
        PROVE  RoomCells(rooms[i])' \cap Connected' # {}
    BY <1>1, <2>1 DEF RoomCells
  <2> QED BY <1>2, <2>1 DEF Reached
<1>5. PassagesSound(passages, rooms)'
  BY <1>2, <1>3 DEF PassagesSound
<1>6. OneProject(rooms)'
  BY <1>2 DEF OneProject
<1> QED BY <1>2, <1>4, <1>5, <1>6 DEF PlanInv, PlanOf

\* The plan stays sound in every step.
LEMMA PlanStep ==
  ASSUME DigInv, PlanInv, [Next]_vars
  PROVE  PlanInv'
<1>1. AirInv /\ AirInv'
  BY DigStep DEF DigInv
<1>2. CASE UNCHANGED <<rooms, passages>> /\ air \in SUBSET air'
  BY <1>1, <1>2, AirKeepsPlan
<1>3. CASE BeginTick
  <2>1. CASE UNCHANGED <<rooms, passages>>
    <3>1. air \in SUBSET air'
      BY <1>3 DEF BeginTick
    <3> QED BY <1>2, <2>1, <3>1
  <2>2. CASE \E u \in Updates : rooms' = u[1] /\ passages' = u[2]
    <3>1. PICK u \in Updates : rooms' = u[1] /\ passages' = u[2]
      BY <2>2
    <3>2. PlanOf(u[1], u[2])
      BY <1>1, UpdateKeepsPlan DEF PlanInv
    <3> DEFINE rs == u[1]
               ps == u[2]
    <3>3. PlanOf(rs, ps) /\ rooms' = rs /\ passages' = ps /\ air' = air
      BY <1>3, <3>1, <3>2 DEF BeginTick
    <3> HIDE DEF rs, ps
    <3>4. Connected' = Connected /\ Ground' = Ground
      BY <3>3 DEF Connected, Ground
    <3>5. /\ rs \in Seq(RoomRecord) /\ ps \in Seq(PassageRecord) /\ OneProject(rs) /\ Reached(rs, ps)
          /\ \A k \in DOMAIN ps : PassageSound(ps[k], rs)
      BY <3>3 DEF PlanOf, PassagesSound
    <3>6. PassagesSound(passages, rooms)'
      BY <3>3, <3>4, <3>5 DEF PassagesSound, PassageSound, Cut, PassageCells, Leads
    <3>7. Reached(rooms, passages)'
      BY <3>3, <3>4, <3>5 DEF Reached, RoomCells
    <3>8. OneProject(rooms)'
      BY <3>3, <3>5 DEF OneProject
    <3> QED BY <3>3, <3>5, <3>6, <3>7, <3>8 DEF PlanInv, PlanOf
  <2> QED BY <1>3, <2>1, <2>2 DEF BeginTick
<1>4. ASSUME NEW w \in Ids, ProcessWorker(w) \/ SkipDead(w)
      PROVE  UNCHANGED <<rooms, passages>> /\ air \in SUBSET air'
  <2>1. CASE Pass(w) \/ Deliver(w) \/ StandBy(w) \/ Approach(w) \/ SkipDead(w)
    BY <2>1 DEF Pass, Kept, Deliver, StandBy, Approach, SkipDead
  <2>2. CASE Bite(w)
    BY <2>2 DEF Bite
  <2> QED BY <1>4, <2>1, <2>2 DEF ProcessWorker
<1>5. CASE EndTick
  <2>1. UNCHANGED <<rooms, passages>> /\ air \in SUBSET air'
    BY <1>5 DEF EndTick
  <2> QED BY <1>2, <2>1
<1>6. CASE UNCHANGED vars
  <2>1. UNCHANGED <<rooms, passages>> /\ air \in SUBSET air'
    BY <1>6 DEF vars
  <2> QED BY <1>2, <2>1
<1> QED BY <1>2, <1>3, <1>4, <1>5, <1>6 DEF Next

\* The inductive invariant of the plan: passages lead from the nest to their rooms through no rock,
\* what is called complete is cut, and one room at a time is being dug.
THEOREM PlanInvariance == Spec => []PlanInv
<1>1. DigInv /\ PlanInv /\ [Next]_vars => PlanInv'
  BY PlanStep
<1> QED BY PlanInit, <1>1, DigInvariance, PTL DEF Spec

-----------------------------------------------------------------------------
(* A project that is never stuck *)

\* As far as a route is cut, it belongs to the nest.
LEMMA RouteConnected ==
  ASSUME AirInv, NEW route, Leads(route, Connected), NEW n \in 1 .. Len(route),
         \A i \in 1 .. n : route[i] \notin Ground
  PROVE  \A i \in 1 .. n : route[i] \in Connected
<1>0. route \in Seq(Cells) /\ Len(route) \in Nat /\ n \in Nat /\ route[1] \in Connected
  BY DEF Leads
<1> DEFINE Bad == {k \in 0 .. n : k # 0 /\ route[k] \notin Connected}
<1>1. ASSUME NEW k \in Bad PROVE \E j \in Bad : j < k
  <2>1. k # 1 /\ k # 0
    BY <1>0
  <2>2. k \in 1 .. n /\ k - 1 \in 1 .. n /\ k - 1 < k /\ k - 1 \in 1 .. Len(route) - 1
        /\ (k - 1) + 1 = k /\ k \in 1 .. Len(route) /\ k - 1 \in 0 .. n /\ k - 1 # 0
    BY <1>0, <2>1
  <2>3. route[k] \in Cells /\ route[k] \notin Rock /\ route[k - 1] \in Near[route[k]]
    BY <1>0, <2>2 DEF Leads
  <2>4. route[k] \in air
    BY <2>2, <2>3 DEF Ground
  <2>5. SUFFICES ASSUME route[k - 1] \in Connected PROVE FALSE
    BY <2>2
  <2>6. air \in SUBSET Cells
    BY DEF AirInv
  <2>7. route[k] \in Connected
    BY <2>3, <2>4, <2>5, <2>6, SpreadClosed DEF Connected
  <2> QED BY <2>7
<1>2. Bad \in SUBSET (0 .. n)
  OBVIOUS
<1>3. Bad = {}
  <2> HIDE DEF Bad
  <2> QED BY ONLY <1>0, <1>1, <1>2, NoneBadUpTo
<1>4. ASSUME NEW i \in 1 .. n PROVE route[i] \in Connected
  <2>1. i \in 0 .. n /\ i # 0
    BY <1>0
  <2> QED BY <1>3, <2>1
<1> QED BY <1>4

\* A passage that is not cut through has a face.
LEMMA PassageExposed ==
  ASSUME AirInv, NEW p, Leads(p.route, Connected), ~Cut(p)
  PROVE  \E c \in PassageCells(p) \cap Ground : Near[c] \cap Connected # {}
<1> DEFINE route == p.route
           n == Len(route)
<1>0. route \in Seq(Cells) /\ n \in Nat /\ n >= 1 /\ DOMAIN route = 1 .. n /\ route[1] \in Connected
      /\ \A i \in 1 .. n - 1 : route[i] \in Near[route[i + 1]]
  BY DEF Leads
<1>1. \A i \in 1 .. n : route[i] \in PassageCells(p) /\ route[i] \in Cells
                        /\ Beside[route[i]] \in SUBSET PassageCells(p)
  <2> TAKE i \in 1 .. n
  <2>1. route[i] \in Range(route)
    BY <1>0 DEF Range
  <2> QED BY <1>0, <2>1 DEF PassageCells
<1>2. CASE \E i \in 1 .. n : route[i] \in Ground
  <2> DEFINE S == {i \in 1 .. n : route[i] \in Ground}
  <2>1. PICK i \in S : \A j \in S : i <= j
    <3>1. SUFFICES ASSUME \A i \in S : \E j \in S : ~(i <= j) PROVE FALSE
      OBVIOUS
    <3>2. S \in SUBSET (0 .. n) /\ S # {}
      BY <1>2
    <3>3. \A i \in S : \E j \in S : j < i
      BY <3>1
    <3>4. n \in Nat
      BY <1>0
    <3> HIDE DEF S, n
    <3>5. S = {}
      BY ONLY <3>2, <3>3, <3>4, NoneBadUpTo
    <3> QED BY <3>2, <3>5
  <2>2. i # 1
    BY <1>0, ConnectedFacts
  <2> DEFINE j == i - 1
  <2>3. i \in 1 .. n /\ j \in 1 .. n /\ j \in 1 .. n - 1 /\ j + 1 = i /\ j < i
    BY <1>0, <2>2
  <2>4. \A k \in 1 .. j : route[k] \notin Ground
    <3> TAKE k \in 1 .. j
    <3>1. k \in 1 .. n /\ ~(i <= k)
      BY <1>0, <2>3
    <3> QED BY <2>1, <3>1
  <2>5. j \in 1 .. j
    BY <2>3
  <2> HIDE DEF j
  <2>6. \A k \in 1 .. j : route[k] \in Connected
    BY <2>3, <2>4, RouteConnected
  <2>7. route[j] \in Connected
    BY <2>5, <2>6
  <2>8. route[j] \in Near[route[i]]
    BY <1>0, <2>3
  <2> QED BY <1>1, <2>3, <2>7, <2>8
<1>3. CASE \A i \in 1 .. n : route[i] \notin Ground
  <2>1. \A i \in 1 .. n : route[i] \in Connected
    <3>1. n \in 1 .. n
      BY <1>0
    <3> QED BY <1>3, <3>1, RouteConnected
  <2>2. PICK c \in PassageCells(p) : c \in Ground
    BY DEF Cut
  <2>3. c \notin Range(route)
    BY <1>0, <1>3, <2>2 DEF Range
  <2>4. PICK i \in 1 .. n : c \in Beside[route[i]]
    BY <1>0, <2>2, <2>3 DEF PassageCells, Range
  <2>5. c \in Near[route[i]] /\ route[i] \in Cells /\ c \in Cells
    BY <1>1, <2>4, Geometry
  <2>6. route[i] \in Near[c]
    BY <2>5, Geometry
  <2> QED BY <2>1, <2>2, <2>6
<1> QED BY <1>2, <1>3

\* A chamber that is entered and still holds ground has a face.
LEMMA ChamberExposed ==
  ASSUME AirInv, NEW room \in RoomRecord, ChamberCells(room) \cap Ground # {}
  PROVE  \E c \in ChamberCells(room) \cap Ground : Near[c] \cap Connected # {}
<1> DEFINE E == RoomCells(room) \cap Connected
           R == RoomCells(room) \ Rock
<1>1. R \in SUBSET Cells /\ ChamberCells(room) = Spread(E, R)
  BY RoomInCells DEF ChamberCells
<1>2. PICK c \in Spread(E, R) : c \in Ground
  BY <1>1
<1>3. c \notin Connected
  BY <1>2, ConnectedFacts
<1>4. (E \cap R) \in SUBSET Connected
  OBVIOUS
<1> HIDE DEF E, R
<1>5. PICK d \in Spread(E, R) : d \notin Connected /\ d \in R /\ Near[d] \cap Connected # {}
  BY <1>1, <1>2, <1>3, <1>4, SpreadLeaves
<1>6. d \notin air
  <2>1. air \in SUBSET Cells
    BY DEF AirInv
  <2>2. SUFFICES ASSUME d \in air PROVE FALSE
    OBVIOUS
  <2>3. d \in Connected
    BY <1>5, <2>1, <2>2, SpreadClosed DEF Connected
  <2> QED BY <1>5, <2>3
<1>7. d \in Ground
  BY <1>1, <1>5, <1>6 DEF Ground, R
<1> QED BY <1>1, <1>5, <1>7

\* While there is a project, one of its faces is exposed or the next review finishes a part of it.
LEMMA ProjectMoves ==
  ASSUME AirInv, PlanInv, ~Idle
  PROVE  Exposed(All(WorkOf(rooms, passages))) # {} \/ <<rooms, passages>> \notin Reviewed
<1> DEFINE i == Project(rooms)
           k == PassageProject(rooms, passages)
           P == IF k = 0 THEN {} ELSE PassageCells(passages[k])
           C == IF i = 0 THEN {} ELSE ChamberCells(rooms[i])
<1>1. /\ rooms \in Seq(RoomRecord) /\ passages \in Seq(PassageRecord)
      /\ \A j \in DOMAIN passages : PassageSound(passages[j], rooms)
      /\ Reached(rooms, passages)
  BY DEF PlanInv, PlanOf, PassagesSound
<1>2. All(WorkOf(rooms, passages)) = (P \cup C) \cap Ground
  BY Needed
<1>3. i # 0 \/ k # 0
  BY DEF Idle
<1>4. k # 0 => k \in DOMAIN passages /\ ~passages[k].complete
  BY <1>1, PassageProjectIn
<1>5. i # 0 => i \in DOMAIN rooms /\ ~rooms[i].complete
  BY <1>1, ProjectIn
<1>6. k = 0 => \A j \in DOMAIN passages : passages[j].complete \/ passages[j].room # i
  BY <1>1, PassageProjectIn
<1>7. CASE k # 0
  <2>1. k \in DOMAIN passages /\ ~passages[k].complete /\ PassageSound(passages[k], rooms)
    BY <1>1, <1>4, <1>7
  <2> HIDE DEF k
  <2>2. CASE Cut(passages[k])
    <3>1. ASSUME <<rooms, passages>> \in Reviewed PROVE FALSE
      <4> DEFINE v == <<rooms, passages>>
      <4>1. v \in Reviewed /\ v[2] = passages
        BY <3>1
      <4> HIDE DEF v
      <4>2. v[2][k].complete
        BY <2>1, <2>2, <4>1, ReviewKeepsPlan DEF PlanInv
      <4> QED BY <2>1, <4>1, <4>2
    <3> QED BY <3>1
  <2>3. CASE ~Cut(passages[k])
    <3>1. Leads(passages[k].route, Connected)
      BY <2>1 DEF PassageSound
    <3>2. PICK c \in PassageCells(passages[k]) \cap Ground : Near[c] \cap Connected # {}
      BY <2>3, <3>1, PassageExposed
    <3>3. c \in (P \cup C) \cap Ground
      BY <1>7, <3>2
    <3> HIDE DEF P, C
    <3> QED BY <1>2, <3>2, <3>3 DEF Exposed
  <2> QED BY <2>2, <2>3
<1>8. CASE k = 0
  <2>1. i \in DOMAIN rooms /\ ~rooms[i].complete
    BY <1>3, <1>5, <1>8
  <2>2. \A j \in DOMAIN passages : passages[j].room = i => passages[j].complete
    BY <1>6, <1>8
  <2>3. i # 0
    BY <1>3, <1>8
  <2> HIDE DEF i, k
  <2>4. rooms[i] \in RoomRecord
    BY <1>1, <2>1
  <2>5. RoomCells(rooms[i]) \cap Connected # {}
    <3>1. CASE \A j \in DOMAIN passages : passages[j].room # i
      BY <1>1, <2>1, <3>1 DEF Reached
    <3>2. CASE \E j \in DOMAIN passages : passages[j].room = i
      <4>1. PICK j \in DOMAIN passages : passages[j].room = i
        BY <3>2
      <4> DEFINE route == passages[j].route
                 n == Len(route)
      <4>2. PassageSound(passages[j], rooms) /\ Cut(passages[j])
        BY <1>1, <2>2, <4>1 DEF PassageSound
      <4>3. Leads(route, Connected) /\ route[n] = rooms[i].site.centre
        BY <2>3, <4>1, <4>2 DEF PassageSound
      <4>4. n \in 1 .. n /\ DOMAIN route = 1 .. n
        BY <4>3 DEF Leads
      <4>5. \A m \in 1 .. n : route[m] \notin Ground
        BY <4>2, <4>4 DEF Cut, PassageCells, Range
      <4> HIDE DEF route
      <4>6. route[n] \in Connected
        BY <4>3, <4>4, <4>5, RouteConnected
      <4>7. rooms[i].site.centre \in RoomCells(rooms[i])
        BY <2>4, RoomInCells
      <4> QED BY <4>3, <4>6, <4>7
    <3> QED BY <3>1, <3>2
  <2>6. ChamberCells(rooms[i]) # {}
    <3> DEFINE E == RoomCells(rooms[i]) \cap Connected
               R == RoomCells(rooms[i]) \ Rock
    <3>1. R \in SUBSET Cells /\ ChamberCells(rooms[i]) = Spread(E, R)
      BY <2>4, RoomInCells DEF ChamberCells
    <3>2. E \cap R # {}
      BY <2>5, ConnectedFacts DEF AirInv
    <3> HIDE DEF E, R
    <3> QED BY <3>1, <3>2, SpreadBounds
  <2>7. CASE ChamberCells(rooms[i]) \cap Ground = {}
    <3>1. ASSUME <<rooms, passages>> \in Reviewed PROVE FALSE
      <4> DEFINE done(ps, j) ==
                   /\ ChamberCells(rooms[j]) # {} /\ ChamberCells(rooms[j]) \cap Ground = {}
                   /\ \A m \in DOMAIN ps : ps[m].room = j => ps[m].complete
                 now(ps) == [j \in DOMAIN rooms |-> [rooms[j] EXCEPT !.complete = @ \/ done(ps, j)]]
                 cut == [j \in DOMAIN passages |->
                           [passages[j] EXCEPT !.complete = @ \/ Cut(passages[j])]]
      <4>1. rooms = now(passages)
        <5>1. PICK ps \in Entered(rooms, cut) : <<rooms, passages>> = <<now(ps), ps>>
          BY <3>1 DEF Reviewed
        <5> HIDE DEF now
        <5>2. ps = passages /\ rooms = now(ps)
          BY <5>1
        <5> QED BY <5>2
      <4>2. done(passages, i)
        BY <2>2, <2>6, <2>7
      <4> HIDE DEF done
      <4>3. rooms[i] = [rooms[i] EXCEPT !.complete = rooms[i].complete \/ done(passages, i)]
        BY <2>1, <4>1
      <4>4. rooms[i].complete = (rooms[i].complete \/ done(passages, i))
        BY <2>4, <4>3 DEF RoomRecord
      <4> QED BY <2>1, <4>2, <4>4
    <3> QED BY <3>1
  <2>8. CASE ChamberCells(rooms[i]) \cap Ground # {}
    <3>1. PICK c \in ChamberCells(rooms[i]) \cap Ground : Near[c] \cap Connected # {}
      BY <2>4, <2>8, ChamberExposed
    <3>2. c \in (P \cup C) \cap Ground
      BY <2>3, <3>1
    <3> HIDE DEF P, C
    <3> QED BY <1>2, <3>1, <3>2 DEF Exposed
  <2> QED BY <2>7, <2>8
<1> QED BY <1>7, <1>8

\* For any ground and sites, one room at a time is dug, and while there is a project a face of it is
\* exposed or the next review finishes its passage or its chamber (nest_plan.cpp:409-443).
THEOREM ProjectIsNeverStuck == Spec => []NeverStuck
<1>1. DigInv /\ PlanInv => NeverStuck
  <2> SUFFICES ASSUME DigInv, PlanInv PROVE NeverStuck
    OBVIOUS
  <2>1. AirInv /\ OneProject(rooms)
    BY DEF DigInv, PlanInv, PlanOf
  <2> DEFINE S == {i \in DOMAIN rooms : ~rooms[i].complete}
  <2>2. Cardinality(S) <= 1
    <3>1. CASE S = {}
      BY <3>1, FS_EmptySet
    <3>2. CASE S # {}
      <4>1. PICK i \in S : TRUE
        BY <3>2
      <4>2. S = {i}
        BY <2>1 DEF OneProject
      <4> HIDE DEF S
      <4>3. Cardinality({i}) = 1
        BY FS_Singleton
      <4> QED BY <4>2, <4>3
    <3> QED BY <3>1, <3>2
  <2> QED BY <2>1, <2>2, ProjectMoves DEF NeverStuck
<1> QED BY <1>1, DigInvariance, PlanInvariance, PTL
===============================================================================
