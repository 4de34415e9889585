-------------------------------- MODULE Traffic --------------------------------
(***************************************************************************)
(* How ants get about (src/src/sim/world.cpp): routes that grow old when   *)
(* the ground changes, a bounded number of plans a tick, cells that hold   *)
(* so many ants, crowds that shuffle apart, and what workers, the queen    *)
(* and winged queens do with a finished route.  One step is one handler of *)
(* World::step: the opening of a tick, one ant's turn (workers by id, then *)
(* the queen, then winged queens), or the biology at the end of a tick.    *)
(*                                                                         *)
(* A crossing from a cell to the centre of the next is one step here; in   *)
(* between an ant is "not yet across".  Carrying, digging and nursing      *)
(* appear as the walks they make and the terrain they change.              *)
(***************************************************************************)
EXTENDS Navigation

CONSTANTS
  Workers, Queen, Gynes,  \* the ants: ids, the queen's below the others'
  Founded,       \* the cell each founding worker starts in
  Terrain,       \* the material of every cell at founding
  Home, Site, Heap, Post, Outlet, \* the hall, a forage site, a store cell, a cradle, the entrance
  Face,          \* the cell the plan wants dug
  Dump,          \* the surface cell that takes the spoil
  Room,          \* kMaxAntsPerCell
  Plans,         \* routes planned per tick: path_budget, 16 in the code; the rest of the
                 \* colony leaves these few ants any part of it
  Mortal,        \* the ants that may die: a bound
  Expansions,    \* cells a search may expand, half of it for the queen's
  Rank           \* Rank[a]: route_bias of ant a, a ranking of the cells

Ants == Workers \cup {Queen} \cup Gynes

ASSUME TrafficAssumption ==
  /\ Ants \subseteq Nat \ {0} /\ IsFiniteSet(Ants) /\ Mortal \subseteq Ants
  /\ Terrain \in [Cells -> Materials] /\ Terrain[Home] = "Air"
  /\ DOMAIN Founded \subseteq Workers
  /\ \A a \in DOMAIN Founded : Founded[a] \in Cells /\ Passable(Terrain[Founded[a]])
  /\ {Home, Site, Heap, Post, Outlet, Face, Dump} \subseteq Cells
  /\ Room \in Nat \ {0} /\ Plans \in Nat /\ Expansions \in Nat \ {0}
  /\ Rank \in [Ants -> [Cells -> Nat]]

VARIABLES
  turn,     \* Dawn: a tick begins; an ant's id: it acts; Evening: the tick ends
  grid,     \* grid_
  field,    \* home_field_
  ant,      \* per ant: [at, path, fresh, doing], at = Away before birth and after death,
            \* doing = Free when it may idle, nurse, look for work or wait at home
  count,    \* occupancy_
  plans     \* path_budget left in this tick

vars == <<turn, grid, field, ant, count, plans>>

Away == <<-1, -1>>
Dawn == 0
Evening == -1
Here(a) == ant[a].at # Away
Standing(c) == Cardinality({a \in Ants : ant[a].at = c})

\* Workers act by id, then the queen, then winged queens.
Kind(a) == IF a \in Workers THEN 1 ELSE IF a = Queen THEN 2 ELSE 3
Before(a, b) == Kind(a) < Kind(b) \/ (Kind(a) = Kind(b) /\ a < b)
\* Whose turn it is after a's, or after dawn.
Following(a) ==
  LET left == {b \in Ants : Here(b) /\ (a = Dawn \/ Before(a, b))}
  IN  IF left = {} THEN Evening ELSE CHOOSE b \in left : \A c \in left : c = b \/ Before(b, c)

Placed(c) == [at |-> c, path |-> <<>>, fresh |-> FALSE, doing |-> "Free"]

\* Fault: a full cell takes one more.
HasRoomAtCap(n, c) == n[c] <= Room
HasRoom(n, c) == n[c] < Room

-----------------------------------------------------------------------------
(* The parts of an ant's turn.  Each maps what the ant sees and has,       *)
(* [me, n, plans, grid], to the outcomes it can have.                      *)

Walking(m) == m.path # <<>> /\ m.fresh
Led(o, route) == [o EXCEPT !.me = [@ EXCEPT !.path = route, !.fresh = TRUE]]
Cleared(o) == [o EXCEPT !.me = [@ EXCEPT !.path = <<>>, !.fresh = FALSE]]
Doing(o, d) == [o EXCEPT !.me.doing = d]

Crossed(n, c, d) == [n EXCEPT ![c] = @ - 1, ![d] = @ + 1]

Onward(o) ==
  LET way == o.me.path
  IN  [o EXCEPT !.me = [at |-> way[1], path |-> Tail(way), fresh |-> @.fresh /\ Len(way) > 1,
                        doing |-> @.doing],
                !.n = Crossed(@, o.me.at, way[1])]

\* An ant waits before ground closed since and before a full cell, and takes several ticks
\* for each crossing; the walk is done when no route is left.
Move(o) ==
  IF o.me.path = <<>> THEN {<<o, TRUE>>}
  ELSE {<<o, FALSE>>}
       \cup IF Walkable(o.grid, o.me.path[1]) /\ HasRoom(o.n, o.me.path[1])
            THEN {<<Onward(o), Len(o.me.path) = 1>>} ELSE {}
Moved(o) == {r[1] : r \in Move(o)}

Planned(a, o, target, cells) == Find(o.grid, o.me.at, target, cells, Rank[a])

RouteTo(a, o, target) ==
  IF Walking(o.me) THEN Moved(o)
  ELSE IF o.me.at = target \/ o.plans = 0 THEN {o}
  ELSE LET way == Planned(a, o, target, Expansions)
           spent == [o EXCEPT !.plans = @ - 1]
       IN  IF way.status = "Complete" THEN Moved(Led(spent, way.cells)) ELSE {spent}

\* The way home, which is empty while the field is older than the grid.
Homeward(a, o) == Led(o, PathHome(field, o.grid, o.me.at, Rank[a]))

-----------------------------------------------------------------------------
(* Foragers. *)

\* A trip is planned, or the ant asks again later: for want of a plan, of a site or of a way.
ChooseSource(a, o) ==
  IF o.plans = 0 THEN {o}
  ELSE LET way == Planned(a, o, Site, Expansions)
           spent == [o EXCEPT !.plans = @ - 1]
       IN  {o, IF way.status = "Complete" THEN Doing(Led(spent, way.cells), "ToSource")
               ELSE spent}

RefreshPath(a, o) ==
  IF o.me.doing = "Returning" THEN Homeward(a, o)
  ELSE IF o.plans = 0 THEN Cleared(o)
  ELSE LET way == Planned(a, o, Site, Expansions)
           spent == [Cleared(o) EXCEPT !.plans = @ - 1]
       IN  IF way.status = "Complete" THEN Led(spent, way.cells) ELSE Doing(spent, "Free")

\* At the site the load is taken, unless the site is spent; at the hall it goes on to a heap.
Arrive(a, o) ==
  IF o.me.doing = "Returning" THEN {Cleared(Doing(o, "Storing"))}
  ELSE {Homeward(a, Doing(o, "Returning")), Cleared(Doing(o, "Free"))}

Travel(a, o) ==
  LET ready == IF o.me.fresh THEN o ELSE RefreshPath(a, o)
  IN  IF ready.me.doing = "Free" THEN {ready}
      ELSE UNION {IF r[2] THEN Arrive(a, r[1]) ELSE {r[1]} : r \in Move(ready)}

\* The load goes down, part of it, or the heap takes none of it and another is looked for.
Store(a, o) ==
  IF o.me.at = Heap THEN {o, Cleared(o), Cleared(Doing(o, "Free"))}
  ELSE {Cleared(o)} \cup RouteTo(a, o, Heap)

\* The open cell resting on the ground of a column, the turf where there is none.
SurfaceRow(g, x) ==
  LET ground == {y \in 0 .. Height - 1 : ~Passable(g.at[<<x, y>>])}
  IN  IF ground = {} THEN Outlet[2] ELSE Min(ground) - 1

\* A scout goes home when a site is found, by it or by another.  Else it walks leg by leg: out of
\* the nest, then from column to column; the model forgets which leg a scout held up was on.
Scout(a, o) ==
  LET here == o.me.at
      legs == IF here[2] > Outlet[2] THEN {Outlet}
              ELSE {<<x, SurfaceRow(o.grid, x)>> : x \in 0 .. Width - 1} \ {here}
  IN  {Cleared(Doing(o, "Free"))}
      \cup IF Walking(o.me) THEN Moved(o)
           ELSE UNION {RouteTo(a, Cleared(o), leg) : leg \in legs}

Forage(a, o) ==
  CASE o.me.doing = "Free" ->
         {Cleared(Doing(o, "Scouting"))}
         \cup UNION {IF p.me.doing = "ToSource" THEN Travel(a, p) ELSE {p} :
                       p \in ChooseSource(a, o)}
    [] o.me.doing = "Scouting" -> Scout(a, o)
    [] o.me.doing = "ToSource" -> {Cleared(Doing(o, "Free"))} \cup Travel(a, o)
    [] o.me.doing = "Returning" -> Travel(a, o)
    [] o.me.doing = "Storing" -> Store(a, o)

-----------------------------------------------------------------------------
(* Excavators and the other workers. *)

\* The cell a digger works from: its own if it stands beside the face, else the last one open.
WorkCell(o) ==
  LET near == {i \in 1 .. 4 : LET c == Step(Face, i)
                              IN  Walkable(o.grid, c) /\ field.steps[c] >= 0}
  IN  IF near = {} \/ \E i \in near : Step(Face, i) = o.me.at THEN o.me.at
      ELSE Step(Face, Max(near))

Diggable(g) == g.at[Face] = "Soil"

Excavate(a, o) ==
  IF WorkCell(o) # o.me.at THEN RouteTo(a, o, WorkCell(o))
  ELSE IF o.me.at \notin Beside(Face) THEN {o}
  ELSE {o, Doing([o EXCEPT !.grid = Set(@, Face, "Air")], "Hauling")}

\* deposit_spoil: nothing is buried; a full apron swallows the grain.
Spoiled(o) ==
  IF o.grid.at[Dump] = "Sky" /\ o.me.at # Dump /\ Standing(Dump) = 0
  THEN Set(o.grid, Dump, "Soil") ELSE o.grid

\* Haulers plan outside the tick's budget.
Deliver(a, o) ==
  IF o.me.at = Outlet THEN {Cleared(Doing([o EXCEPT !.grid = Spoiled(o)], "Free"))}
  ELSE LET way == Planned(a, o, Outlet, Expansions)
       IN  Moved(IF ~Walking(o.me) /\ way.status = "Complete" THEN Led(o, way.cells) ELSE o)

\* A worker with nothing to carry may drop its task for another (choose_task); a digger drops
\* its route when it claims the face.
ProcessWorker(a, o) ==
  CASE o.me.doing \in {"Returning", "Storing"} -> Forage(a, o)
    [] o.me.doing = "Hauling" -> Deliver(a, o)
    [] OTHER ->
         LET free == Doing(o, "Free")
         IN  Moved(free) \cup RouteTo(a, free, Post)
             \cup Forage(a, IF o.me.doing \in {"ToSource", "Scouting"} THEN o ELSE free)
             \cup IF ~Diggable(o.grid) THEN {free}
                  ELSE Excavate(a, Cleared(Doing(o, "Excavate")))
                       \cup IF o.me.doing = "Excavate" THEN Excavate(a, o) ELSE {}

-----------------------------------------------------------------------------
(* The queen and winged queens. *)

ProcessQueen(o) ==
  IF Walking(o.me) THEN {IF r[2] THEN Cleared(r[1]) ELSE r[1] : r \in Move(o)}
  ELSE IF o.plans = 0 THEN {Cleared(o)}
  ELSE {Cleared(o)} \cup
       {LET way == Planned(Queen, o, target, Expansions \div 2)
            spent == [Cleared(o) EXCEPT !.plans = @ - 1]
        IN  IF way.status = "Complete" THEN Led(spent, way.cells) ELSE spent
          : target \in {Post, Home} \ {o.me.at}}

-----------------------------------------------------------------------------
Init ==
  /\ turn = Dawn
  /\ grid = [at |-> Terrain, revision |-> 1]
  /\ field = Field(grid, Home)
  /\ ant = [a \in Ants |-> Placed(IF a = Queen THEN Home
                                  ELSE IF a \in DOMAIN Founded THEN Founded[a] ELSE Away)]
  /\ count = [c \in Cells |-> Standing(c)]
  /\ plans = 0

\* The neighbour with the fewest ants and room, in the order ant a looks round.
GivesWay(n, c, a) ==
  LET round(i) == Step(c, ((i + a - 1) % 4) + 1)
      open == {i \in 1 .. 4 : Walkable(grid, round(i)) /\ HasRoom(n, round(i))}
      best == {i \in open : \A j \in open : n[round(i)] <= n[round(j)]}
  IN  IF open = {} THEN c ELSE round(Min(best))

\* refresh_dig_claims: a digger whose face is gone drops its route.
Preempted(a) == ant[a].doing = "Excavate" /\ ~Diggable(grid)

\* Fault: whoever stands on a crowded cell steps aside, errand or not.
AsideOnErrand(a, m, n) ==
  IF Walking(m) \/ n[m.at] <= Room THEN m
  ELSE LET c == GivesWay(n, m.at, a)
       IN  IF c = m.at THEN m ELSE [m EXCEPT !.path = <<c>>, !.fresh = TRUE]
\* relieve_crowding: on a crowded cell an ant with nowhere to go and no errand steps aside.
Aside(a, m, n) ==
  IF Walking(m) \/ m.doing \in {"ToSource", "Returning", "Storing"} \/ n[m.at] <= Room THEN m
  ELSE LET c == GivesWay(n, m.at, a)
       IN  IF c = m.at THEN m ELSE [m EXCEPT !.path = <<c>>, !.fresh = TRUE]

BeginTick ==
  /\ turn = Dawn
  /\ field' = IF field.revision = grid.revision THEN field ELSE Field(grid, Home)
  /\ count' = [c \in Cells |-> Standing(c)]
  /\ LET m(a) == [ant[a] EXCEPT !.path = IF Preempted(a) THEN <<>> ELSE @]
     IN  ant' = [a \in Ants |-> IF Here(a) THEN Aside(a, m(a), count') ELSE ant[a]]
  /\ plans' \in 0 .. Plans
  /\ turn' = Following(Dawn)
  /\ UNCHANGED grid

\* One ant's turn.  Ground that opens or closes makes every route old at once.
Act ==
  /\ turn \in Ants
  /\ LET a == turn
         o == [me |-> ant[a], n |-> count, plans |-> plans, grid |-> grid]
     IN  \E r \in IF a \in Workers THEN ProcessWorker(a, o)
                  ELSE IF a = Queen THEN ProcessQueen(o) ELSE Moved(o) :
           /\ grid' = r.grid /\ count' = r.n /\ plans' = r.plans
           /\ ant' = [b \in Ants |->
                LET m == IF b = a THEN r.me ELSE ant[b]
                IN  IF r.grid.revision = grid.revision THEN m ELSE [m EXCEPT !.fresh = FALSE]]
  /\ turn' = Following(turn)
  /\ UNCHANGED field

BirthCell(a) == IF HasRoom(count, Home) THEN Home ELSE GivesWay(count, Home, a)

\* The second ends with a birth, a death, both or neither.  The dead stay in the count until
\* the next tick.
EndTick ==
  /\ turn = Evening
  /\ \E born \in {0} \cup {a \in Workers \cup Gynes : ~Here(a)},
        dead \in {0} \cup {a \in Mortal : Here(a)} :
       /\ ant' = [a \in Ants |-> IF a = born THEN Placed(BirthCell(a))
                                 ELSE IF a = dead THEN Placed(Away) ELSE ant[a]]
       /\ count' = IF born = 0 THEN count ELSE [count EXCEPT ![BirthCell(born)] = @ + 1]
  /\ turn' = Dawn /\ plans' = 0
  /\ UNCHANGED <<grid, field>>

Next == BeginTick \/ Act \/ EndTick

Spec == Init /\ [][Next]_vars

-----------------------------------------------------------------------------
(* What the walks must keep. *)

\* However ants queue, pass and step aside, no walk takes a cell past its cap: only a birth
\* in a hall whose neighbours are full does.
OnlyBirthsCrowd ==
  [][\A c \in Cells : Standing(c)' > Room /\ Standing(c)' > Standing(c) => turn = Evening]_vars

\* At any moment the ants can be saved and opened again (validate_world and the restoring
\* constructor refuse a world otherwise): nobody is inside ground, though spoil is tipped
\* between walks on turf ants queue on, and a route that counts as current leads from its
\* ant's cell over ground that can be walked, step by step, though others dig and tip.
ActorsRestorable ==
  \A a \in {b \in Ants : Here(b)} :
    /\ Passable(grid.at[ant[a].at])
    /\ Walking(ant[a]) =>
         LET way == <<ant[a].at>> \o ant[a].path
         IN  \A i \in 1 .. Len(ant[a].path) :
               way[i + 1] \in Beside(way[i]) /\ Walkable(grid, way[i + 1])

\* Finishing a route is how a worker on an errand knows that it is there (the comment in
\* relieve_crowding): a current route leads a forager to its site, home with a load or on to a
\* heap, whoever steps aside, digs, is called to another task or dies in between.
Goal == [ToSource |-> Site, Returning |-> Home, Storing |-> Heap]
ErrandRoutesLeadThere ==
  \A a \in {b \in Workers : Here(b)} :
    ant[a].doing \in DOMAIN Goal /\ Walking(ant[a]) =>
      ant[a].path[Len(ant[a].path)] = Goal[ant[a].doing]

\* What that comment says of the end: a worker that takes a load up has reached the site.  An
\* empty route passes for a finished one, though, and refresh_path leaves one to a worker whose
\* route grew old in a tick without a plan left.
LoadsTakenAtSite ==
  [][\A a \in Workers :
       ant[a].doing = "ToSource" /\ ant'[a].doing = "Returning" => ant'[a].at = Site]_vars

===============================================================================
