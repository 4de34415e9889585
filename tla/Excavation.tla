------------------------------ MODULE Excavation ------------------------------
(***************************************************************************)
(* How the nest is dug: the plan of rooms and passages                     *)
(* (src/src/sim/nest_plan.cpp), reviewed once a second, and the workers of *)
(* src/src/sim/world.cpp that claim its faces, cut them and haul the spoil *)
(* to the surface.  One step is the opening of a tick, one worker's turn   *)
(* in the order of their ids, or the end of the tick.                      *)
(*                                                                         *)
(* The ground is a small graph of cells.  The sites a room may get and the *)
(* cheapest route to one are choices among those the code could make.      *)
(***************************************************************************)
EXTENDS Integers, SequencesExt

CONSTANTS
  Cells,        \* the ground below the surface, within the envelope
  Near,         \* Near[c]: the cells beside c
  Rock,         \* stone, never cut
  Beside,       \* Beside[c]: the shoulders of a passage through c
  Home,         \* the founding chamber's centre
  Sites,        \* where rooms may be: [kind, centre, inner, outer], outer after widening
  Founding,     \* the rooms the colony starts with, as sites
  FirstAir,     \* the cells open at founding
  Workers,      \* the number of workers; worker w has the w-th smallest id
  Diggers,      \* kDiggersPerProject
  MaxRooms, MaxPassages, \* kMaxRooms, kMaxPassages
  MinNewCells,  \* ground a cross-passage must cut at least
  Apron         \* grains the surface around the entrance takes

ASSUME ExcavationAssumption ==
  /\ IsFiniteSet(Cells) /\ Near \in [Cells -> SUBSET Cells]
  /\ \A c, d \in Cells : c \in Near[d] => d \in Near[c]
  /\ Beside \in [Cells -> SUBSET Cells] /\ \A c \in Cells : Beside[c] \subseteq Near[c]
  /\ \A s \in Sites : s.centre \in s.inner /\ s.inner \subseteq s.outer /\ s.outer \subseteq Cells
  /\ Rock \subseteq Cells /\ FirstAir \subseteq Cells \ Rock /\ Home \in FirstAir
  /\ 0 \notin Cells /\ Founding \in Seq(Sites)
  /\ {Workers, Diggers, MaxRooms, MaxPassages} \subseteq Nat \ {0}
  /\ MinNewCells \in Nat /\ Apron \in Nat

VARIABLES
  turn,      \* 0: a tick begins; w: worker w acts; Workers + 1: the tick ends
  air,       \* the cells that are Air
  rooms,     \* rooms_: [site, wide, complete]
  passages,  \* passages_: [route, room, complete], room 0 for a cross-passage
  work,      \* work_cache_ and whether it is current: [fresh, approach, chamber]
  claims,    \* claimed_cells_
  worker,    \* task, target (0: none), whether spoil is carried and whether it lives
  mound,     \* spoil_mound_
  stats,     \* cells_excavated, spoil_delivered, spoil_overflow
  lost       \* history: grains that died with their haulers

vars == <<turn, air, rooms, passages, work, claims, worker, mound, stats, lost>>

Ids == 1 .. Workers
Ground == Cells \ (air \cup Rock)   \* what is_diggable

-----------------------------------------------------------------------------
(* Geometry. *)

\* The cells reached from `seeds` without leaving `within`.
Spread(seeds, within) ==
  LET reach[n \in 0 .. Cardinality(Cells)] ==
        IF n = 0 THEN seeds \cap within
        ELSE LET near == reach[n - 1]
             IN  near \cup {c \in within \ near : Near[c] \cap near # {}}
  IN  reach[Cardinality(Cells)]

Connected == Spread({Home}, air)   \* air_distances, as refresh_connected keeps them

\* The founding rooms are carved with a passage from home to each.
ASSUME FoundingAssumption ==
  \A i \in DOMAIN Founding : Founding[i].inner \cap Spread({Home}, FirstAir) # {}

RoomCells(room) == IF room.wide THEN room.site.outer ELSE room.site.inner

\* Fault: pockets behind rock belong to the chamber.
ChamberCellsWithPockets(room) ==
  IF RoomCells(room) \cap Connected = {} THEN {} ELSE RoomCells(room) \ Rock
\* The part of a room that can be opened from where it is entered; pockets behind rock stay.
ChamberCells(room) == Spread(RoomCells(room) \cap Connected, RoomCells(room) \ Rock)

PassageCells(p) == Range(p.route) \cup UNION {Beside[c] : c \in Range(p.route)}
Cut(p) == PassageCells(p) \cap Ground = {}

\* plan_route: searched backwards from a goal to the first of `ends` it meets, never through rock.
Routes(goal, ends) ==
  LET back[n \in 1 .. Cardinality(Cells)] ==
        IF n = 1 THEN {<<goal>>}
        ELSE UNION {{<<c>> \o r : c \in Near[Head(r)] \ (Rock \cup Range(r))} :
                      r \in {q \in back[n - 1] : Head(q) \notin ends}}
  IN  IF goal \in Rock THEN {}
      ELSE {r \in UNION {back[n] : n \in DOMAIN back} : Head(r) \in ends}
RoutesTo(goal) == Routes(goal, Connected)

-----------------------------------------------------------------------------
(* The plan. *)

FirstOf(S) == IF S = {} THEN 0 ELSE Min(S)
Project(rs) == FirstOf({i \in DOMAIN rs : ~rs[i].complete})
PassageProject(rs, ps) == FirstOf({i \in DOMAIN ps : ~ps[i].complete /\ ps[i].room = Project(rs)})
Idle == Project(rooms) = 0 /\ PassageProject(rooms, passages) = 0

\* build_work_cells: what the project still needs opened, its approach before its chamber.
WorkOf(rs, ps) ==
  LET room    == Project(rs)
      passage == PassageProject(rs, ps)
      inside  == IF room = 0 THEN {} ELSE RoomCells(rs[room])
      along   == IF passage = 0 THEN {} ELSE PassageCells(ps[passage]) \cap Ground
      chamber == IF room = 0 THEN {} ELSE ChamberCells(rs[room]) \cap Ground
  IN  [fresh |-> TRUE, approach |-> along \ inside, chamber |-> chamber \cup (along \cap inside)]

\* work_cells, through its cache.
WorkCells == IF work.fresh THEN work ELSE WorkOf(rooms, passages)
All(w) == w.approach \cup w.chamber
Exposed(S) == {c \in S : Near[c] \cap Connected # {}}

\* An unfinished room without an entrance, a founding chamber being widened, gets one.
Entrance(rs, ps, i) ==
  LET routes == RoutesTo(rs[i].site.centre)
  IN  IF \/ rs[i].complete \/ Len(ps) >= MaxPassages
         \/ (\E k \in DOMAIN ps : ps[k].room = i) \/ routes = {}
      THEN {ps}
      ELSE {Append(ps, [route |-> r, room |-> i, complete |-> Cut([route |-> r])]) :
              r \in routes}
Entered(rs, ps) ==
  LET upTo[i \in 0 .. Len(rs)] ==
        IF i = 0 THEN {ps} ELSE UNION {Entrance(rs, p, i) : p \in upTo[i - 1]}
  IN  upTo[Len(rs)]

\* Passages whose cells are all cut are complete, then rooms with an open approach and no ground.
Reviewed ==
  LET cut == [i \in DOMAIN passages |->
                [passages[i] EXCEPT !.complete = @ \/ Cut(passages[i])]]
      done(ps, i) ==
        /\ ChamberCells(rooms[i]) # {} /\ ChamberCells(rooms[i]) \cap Ground = {}
        /\ \A k \in DOMAIN ps : ps[k].room = i => ps[k].complete
  IN  {<<[i \in DOMAIN rooms |-> [rooms[i] EXCEPT !.complete = @ \/ done(ps, i)]], ps>> :
         ps \in Entered(rooms, cut)}

\* widen: a room of the kind that is still small and not crowded.
Widened(rs, ps, kind) ==
  {<<[rs EXCEPT ![i].wide = TRUE, ![i].complete = FALSE], ps>> :
     i \in {j \in DOMAIN rs : /\ rs[j].site.kind = kind /\ ~rs[j].wide
                              /\ \A k \in DOMAIN rs \ {j} :
                                   rs[j].site.outer \cap RoomCells(rs[k]) = {}}}

\* site_new_room: a clear site with a route to it, and the passage along that route.
Sited(rs, ps, kind) ==
  IF Len(rs) >= MaxRooms \/ Len(ps) >= MaxPassages THEN {}
  ELSE UNION {{<<Append(rs, [site |-> s, wide |-> FALSE, complete |-> FALSE]),
                 Append(ps, [route |-> r, room |-> Len(rs) + 1, complete |-> FALSE])>> :
                 r \in RoutesTo(s.centre)} :
              s \in {t \in Sites : /\ t.kind = kind
                                   /\ \A k \in DOMAIN rs : t.inner \cap RoomCells(rs[k]) = {}}}

\* plan_cross_passage: between two finished chambers, worth its digging.
Linked(rs, ps) ==
  LET links == Cardinality({k \in DOMAIN ps : ps[k].room = 0})
      between == {b \in (DOMAIN rs) \X (DOMAIN rs) :
                    /\ b[1] < b[2] /\ rs[b[1]].complete /\ rs[b[2]].complete
                    /\ {rs[b[1]].site.centre, rs[b[2]].site.centre} \subseteq Connected}
      routes == UNION {Routes(rs[b[2]].site.centre, {rs[b[1]].site.centre}) : b \in between}
  IN  IF Len(ps) >= MaxPassages \/ links >= Len(rs) \div 2 THEN {}
      ELSE {<<rs, Append(ps, [route |-> r, room |-> 0, complete |-> FALSE])>> :
              r \in {q \in routes : Cardinality(Range(q) \cap Ground) >= MinNewCells}}

Grown(rs, ps, kind) ==
  LET widened == Widened(rs, ps, kind)
  IN  IF widened # {} THEN widened ELSE Sited(rs, ps, kind)

\* update, for every need the colony may have.  One room at a time.
Updates ==
  UNION {LET rs == reviewed[1] IN LET ps == reviewed[2]
         IN  {reviewed} \cup
             IF Project(rs) # 0 THEN {}
             ELSE Grown(rs, ps, "Nursery") \cup Grown(rs, ps, "Granary")
                    \cup (IF PassageProject(rs, ps) = 0 THEN Linked(rs, ps) ELSE {}) :
         reviewed \in Reviewed}

-----------------------------------------------------------------------------
Unassigned == [task |-> "other", target |-> 0, spoil |-> FALSE, alive |-> TRUE]

Init ==
  /\ turn = 0 /\ air = FirstAir
  /\ rooms = [i \in DOMAIN Founding |-> [site |-> Founding[i], wide |-> FALSE, complete |-> TRUE]]
  /\ passages = <<>>
  /\ work = [fresh |-> FALSE, approach |-> {}, chamber |-> {}] /\ claims = <<>>
  /\ worker = [w \in Ids |-> Unassigned]
  /\ mound = 0 /\ stats = [excavated |-> 0, delivered |-> 0, overflow |-> 0] /\ lost = 0

-----------------------------------------------------------------------------
(* The opening of a tick. *)

Digging(w) == worker[w].alive /\ worker[w].task = "Excavate" /\ worker[w].target # 0

\* Fault: a worker keeps a face that is no longer planned.
DroppedNever(planned) == worker
\* A digger whose face is no longer planned lets go of it.
Dropped(planned) ==
  [w \in Ids |-> IF Digging(w) /\ worker[w].target \notin planned
                 THEN [worker[w] EXCEPT !.target = 0] ELSE worker[w]]

\* The first Diggers faces that are held, in the order of the holders' ids.
Noted(planned) ==
  LET upTo[w \in 0 .. Workers] ==
        IF w = 0 THEN <<>>
        ELSE IF Digging(w) /\ worker[w].target \in planned /\ Len(upTo[w - 1]) < Diggers
        THEN Append(upTo[w - 1], worker[w].target)
        ELSE upTo[w - 1]
  IN  upTo[Workers]

\* recompute_needs_and_dig_plan when a second begins, then refresh_dig_claims.
BeginTick ==
  /\ turn = 0 /\ turn' = 1
  /\ \/ /\ UNCHANGED <<rooms, passages>> /\ work' = WorkCells
     \/ \E u \in Updates :
          /\ rooms' = u[1] /\ passages' = u[2]
          /\ work' = WorkOf(u[1], u[2])
  /\ worker' = Dropped(All(work'))
  /\ claims' = Noted(All(work'))
  /\ UNCHANGED <<air, mound, stats, lost>>

-----------------------------------------------------------------------------
(* A worker's turn. *)

Chosen == IF Idle THEN {"other"} ELSE {"Excavate", "other"}

\* The worker as it goes to work: with its task, or with one chosen anew, which lets go of any face.
Minds(w) ==
  (IF worker[w].task = "Excavate" /\ Idle THEN {} ELSE {worker[w]})
    \cup {[worker[w] EXCEPT !.task = t, !.target = 0] : t \in Chosen}

Kept == UNCHANGED <<air, rooms, passages, work, claims, mound, stats, lost>>
Becomes(w, m) == worker' = [worker EXCEPT ![w] = m]

\* On its way, or busy with something else; dead workers have no turn.
Pass(w) ==
  /\ \E m \in Minds(w) : (m.spoil \/ m.task = "other") /\ Becomes(w, m)
  /\ Kept

\* deliver_non_food at the entrance: onto the apron, or out of view when it is full.
Deliver(w) ==
  /\ \E m \in Minds(w) : m.spoil /\ Becomes(w, [m EXCEPT !.spoil = FALSE])
  /\ \/ /\ mound < Apron /\ mound' = mound + 1
        /\ stats' = [stats EXCEPT !.delivered = @ + 1]
        /\ work' = [work EXCEPT !.fresh = FALSE]
     \/ /\ stats' = [stats EXCEPT !.delivered = @ + 1, !.overflow = @ + 1]
        /\ UNCHANGED <<mound, work>>
  /\ UNCHANGED <<air, rooms, passages, claims, lost>>

\* Fault: a face somebody is cutting is offered again.
FacesShared ==
  LET approach == Exposed(WorkCells.approach)
  IN  IF Len(claims) >= Diggers THEN {}
      ELSE IF approach # {} THEN approach ELSE Exposed(WorkCells.chamber)
\* claim: an exposed face nobody has, the approach before the chamber.
Faces ==
  LET approach == Exposed(WorkCells.approach \ Range(claims))
  IN  IF Len(claims) >= Diggers THEN {}
      ELSE IF approach # {} THEN approach ELSE Exposed(WorkCells.chamber \ Range(claims))

\* The face the worker has while there is ground in it, else one it claims: <<face, claims>>.
Targets(m) ==
  IF m.target \in Ground THEN {<<m.target, claims>>}
  ELSE {<<c, Append(claims, c)>> : c \in Faces}

\* process_excavator without a face to be had.
StandBy(w) ==
  /\ \E m \in Minds(w) :
       /\ ~m.spoil /\ m.task = "Excavate" /\ Targets(m) = {}
       /\ Becomes(w, [m EXCEPT !.target = 0])
  /\ work' = IF Len(claims) >= Diggers THEN work ELSE WorkCells
  /\ UNCHANGED <<air, rooms, passages, claims, mound, stats, lost>>

\* On the way to the face, or between two bites.
Approach(w) ==
  /\ \E m \in Minds(w) : \E t \in Targets(m) :
       /\ ~m.spoil /\ m.task = "Excavate"
       /\ Becomes(w, [m EXCEPT !.target = t[1]]) /\ claims' = t[2]
       /\ work' = IF t[2] = claims THEN work ELSE WorkCells
  /\ UNCHANGED <<air, rooms, passages, mound, stats, lost>>

\* Fault: the digger leaves the grain where it was.
BiteLeaving(w) ==
  /\ \E m \in Minds(w) : \E t \in Targets(m) :
       /\ ~m.spoil /\ m.task = "Excavate"
       /\ air' = air \cup {t[1]} /\ claims' = t[2]
       /\ Becomes(w, [m EXCEPT !.target = 0])
  /\ stats' = [stats EXCEPT !.excavated = @ + 1]
  /\ work' = [work EXCEPT !.fresh = FALSE]
  /\ UNCHANGED <<rooms, passages, mound, lost>>
\* The bite that cuts through: the face turns to air and the digger's load to spoil.
Bite(w) ==
  /\ \E m \in Minds(w) : \E t \in Targets(m) :
       /\ ~m.spoil /\ m.task = "Excavate"
       /\ air' = air \cup {t[1]} /\ claims' = t[2]
       /\ Becomes(w, [m EXCEPT !.target = 0, !.spoil = TRUE])
  /\ stats' = [stats EXCEPT !.excavated = @ + 1]
  /\ work' = [work EXCEPT !.fresh = FALSE]
  /\ UNCHANGED <<rooms, passages, mound, lost>>

ProcessWorker(w) ==
  /\ turn = w /\ turn' = w + 1 /\ worker[w].alive
  /\ Pass(w) \/ Deliver(w) \/ StandBy(w) \/ Approach(w) \/ Bite(w)

SkipDead(w) ==
  /\ turn = w /\ turn' = w + 1 /\ ~worker[w].alive
  /\ UNCHANGED worker /\ Kept

\* The end of a tick; when it closes a second some workers die, and a grain in hand goes with them.
EndTick ==
  /\ turn = Workers + 1 /\ turn' = 0
  /\ \E dead \in SUBSET {w \in Ids : worker[w].alive} :
       /\ worker' = [w \in Ids |-> IF w \in dead THEN [Unassigned EXCEPT !.alive = FALSE]
                                   ELSE worker[w]]
       /\ lost' = lost + Cardinality({w \in dead : worker[w].spoil})
  /\ UNCHANGED <<air, rooms, passages, work, claims, mound, stats>>

Next == BeginTick \/ (\E w \in Ids : ProcessWorker(w) \/ SkipDead(w)) \/ EndTick

Spec == Init /\ [][Next]_vars

-----------------------------------------------------------------------------
(* Properties. *)

\* No two ants cut one face, and no more than a crew of them cuts at once, whoever is called off,
\* preempted by a room or finishes in the middle of a tick (nest_plan.cpp:270-282,
\* world.cpp:1181-1194).
CrewsFit ==
  LET held == {w \in Ids : Digging(w)}
  IN  /\ Cardinality(held) <= Diggers
      /\ \A v, w \in held : worker[v].target = worker[w].target => v = w

\* Every grain cut out of the nest is accounted for: on the mound, out of view, in a hauler's grip,
\* or dead with one (world.cpp:911,985,1219).
GrainsBalance ==
  /\ stats.excavated = Cardinality(air \ FirstAir)
  /\ stats.excavated
       = stats.delivered + Cardinality({w \in Ids : worker[w].spoil}) + lost
  /\ stats.delivered = mound + stats.overflow

\* Nothing is dug by accident: a cell is cut only for the project of that moment, never for one
\* that was preempted or finished, though faces are held over many ticks and the plan is cached
\* (nest_plan.hpp, "Every excavation belongs to one room the colony has decided it needs").
DugAsPlanned ==
  [][air' # air => air' \ air \subseteq All(WorkOf(rooms, passages))]_vars

\* One room at a time, and never stuck with it: while there is a project, a face of it is exposed,
\* or the next review finishes its passage or its chamber (nest_plan.cpp:409-443).
NeverStuck ==
  /\ Cardinality({i \in DOMAIN rooms : ~rooms[i].complete}) <= 1
  /\ ~Idle => \/ Exposed(All(WorkOf(rooms, passages))) # {}
              \/ <<rooms, passages>> \notin Reviewed

=============================================================================
