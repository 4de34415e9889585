------------------------------- MODULE SavedRun -------------------------------
(***************************************************************************)
(* A run that is saved and opened again: the session (Session), the part   *)
(* of its world a document holds, the part it leaves out (World's          *)
(* restoring constructor, src/src/sim/world.cpp:62) and the codec between  *)
(* them (ProfileCodec).  The world is a strip of cells: rooms, the hall,   *)
(* the turf with its forage sites, and at its end the dump.  One worker    *)
(* forages and one digs, a step each per tick; a tick is World::step, then *)
(* Session::step.  Documents are written between steps.                    *)
(***************************************************************************)
EXTENDS Session, ProfileCodec, TrailWeights

CONSTANTS
  Hall, Nest, Dump,  \* the hall, the cells of the nest, the end of the turf
  FoundingAir,   \* the cells open in a new colony
  LaterRooms,    \* the store cells once the colony has planned another room
  Sites,         \* the founding forage sites, in order
  Carry,         \* what a worker carries
  Second, TrailPeriod                \* kTicksPerSecond, 4

Forager == 1
Digger == 2
Workers == {Forager, Digger}
Turf == Hall .. Dump - 1  \* where ants stand

\* The strip: the nest ends at the hall, the turf is open from there to the dump, and every site
\* lies on it.  Sites have ids of their own, and rooms are added to those there are.
ASSUME SavedRunAssumption ==
  /\ IsFiniteSet(Cells) /\ Cells \subseteq Nat
  /\ Hall \in Nat /\ Dump \in Nat /\ Hall < Dump
  /\ Nest \subseteq Cells /\ \A c \in Nest : c <= Hall
  /\ FoundingAir \subseteq Cells /\ Turf \subseteq FoundingAir
  /\ FoundingRooms \subseteq LaterRooms /\ LaterRooms \subseteq Nest
  /\ Sites \in Seq([id : Nat \ {0}, at : Turf, amount : Nat, reserved : {0}, known : BOOLEAN])
  /\ \A i, j \in DOMAIN Sites : Sites[i].id = Sites[j].id => i = j
  /\ Carry \in Nat /\ Grains \in Nat /\ Second \in Nat \ {0} /\ TrailPeriod \in Nat \ {0}

VARIABLES
  world,  \* the colony; "worked" counts the productive turns of the tick under way
  turn    \* 0 between steps, then the ants' turns, then the evening's two halves

savedVars == <<turn, world, run, booked>>

Trails == INSTANCE TrailField WITH trails <- world.trails, open <- world.open

-----------------------------------------------------------------------------
(* What the world derives: nothing of it is in a document. *)

\* refresh_zones: the store cells that hang together with the hall.
Joined(ground) ==
  LET joined[n \in 0 .. Cardinality(Nest)] ==
        IF n = 0 THEN {Hall}
        ELSE LET near == joined[n - 1]
             IN  near \cup {c \in ground : \E d \in near, i \in 1 .. 4 : Side(d, i) = c}
  IN  joined[Cardinality(Nest)]
Zones(w) == Joined(w.open \cap Nest) \cap w.rooms

RefreshedZones(w) == [w EXCEPT !.zones = Zones(w), !.zoned = <<w.revision, w.rooms>>]
ZonesCurrent(w) == w.zoned = <<w.revision, w.rooms>>

Capacity(w) == Cardinality(w.zones) * Grains
Stored(w) == TotalOf(w.heaps)
Carried(w) == TotalOf([a \in Workers |-> IF w.ants[a].cargo = "Food" THEN w.ants[a].amount ELSE 0])
Fresh(w, a) == w.ants[a].revision = w.revision

\* Grid::set: ground that opens or closes makes every route old.
Dug(w, c) == [w EXCEPT !.open = @ \cup {c}, !.revision = @ + 1]
Tipped(w, c) == [w EXCEPT !.open = @ \ {c}, !.revision = @ + 1]

\* Nearest cells first.
Apart(c, d) == IF c < d THEN d - c ELSE c - d
StockedHeaps(zones, amount) ==
  [c \in zones |->
     LET before == {d \in zones : \/ Apart(d, Hall) < Apart(c, Hall)
                                  \/ Apart(d, Hall) = Apart(c, Hall) /\ d < c}
         left == amount - Grains * Cardinality(before)
     IN  Min({Grains, Max({0, left})})]

-----------------------------------------------------------------------------
(* Documents. *)

\* World::snapshot and Session::snapshot.
Unroutable(a) == Lacking(a, {"revision"})
SavedAnt(w, a) == Having(Unroutable(w.ants[a]), [valid |-> Fresh(w, a)])
Saved(w, s) ==
  [open |-> w.open, rooms |-> w.rooms, passages |-> w.passages, sources |-> w.sources,
   heaps |-> w.heaps, stored |-> Stored(w), trails |-> w.trails.front,
   mature |-> w.mature, eggs |-> w.eggs, brood |-> w.brood, traits |-> w.traits,
   session |-> s, ants |-> [a \in Workers |-> SavedAnt(w, a)]]

Document == [version |-> Current, receipt |-> "None", run |-> Saved(world, run)]

\* Fault: every route counts as current.
RouteRenewed(revision, a) == Having(Lacking(a, {"valid"}), [revision |-> revision])
Route(revision, a) ==
  Having(Lacking(a, {"valid"}), [revision |-> IF a.valid THEN revision ELSE 0])

\* World's restoring constructor; the session is the one saved.  The revision starts from solid
\* ground; zones are computed at once; heaps that are missing or more than fits are laid out afresh.
Restored(s) ==
  LET revision == 1 + Cardinality(s.open)
      zones == Zones(s)
      misfit == (DOMAIN s.heaps = {} /\ s.stored > 0) \/ s.stored > Cardinality(zones) * Grains
      bare ==
        [open |-> s.open, revision |-> revision, rooms |-> s.rooms, passages |-> s.passages,
         zones |-> zones, zoned |-> <<revision, s.rooms>>, sources |-> s.sources,
         heaps |-> IF misfit THEN StockedHeaps(zones, s.stored) ELSE s.heaps,
         trails |-> Trails!RestoredTrails(s.trails), mature |-> s.mature, eggs |-> s.eggs,
         brood |-> s.brood, traits |-> s.traits, worked |-> 0, carried |-> 0,
         ants |-> [a \in Workers |-> Route(revision, s.ants[a])]]
  IN  [bare EXCEPT !.carried = Carried(bare)]

\* World::invariant_holds.
InvariantHolds(w) ==
  /\ Stored(w) <= Capacity(w) /\ SourcesHold(w)
  /\ HeapsHold(w, Stored(w))
  /\ \A a \in Workers : w.ants[a].at \in w.open /\ w.ants[a].amount >= 0

\* read_profile's verdict on a migrated document.
Accepted(d) ==
  /\ d.version = Current
  /\ ValidWorld(d.run) /\ CountersHold(d.run.session)
  /\ InvariantHolds(Restored(d.run))

-----------------------------------------------------------------------------
(* The worker who forages.  Walks inside the nest are one step. *)

Ant(w, a, change) == [w EXCEPT !.ants[a] = Having(@, change)]
Worked(w) == [w EXCEPT !.worked = @ + 1]

Way(c, d) == IF c < d THEN [k \in 1 .. d - c |-> c + k] ELSE [k \in 1 .. c - d |-> c - k]
Passes(w, c, d) == \A k \in DOMAIN Way(c, d) : Way(c, d)[k] \in w.open
Routed(w, a, d) == Ant(w, a, [path |-> Way(w.ants[a].at, d), revision |-> w.revision])
PlaceOf(w, a) == IndexOf(w.sources, w.ants[a].source) + 1

Claim(w, i, n) == [w EXCEPT !.sources[i].reserved = @ + n]
Released(w) ==
  LET i == PlaceOf(w, Forager)
      freed == IF i = 0 THEN w ELSE Claim(w, i, -w.ants[Forager].reserved)
  IN  Ant(freed, Forager, [path |-> <<>>, source |-> 0, reserved |-> 0, state |-> "AtHome"])

\* choose_source: a claim on what the site and the stores leave.
Offered(w, i) ==
  Min({Carry, w.sources[i].amount - w.sources[i].reserved,
       Capacity(w) - Stored(w) - w.carried - w.sources[i].reserved})
Chosen(w, i) ==
  Routed(Ant(Claim(w, i, Offered(w, i)), Forager,
             [source |-> w.sources[i].id, reserved |-> Offered(w, i), state |-> "ToSource"]),
         Forager, w.sources[i].at)
Offers(w) ==
  {i \in DOMAIN w.sources : /\ w.sources[i].known /\ Offered(w, i) > 0
                            /\ Passes(w, w.ants[Forager].at, w.sources[i].at)}

Stepped(w) ==
  LET ant == w.ants[Forager]
  IN  IF ant.path = <<>> THEN w
      ELSE Worked(Ant(w, Forager, [at |-> ant.path[1], path |-> Tail(ant.path)]))

Loaded(w, i, n) ==
  LET site == [w.sources[i] EXCEPT !.amount = @ - n, !.reserved = @ - w.ants[Forager].reserved]
  IN  [w EXCEPT !.sources[i] = site, !.carried = @ + n]
Arrived(w) ==
  LET i == PlaceOf(w, Forager)
      n == Min({w.sources[i].amount, w.ants[Forager].reserved})
  IN  Routed(Ant(Loaded(w, i, n), Forager,
                 [cargo |-> "Food", amount |-> n, reserved |-> 0, state |-> "Returning"]),
             Forager, Hall)

\* A route grown old is planned afresh; the end of the walk is an arrival.
Goal(w) == IF w.ants[Forager].state = "ToSource" THEN w.sources[PlaceOf(w, Forager)].at ELSE Hall
Walked(w) == Stepped(IF Fresh(w, Forager) THEN w ELSE Routed(w, Forager, Goal(w)))
Travelled(w) ==
  IF Walked(w).ants[Forager].path # <<>> THEN Walked(w)
  ELSE IF w.ants[Forager].state = "ToSource" THEN Arrived(Walked(w))
  ELSE Ant(Walked(w), Forager, [path |-> <<>>, state |-> "Storing"])

\* store_cargo: into a heap with room, or the load is held until there is one.
HeapAt(w, c) == IF c \in DOMAIN w.heaps THEN w.heaps[c] ELSE 0
Room(w, c) == Min({w.ants[Forager].amount, Grains - HeapAt(w, c), Capacity(w) - Stored(w)})
Heaped(w, c, n) ==
  [w EXCEPT !.heaps = [d \in DOMAIN @ \cup {c} |-> HeapAt(w, d) + (IF d = c THEN n ELSE 0)],
            !.carried = @ - n]
Unloaded(w, c) ==
  LET left == w.ants[Forager].amount - Room(w, c)
      me == IF left > 0 THEN [amount |-> left]
            ELSE [path |-> <<>>, amount |-> 0, cargo |-> "None", state |-> "AtHome", source |-> 0]
  IN  Worked(Ant(Heaped(w, c, Room(w, c)), Forager, me))

Foraged(w) ==
  CASE w.ants[Forager].state = "AtHome" -> {w} \cup {Travelled(Chosen(w, i)) : i \in Offers(w)}
    [] w.ants[Forager].state = "ToSource" -> {Released(w), Travelled(w)}
    [] w.ants[Forager].state = "Returning" -> {Travelled(w)}
    [] w.ants[Forager].state = "Storing" ->
         {w} \cup {Unloaded(w, c) : c \in {d \in w.zones : Room(w, d) > 0}}

\* The worker who digs the cells the plan wants, and tips the grain at the end of the turf
\* unless somebody stands there.
Excavated(w) ==
  IF w.ants[Digger].cargo = "Spoil"
  THEN LET empty == Ant(w, Digger, [cargo |-> "None", amount |-> 0])
       IN  {w, IF Dump \in w.open /\ w.ants[Forager].at # Dump THEN Tipped(empty, Dump) ELSE empty}
  ELSE {w} \cup {Worked(Ant(Dug(w, c), Digger, [cargo |-> "Spoil", amount |-> 1]))
                 : c \in w.rooms \ w.open}

-----------------------------------------------------------------------------
(* The run. *)

NewAnt == [at |-> Hall, cargo |-> "None", amount |-> 0, state |-> "AtHome", source |-> 0,
           reserved |-> 0, path |-> <<>>, revision |-> 0]
Founded ==
  LET revision == 1 + Cardinality(FoundingAir)
      zones == Joined(FoundingAir \cap Nest) \cap FoundingRooms
  IN  [open |-> FoundingAir, revision |-> revision, rooms |-> FoundingRooms, passages |-> {},
       zones |-> zones, zoned |-> <<revision, FoundingRooms>>, sources |-> Sites,
       heaps |-> StockedHeaps(zones, Cardinality(zones) * Grains), carried |-> 0, worked |-> 0,
       trails |-> Trails!Untrodden, mature |-> TRUE, eggs |-> 1, brood |-> << [role |-> "Gyne"] >>,
       traits |-> [vigor |-> 0, industry |-> IndustryTier], ants |-> [a \in Workers |-> NewAnt]]

InitRun ==
  /\ turn = 0 /\ world = Founded
  /\ run = [NewSession EXCEPT !.crew = Cardinality(Workers)]
  /\ booked = [spent |-> 0, granted |-> 0]

\* recompute_needs_and_dig_plan: zones first, then another room when the stores are half full.
Planned(w) ==
  LET zoned == IF ZonesCurrent(w) THEN w ELSE RefreshedZones(w)
  IN  IF Stored(w) * 2 >= Capacity(zoned) THEN [zoned EXCEPT !.rooms = LaterRooms] ELSE zoned

\* retire_spent_sources: what is spent and promised to nobody.
Lasting(sources) ==
  LET kept[i \in 0 .. Len(sources)] ==
        IF i = 0 THEN <<>>
        ELSE IF sources[i].amount > 0 \/ sources[i].reserved > 0
             THEN Append(kept[i - 1], sources[i]) ELSE kept[i - 1]
  IN  kept[Len(sources)]
Retired(w) == [w EXCEPT !.sources = Lasting(@)]

BeginTick ==
  /\ turn = 0 /\ run.tick < MaxTick
  /\ world' = IF run.tick % Second = 0 THEN Planned(Retired(world)) ELSE Retired(world)
  /\ turn' = Forager /\ UNCHANGED <<run, booked>>

Act ==
  /\ turn \in Workers
  /\ world' \in IF turn = Forager THEN Foraged(world) ELSE Excavated(world)
  /\ turn' = turn + 1 /\ UNCHANGED <<run, booked>>

TrailsDue == (run.tick + 1) % TrailPeriod = 0

\* update_trails: a loaded forager marks her cell.
MarkTrail ==
  /\ turn = 3
  /\ \E a \in Amounts :
       world' = IF TrailsDue /\ world.ants[Forager].state \in {"Returning", "Storing"}
                THEN [world EXCEPT !.trails = Trails!Deposited(@, world.ants[Forager].at, a)]
                ELSE world
  /\ turn' = 4 /\ UNCHANGED <<run, booked>>

\* Once a second the colony eats, of any heap.
Eaten(w) ==
  {w} \cup {[w EXCEPT !.heaps[c] = @ - 1] : c \in {d \in DOMAIN w.heaps : w.heaps[d] > 0}}

\* The end of World::step and the rest of Session::step.
Faded(w) == [w EXCEPT !.trails = Trails!Updated(@, w.open)]
EndTick ==
  /\ turn = 4
  /\ Step(world.worked, Cardinality(Workers))
  /\ \E fed \in IF (run.tick + 1) % Second = 0 THEN Eaten(world) ELSE {world} :
       world' = [(IF TrailsDue THEN Faded(fed) ELSE fed) EXCEPT !.worked = 0]
  /\ turn' = 0

Command ==
  /\ turn = 0 /\ UNCHANGED <<turn, world>>
  /\ \/ \E u \in Upgrades : BuyUpgrade(u)
     \/ PolicyBuys
     \/ \E f \in Focuses : SetFocus(f)
     \/ \E n \in Grants : DebugGrantWork(n)

\* The document a program of version v wrote is opened; traits came with version 2.
Opened(v) == Migrated(AsVersion(v, Document))
Versions == IF IndustryTier = 0 THEN 1 .. Current ELSE 2 .. Current
Reopen(v) ==
  /\ turn = 0 /\ Accepted(Opened(v))
  /\ world' = Restored(Opened(v).run) /\ run' = Opened(v).run.session
  /\ UNCHANGED <<turn, booked>>

NextRun == BeginTick \/ Act \/ MarkTrail \/ EndTick \/ Command \/ \E v \in Versions : Reopen(v)

SpecRun == InitRun /\ [][NextRun]_savedVars

-----------------------------------------------------------------------------
\* Whatever the colony was doing when it was saved, and whichever version wrote the document, the
\* program opens it: claims still name sites, current routes lead over open ground, counters agree
\* and the heaps fit their rooms; a document of version 0 is refused (profile_codec.cpp:386).
ProfilesReopen == turn = 0 => /\ \A v \in Versions : Accepted(Opened(v))
                              /\ ~Accepted(Opened(0))

\* A world and its copy, as far as their steps can tell: revisions only say which routes are old.
Likeness(w) ==
  [Lacking(w, {"revision", "zoned"}) EXCEPT
     !.ants = [a \in Workers |-> Having(Unroutable(w.ants[a]), [fresh |-> Fresh(w, a)])]]

\* Saving and opening leaves no mark on what follows, as long as the zones were up to date; until
\* the second is over a copy knows rooms and stores the saved colony does not know yet.
SameFuture == turn = 0 /\ ZonesCurrent(world) =>
                /\ Likeness(Restored(Document.run)) = Likeness(world)
                /\ Document.run.session = run

\* The sparse trail field is the dense one, over updates, digging and restores.
TrailsOfRunAreDense == Trails!RefinesDense
===============================================================================
