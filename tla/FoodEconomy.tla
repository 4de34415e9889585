----------------------------- MODULE FoodEconomy -----------------------------
(***************************************************************************)
(* The food of the colony (src/src/sim/world.cpp): forage sites that       *)
(* appear, are found, reserved, emptied and retired; foragers that reserve,*)
(* fetch, carry and store loads; heaps in the granary that fill and are    *)
(* eaten; loads dropped by the dying and picked up by cleaners.  One step  *)
(* is one handler of World::step: the opening of a tick, one worker's      *)
(* turn (workers act in the order of their ids), or the end of the tick.   *)
(*                                                                         *)
(* Walking is abstract: in a turn a forager either arrives or is still on  *)
(* its way.  So are the rankings of sites and heaps, which only decide     *)
(* among the choices left open here.  Grain is counted in small units.     *)
(***************************************************************************)
EXTENDS Integers, Sequences, FiniteSetsExt

CONSTANTS
  Workers,      \* the number of workers; worker w has the w-th smallest id
  SourceIds,    \* sites are numbered 1..SourceIds; numbers are never reused
  MaxSources,   \* kMaxFoodSources
  SiteAmounts,  \* the amounts a site may open with
  GrainsPerCell,\* kGrainsPerStoreCell
  Carry,        \* the carrying capacity of a forager
  ScoutCap,     \* scout_cap()
  Patience,     \* turns until a reservation expires
  FirstCells,   \* store cells at founding
  MaxCells      \* store cells ever dug

ASSUME FoodAssumption ==
  /\ {Workers, SourceIds, GrainsPerCell, Carry, Patience, MaxCells} \subseteq Nat \ {0}
  /\ {MaxSources, ScoutCap, FirstCells} \subseteq Nat
  /\ SiteAmounts \subseteq Nat \ {0} /\ SiteAmounts # {} /\ IsFiniteSet(SiteAmounts)
  /\ 2 <= MaxSources /\ 2 <= SourceIds /\ FirstCells <= MaxCells

VARIABLES
  turn,      \* 0: a tick begins; w: worker w acts; Workers + 1: the tick ends
  sites,     \* sources_: site id -> [nutrient, amount, reserved, known]
  lastSite,  \* the last site id given out
  worker,    \* Forager and Cargo of every worker
  scouts,    \* scouting_workers_
  granary,   \* granary_: the heaps in the order they were started
  stores,    \* stores_: what the counters say is in the heaps
  cells,     \* the number of store cells
  dropped,   \* dropped_food_, oldest first
  carried,   \* carried_food_
  counted    \* what the last step added to the counters of stats_: external_refill, less
             \* decayed_food and consumed_carbohydrate and consumed_protein

vars == <<turn, sites, lastSite, worker, scouts, granary, stores, cells, dropped, carried, counted>>

Nutrients == {"sugar", "protein"}
Ids == 1 .. Workers
Largest == Max(SiteAmounts)
NoLoad == [nutrient |-> "sugar", amount |-> 0]
\* The sum of a function's values.
Total(f) == MapThenSumSet(LAMBDA x : f[x], DOMAIN f)

-----------------------------------------------------------------------------
(* Heaps and capacity. *)

\* Two cells of every three are for sugar.
SugarCells(n) == (n * 2) \div 3
Allowed(n) == IF n = "sugar" THEN SugarCells(cells) ELSE cells - SugarCells(cells)
CapacityFor(n) == Allowed(n) * GrainsPerCell

Heaps(g, n) == {i \in DOMAIN g : g[i].nutrient = n /\ g[i].amount > 0}
\* Fault: an empty cell goes to whoever asks, whatever the nutrient's share.
CellsLeftToAll(n) == Cardinality(Heaps(granary, n)) < cells
CellsLeft(n) == Cardinality(Heaps(granary, n)) < Allowed(n)
HeapAt(c) == {i \in DOMAIN granary : granary[i].cell = c}
Taken(c) == \E i \in HeapAt(c) : granary[i].amount > 0

\* Fault: a full heap still takes a load.
AcceptsFull(c, n) ==
  IF Taken(c)
  THEN \E i \in HeapAt(c) : granary[i].nutrient = n /\ granary[i].amount <= GrainsPerCell
  ELSE c \in 1 .. cells /\ CellsLeft(n)
Accepts(c, n) ==
  IF Taken(c)
  THEN \E i \in HeapAt(c) : granary[i].nutrient = n /\ granary[i].amount < GrainsPerCell
  ELSE c \in 1 .. cells /\ CellsLeft(n)

\* A heap to top up if there is one, else an empty store cell.
StoreTargets(n) ==
  LET partial == {c \in 1 .. cells : Taken(c) /\ Accepts(c, n)}
      free    == {c \in 1 .. cells : ~Taken(c)}
  IN  IF partial # {} THEN partial ELSE IF CellsLeft(n) THEN free ELSE {}

\* The amount deposit_food sets down.
Placed(c, n, amount) ==
  LET here == Total([i \in HeapAt(c) |-> granary[i].amount])
  IN  IF \E i \in HeapAt(c) : granary[i].amount > 0 /\ granary[i].nutrient # n
      THEN 0
      ELSE Min({amount, GrainsPerCell - here, CapacityFor(n) - stores[n]})

Heaped(c, n, amount) ==
  IF HeapAt(c) = {}
  THEN Append(granary, [cell |-> c, nutrient |-> n, amount |-> amount])
  ELSE [i \in DOMAIN granary |->
          IF i \in HeapAt(c)
          THEN [granary[i] EXCEPT !.nutrient = n, !.amount = @ + amount]
          ELSE granary[i]]

\* Eaten out of the oldest heaps first.
EatenFrom(g, meal) ==
  [i \in DOMAIN g |->
     LET n == g[i].nutrient
         before == Total([j \in {j \in Heaps(g, n) : j < i} |-> g[j].amount])
     IN  [g[i] EXCEPT !.amount = @ - Max({0, Min({@, meal[n] - before})})]]

-----------------------------------------------------------------------------
(* Sites. *)

Available(s) == sites[s].known /\ sites[s].amount > sites[s].reserved
SitesOf(n) == Cardinality({s \in DOMAIN sites : sites[s].nutrient = n})

\* Roughly two sugar sites for every protein site.
NextNutrients ==
  LET sugar == SitesOf("sugar")
      protein == SitesOf("protein")
  IN  IF sugar < protein * 2 THEN {"sugar"}
      ELSE IF sugar > protein * 2 + 1 THEN {"protein"} ELSE Nutrients

WantsScouts ==
  \E n \in Nutrients :
    /\ stores[n] + carried[n] < CapacityFor(n) \div 2
    /\ ~\E s \in DOMAIN sites : sites[s].nutrient = n /\ Available(s)

\* release_reservation: the claim goes back to the site, if it still exists.
Released(w) ==
  LET f == worker[w]
  IN  IF f.reserved > 0 /\ f.source \in DOMAIN sites
      THEN [sites EXCEPT ![f.source].reserved = Max({0, @ - f.reserved})]
      ELSE sites

-----------------------------------------------------------------------------
Idle == [state |-> "AtHome", source |-> 0, reserved |-> 0, patience |-> 0,
         cargo |-> NoLoad, cell |-> 0]

\* Both founding sites are known; the founding stock fills the chambers as far as they go.
Init ==
  /\ turn = 0
  /\ \E amount \in SiteAmounts :
       sites = [s \in 1 .. 2 |-> [nutrient |-> IF s = 1 THEN "sugar" ELSE "protein",
                                  amount |-> amount, reserved |-> 0, known |-> TRUE]]
  /\ lastSite = 2
  /\ worker = [w \in Ids |-> Idle]
  /\ scouts = 0
  /\ cells = FirstCells
  /\ granary = [c \in 1 .. FirstCells |->
                  [cell |-> c, amount |-> GrainsPerCell,
                   nutrient |-> IF c <= SugarCells(FirstCells) THEN "sugar" ELSE "protein"]]
  /\ stores = [n \in Nutrients |-> CapacityFor(n)]
  /\ dropped = <<>>
  /\ carried = [n \in Nutrients |-> 0]
  /\ counted = 0

-----------------------------------------------------------------------------
(* The opening of a tick. *)

\* A new site, as spawn_food_sources leaves it: unknown, full and unreserved.
Spawned ==
  {sites} \cup
  IF lastSite < SourceIds /\ Cardinality(DOMAIN sites) < MaxSources
  THEN {[s \in DOMAIN sites \cup {lastSite + 1} |->
           IF s \in DOMAIN sites THEN sites[s]
           ELSE [nutrient |-> n, amount |-> a, reserved |-> 0, known |-> FALSE]] :
          n \in NextNutrients, a \in SiteAmounts}
  ELSE {}

\* Fault: an emptied site goes although a forager still holds a claim on it.
SpentClaimed(s) == s.amount <= 0 \/ s.amount = s.reserved
Spent(s) == s.amount <= 0 /\ s.reserved <= 0

\* spawn_food_sources, retire_spent_sources, the count of scouts and refresh_zones.
BeginTick ==
  /\ turn = 0 /\ turn' = 1
  /\ \E opened \in Spawned :
       /\ lastSite' = IF opened = sites THEN lastSite ELSE lastSite + 1
       /\ \E rotten \in SUBSET {s \in DOMAIN sites : ~sites[s].known /\ ~Spent(sites[s])} :
            LET left == {s \in DOMAIN opened : ~Spent(opened[s]) /\ s \notin rotten}
            IN  /\ sites' = [s \in left |-> opened[s]]
                /\ counted' = (IF opened = sites THEN 0 ELSE opened[lastSite + 1].amount)
                              - Total([s \in rotten |-> sites[s].amount])
  /\ scouts' = Cardinality({w \in Ids : worker[w].state = "Scouting"})
  /\ cells' \in cells .. MaxCells
  /\ UNCHANGED <<worker, granary, stores, dropped, carried>>

-----------------------------------------------------------------------------
(* A worker's turn. *)

Turn(w) == turn = w /\ turn' = w + 1 /\ worker[w].state # "Dead"
Loaded(w) == worker[w].cargo.amount > 0
Becomes(w, f) == worker' = [worker EXCEPT ![w] = f]
Waits(w) == [worker[w] EXCEPT !.state = "AtHome", !.source = 0, !.reserved = 0, !.patience = 0]
FoodKept == counted' = 0 /\ UNCHANGED <<granary, stores, carried, dropped>>
Kept == UNCHANGED <<lastSite, cells>>

\* The turn of a worker that is gone, on its way, waiting, or busy with what is not food.
Pass(w) ==
  /\ turn = w /\ turn' = w + 1
  /\ worker[w].state # "ToSource"
  /\ UNCHANGED <<sites, worker, scouts>> /\ FoodKept /\ Kept

\* Fault: a reservation never runs out.
WalkForever(w) ==
  /\ Turn(w) /\ worker[w].state = "ToSource"
  /\ UNCHANGED <<worker, sites, scouts>> /\ FoodKept /\ Kept
\* Still on the way to a site; a claim that runs out is released.
Walk(w) ==
  /\ Turn(w) /\ worker[w].state = "ToSource"
  /\ \/ /\ worker[w].patience > 0
        /\ Becomes(w, [worker[w] EXCEPT !.patience = @ - 1])
        /\ UNCHANGED sites
     \/ /\ worker[w].patience = 0
        /\ sites' = Released(w) /\ Becomes(w, Waits(w))
  /\ UNCHANGED scouts /\ FoodKept /\ Kept

\* The route was cut and cannot be planned again, or another task was chosen.
GiveUp(w) ==
  /\ Turn(w) /\ worker[w].state \in {"ToSource", "Scouting"} /\ ~Loaded(w)
  /\ worker[w].state = "Scouting" => ~WantsScouts
  /\ sites' = Released(w) /\ Becomes(w, Waits(w))
  /\ UNCHANGED scouts /\ FoodKept /\ Kept

\* What a forager may reserve at a site: its load, what is left there, what fits at home.
Offer(s) ==
  LET n == sites[s].nutrient
  IN  Min({Carry, sites[s].amount - sites[s].reserved,
           CapacityFor(n) - stores[n] - carried[n] - sites[s].reserved})

\* A site that proves unreachable is given up, unless somebody is on the way to it.
Losable(s) == Available(s) /\ Offer(s) > 0 /\ sites[s].reserved <= 0

\* choose_source: sites are tried in turn; those no path leads to are lost, and the first one
\* with a path is reserved, or none.
ChooseSource(w) ==
  /\ Turn(w) /\ worker[w].state = "AtHome" /\ ~Loaded(w)
  /\ ~(WantsScouts /\ scouts < ScoutCap)
  /\ \E lost \in SUBSET {s \in DOMAIN sites : Losable(s)} :
       LET left == [s \in DOMAIN sites |->
                      IF s \in lost THEN [sites[s] EXCEPT !.amount = 0] ELSE sites[s]]
       IN  /\ counted' = -Total([s \in lost |-> sites[s].amount])
           /\ \/ sites' = left /\ Becomes(w, Waits(w))
              \/ \E s \in DOMAIN sites \ lost :
                   /\ Available(s) /\ Offer(s) > 0
                   /\ sites' = [left EXCEPT ![s].reserved = @ + Offer(s)]
                   /\ Becomes(w, [worker[w] EXCEPT !.state = "ToSource", !.source = s,
                                                   !.reserved = Offer(s), !.patience = Patience])
  /\ UNCHANGED <<scouts, granary, stores, carried, dropped>> /\ Kept

\* arrive at a site: the claim becomes cargo.
PickUp(w) ==
  /\ Turn(w) /\ worker[w].state = "ToSource" /\ worker[w].patience > 0
  /\ LET s == worker[w].source
         load == Min({sites[s].amount, worker[w].reserved})
     IN  IF s \notin DOMAIN sites
         THEN Becomes(w, Waits(w)) /\ UNCHANGED <<sites, carried>>
         ELSE /\ sites' = [sites EXCEPT ![s].amount = @ - load,
                                        ![s].reserved = Max({0, @ - worker[w].reserved})]
              /\ carried' = [carried EXCEPT ![sites[s].nutrient] = @ + load]
              /\ Becomes(w, IF load <= 0 THEN Waits(w)
                            ELSE [worker[w] EXCEPT
                                    !.state = "Returning", !.reserved = 0, !.patience = 0,
                                    !.cargo = [nutrient |-> sites[s].nutrient, amount |-> load]])
  /\ UNCHANGED <<scouts, granary, stores, dropped>> /\ counted' = 0 /\ Kept

\* Home, with the load still to be carried to its heap.
ComeHome(w) ==
  /\ Turn(w) /\ worker[w].state = "Returning"
  /\ Becomes(w, [worker[w] EXCEPT !.state = "Storing"])
  /\ UNCHANGED <<sites, scouts>> /\ FoodKept /\ Kept

\* store_cargo with no heap left to take the load.
WaitForStorage(w) ==
  /\ Turn(w) /\ worker[w].state = "Storing"
  /\ ~Accepts(worker[w].cell, worker[w].cargo.nutrient)
  /\ StoreTargets(worker[w].cargo.nutrient) = {}
  /\ Becomes(w, [worker[w] EXCEPT !.state = "Waiting"])
  /\ UNCHANGED <<sites, scouts>> /\ FoodKept /\ Kept

\* The heap a load is bound for: the one it has while that takes it, else another.
Bound(w) ==
  LET n == worker[w].cargo.nutrient
  IN  IF Accepts(worker[w].cell, n) THEN {worker[w].cell} ELSE StoreTargets(n)

ReadyToStore(w) ==
  \/ worker[w].state = "Storing"
  \/ worker[w].state = "Waiting" /\ StoreTargets(worker[w].cargo.nutrient) # {}

\* On the way to the heap, with the heap chosen anew when the old one takes no more.
Approach(w) ==
  /\ Turn(w) /\ ReadyToStore(w)
  /\ \E c \in Bound(w) : Becomes(w, [worker[w] EXCEPT !.state = "Storing", !.cell = c])
  /\ UNCHANGED <<sites, scouts>> /\ FoodKept /\ Kept

\* At the heap: deposit_food.
SetDown(w) ==
  /\ Turn(w) /\ ReadyToStore(w)
  /\ \E c \in Bound(w) :
       LET n == worker[w].cargo.nutrient
           put == Placed(c, n, worker[w].cargo.amount)
           left == worker[w].cargo.amount - put
       IN  /\ granary' = Heaped(c, n, put)
           /\ stores' = [stores EXCEPT ![n] = @ + put]
           /\ carried' = [carried EXCEPT ![n] = @ - put]
           /\ Becomes(w, IF left = 0 THEN [Idle EXCEPT !.cell = c]
                         ELSE [worker[w] EXCEPT !.state = "Storing", !.cell = c,
                                                !.cargo.amount = left])
  /\ UNCHANGED <<sites, scouts, dropped>> /\ counted' = 0 /\ Kept

\* A worker carrying food whose forager stands idle walks home with it first.
TurnHome(w) ==
  /\ Turn(w) /\ worker[w].state = "AtHome" /\ Loaded(w)
  /\ Becomes(w, [worker[w] EXCEPT !.state = "Returning"])
  /\ UNCHANGED <<sites, scouts>> /\ FoodKept /\ Kept

StartScouting(w) ==
  /\ Turn(w) /\ worker[w].state = "AtHome" /\ ~Loaded(w)
  /\ WantsScouts /\ scouts < ScoutCap
  /\ Becomes(w, [worker[w] EXCEPT !.state = "Scouting"])
  /\ scouts' = scouts + 1
  /\ UNCHANGED sites /\ FoodKept /\ Kept

\* discover_source: the site is known to all from then on.
Discovered(s) == [sites EXCEPT ![s].known = TRUE]

\* A scout passes an unknown site that is not empty.
Discover(w) ==
  /\ Turn(w) /\ worker[w].state = "Scouting"
  /\ \E s \in DOMAIN sites :
       /\ ~sites[s].known /\ sites[s].amount > 0
       /\ sites' = Discovered(s)
  /\ Becomes(w, [worker[w] EXCEPT !.state = "AtHome"])
  /\ UNCHANGED scouts /\ FoodKept /\ Kept

\* Fault: the load picked up is not counted as carried.
CleanUncounted(w) ==
  /\ Turn(w) /\ worker[w].state \in {"AtHome", "ToSource"} /\ ~Loaded(w) /\ dropped # <<>>
  /\ sites' = Released(w)
  /\ Becomes(w, [Waits(w) EXCEPT !.cargo = Head(dropped)])
  /\ dropped' = Tail(dropped)
  /\ UNCHANGED <<scouts, granary, stores, carried>> /\ counted' = 0 /\ Kept
\* A worker that turned to cleaning gives up its site and takes the oldest dropped load.
Clean(w) ==
  /\ Turn(w) /\ worker[w].state \in {"AtHome", "ToSource"} /\ ~Loaded(w) /\ dropped # <<>>
  /\ sites' = Released(w)
  /\ Becomes(w, [Waits(w) EXCEPT !.cargo = Head(dropped)])
  /\ dropped' = Tail(dropped)
  /\ carried' = [carried EXCEPT ![Head(dropped).nutrient] = @ + Head(dropped).amount]
  /\ UNCHANGED <<scouts, granary, stores>> /\ counted' = 0 /\ Kept

ProcessWorker(w) ==
  \/ Pass(w) \/ Walk(w) \/ GiveUp(w) \/ ChooseSource(w) \/ PickUp(w) \/ ComeHome(w)
  \/ WaitForStorage(w) \/ Approach(w) \/ SetDown(w) \/ TurnHome(w) \/ StartScouting(w)
  \/ Discover(w) \/ Clean(w)

-----------------------------------------------------------------------------
(* The end of a tick, which may close a second and run update_biology. *)

\* What some workers hold reserved at a site, and what they carry of a nutrient.
ClaimsOn(s, ids) == Total([w \in {v \in ids : worker[v].source = s} |-> worker[w].reserved])
CargoOf(n, ids) ==
  Total([w \in {v \in ids : worker[v].cargo.nutrient = n} |-> worker[w].cargo.amount])

\* What lies about once the dying have dropped their loads, in the order of their ids, on top of
\* what was kept.
DroppedBy(dead, kept) ==
  LET heap[w \in 0 .. Workers] ==
        IF w = 0 THEN kept
        ELSE IF w \in dead /\ Loaded(w) THEN Append(heap[w - 1], worker[w].cargo)
        ELSE heap[w - 1]
  IN  heap[Workers]

\* Fault: the dying keep their claims.
ReleasedByKeeping(dead) == sites
\* The claims of the dying go back to their sites.
ReleasedBy(dead) ==
  [s \in DOMAIN sites |->
     [sites[s] EXCEPT !.reserved =
        Max({0, @ - ClaimsOn(s, dead)})]]

\* The queen, the workers and the larvae eat, one after another and oldest heap first, so that
\* together they eat like one; then the old and the starved die, and dropped loads decay.
Biology ==
  /\ turn = Workers + 1 /\ turn' = 0
  /\ \E sugar \in 0 .. stores["sugar"], protein \in 0 .. stores["protein"],
        dead \in SUBSET {w \in Ids : worker[w].state # "Dead"}, old \in 0 .. Len(dropped) :
       LET meal == [n \in Nutrients |-> IF n = "sugar" THEN sugar ELSE protein]
       IN  /\ stores' = [n \in Nutrients |-> stores[n] - meal[n]]
           /\ granary' = EatenFrom(granary, meal)
           /\ worker' = [w \in Ids |->
                           IF w \in dead THEN [Idle EXCEPT !.state = "Dead"] ELSE worker[w]]
           /\ sites' = ReleasedBy(dead)
           /\ carried' = [n \in Nutrients |-> carried[n] - CargoOf(n, dead)]
           /\ dropped' = DroppedBy(dead, SubSeq(dropped, old + 1, Len(dropped)))
           /\ counted' = -sugar - protein - Total([i \in 1 .. old |-> dropped[i].amount])
  /\ UNCHANGED <<scouts, lastSite, cells>>

EndTick ==
  /\ turn = Workers + 1 /\ turn' = 0
  /\ UNCHANGED <<sites, worker, scouts>> /\ FoodKept /\ Kept

Next == BeginTick \/ (\E w \in Ids : ProcessWorker(w)) \/ Biology \/ EndTick

\* The main loop never stops stepping the world (src/src/app/main.cpp:448).
Spec == Init /\ [][Next]_vars /\ WF_vars(Next)

-----------------------------------------------------------------------------
(* Properties. *)

States == {"AtHome", "ToSource", "Returning", "Waiting", "Storing", "Scouting", "Dead"}
Loads == [nutrient : Nutrients, amount : Nat]

SiteType == [nutrient : Nutrients, amount : 0 .. Largest, reserved : Nat, known : BOOLEAN]
WorkerType == [state : States, source : 0 .. SourceIds, reserved : 0 .. Carry,
               patience : 0 .. Patience, cargo : Loads, cell : 0 .. MaxCells]
HeapType == [cell : 1 .. cells, nutrient : Nutrients, amount : 0 .. GrainsPerCell]

\* Types, and the bounds every collection keeps.
TypeOK ==
  /\ turn \in 0 .. Workers + 1 /\ lastSite \in 0 .. SourceIds /\ cells \in FirstCells .. MaxCells
  /\ sites \in [DOMAIN sites -> SiteType]
  /\ DOMAIN sites \subseteq 1 .. lastSite /\ Cardinality(DOMAIN sites) <= MaxSources
  /\ worker \in [Ids -> WorkerType]
  /\ scouts \in 0 .. Max({ScoutCap, Workers})
  /\ granary \in Seq(HeapType) /\ dropped \in Seq(Loads)
  /\ {stores, carried} \subseteq [Nutrients -> Nat]
  /\ counted \in Int

\* What a site counts as reserved is exactly what living foragers on their way to it will take,
\* the site still holds it, and no forager walks to a site that is gone or unknown: over any order
\* of reservations, expiries, changes of task, deaths, pickups and retired sites.  The saved world
\* is refused at load when this fails (World::invariant_holds).
ReservationsAreClaims ==
  /\ \A w \in Ids : worker[w].reserved > 0 =>
       /\ worker[w].state = "ToSource"
       /\ worker[w].source \in DOMAIN sites /\ sites[worker[w].source].known
  /\ \A s \in DOMAIN sites :
       /\ sites[s].reserved <= sites[s].amount
       /\ sites[s].reserved = ClaimsOn(s, Ids)

InSites == Total([s \in DOMAIN sites |-> sites[s].amount])
InCargo(n) == CargoOf(n, Ids)
InDropped == Total([i \in DOMAIN dropped |-> dropped[i].amount])
Both(f) == f["sugar"] + f["protein"]

\* The counters that room is judged by are the food they stand for: stores_ is the heaps in the
\* nest and carried_food_, which is never saved, is what the workers carry; and neither nutrient
\* outgrows its share of the cells however heaps are emptied, retyped and topped up.
CountersMatch ==
  /\ TypeOK
  /\ \A n \in Nutrients :
       /\ carried[n] = InCargo(n)
       /\ stores[n] = Total([i \in Heaps(granary, n) |-> granary[i].amount])
       /\ stores[n] <= CapacityFor(n)
       /\ Cardinality(Heaps(granary, n)) <= Allowed(n)

\* Food is neither made nor lost: sites, cargo, dropped loads and stores together change by what the
\* counters of refill, consumption and decay record, and by nothing else
\* (src/docs/engineering/VALIDATION.md:20).
FoodConserved ==
  [][(InSites + InCargo("sugar") + InCargo("protein") + InDropped + Both(stores))'
     = InSites + InCargo("sugar") + InCargo("protein") + InDropped + Both(stores) + counted']_vars

\* A load finds a cell exactly while its nutrient has capacity left: free cells promised to one
\* nutrient are never eaten up by the other, and a full store never offers a cell.
RoomMeansTarget ==
  \A n \in Nutrients : stores[n] < CapacityFor(n) <=> StoreTargets(n) # {}

\* A forager that stands at the heap it is bound for sets something down: a heap that accepts a load
\* never leaves her standing there with all of it.
DepositsNeverStall ==
  \A w \in Ids : ReadyToStore(w) =>
    \A c \in Bound(w) : Placed(c, worker[w].cargo.nutrient, worker[w].cargo.amount) > 0

\* Every reservation ends: in a pickup, in its expiry, with another task or with the forager.
ReservationsEnd == \A w \in Ids : worker[w].reserved > 0 ~> worker[w].reserved = 0

=============================================================================
