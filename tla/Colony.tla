------------------------------- MODULE Colony -------------------------------
(***************************************************************************)
(* The life of the colony (src/src/sim/world.cpp): the queen lays, brood   *)
(* is fetched, tended, fed and grows through its stages, workers and       *)
(* winged queens hatch, starve and die of age, corpses are carried out or  *)
(* decompose, and the colony matures, declines and goes extinct.  Second   *)
(* is update_biology, the whole of it in its own order; the other actions  *)
(* are the turns nurses and cleaners take between two seconds.             *)
(*                                                                         *)
(* Who gets a ration is left open (the stores are FoodEconomy's), and so   *)
(* is when a worker's sampled lifespan ends.  Durations are small.         *)
(***************************************************************************)
EXTENDS Integers, FiniteSetsExt

CONSTANTS
  Founders,        \* workers at founding
  MaxIds,          \* bound of the model: eggs stop when ids run out
  NurseryCapacity, \* nursery_capacity_
  StageTime,       \* brood_target of a worker's stage, in half seconds
  CareSpan,        \* seconds of care one visit gives
  LayEvery,        \* seconds between eggs
  EggEvery,        \* one egg in EggEvery of a mature colony is winged
  MaxWinged,       \* winged queens and winged brood together
  QueenPatience, WorkerPatience, LarvaPatience,  \* seconds of starvation that kill
  CleanAge, CorpseAge,       \* when a corpse may be carried out, when it is gone
  MatureWorkers, MatureBorn, MatureAge

ASSUME ColonyAssumption ==
  /\ {Founders, MaxIds, NurseryCapacity, StageTime, CareSpan, LayEvery, EggEvery, MaxWinged,
      QueenPatience, WorkerPatience, LarvaPatience, CleanAge, CorpseAge} \subseteq Nat \ {0}
  /\ {MatureWorkers, MatureBorn, MatureAge} \subseteq Nat
  /\ Founders + 1 < MaxIds /\ CleanAge < CorpseAge

VARIABLES
  queen,   \* alive and starvation
  ants,    \* id -> kind, starvation and the corpse carried
  brood,   \* brood_
  corpses, \* id -> age
  nextId,  \* next_id_
  layIn,   \* seconds until next_laying_
  age,     \* seconds of the run, up to MatureAge
  mature, counter,   \* mature_ and egg_assignment_counter_ (modulo EggEvery)
  extinct,
  stats    \* eggs_laid, workers_born, gynes_born, deaths

vars == <<queen, ants, brood, corpses, nextId, layIn, age, mature, counter, extinct, stats>>

Queen == 1   \* the queen is the first ant of the colony and keeps that id
NoCorpse == [id |-> 0, age |-> 0]
Callow(kind) == [kind |-> kind, starvation |-> 0, corpse |-> NoCorpse]
Workers == {a \in DOMAIN ants : ants[a].kind = "worker"}
Carried(w) == {b \in brood : b.carrier = w}
Winged(colony, items) ==
  Cardinality({a \in DOMAIN colony : colony[a].kind = "winged"})
    + Cardinality({b \in items : b.role = "winged"})

Init ==
  /\ queen = [alive |-> TRUE, starvation |-> 0]
  /\ ants = [a \in 2 .. Founders + 1 |-> Callow("worker")]
  /\ brood = {} /\ corpses = [c \in {} |-> 0]
  /\ nextId = Founders + 2 /\ layIn = 0 /\ age = 0
  /\ mature = FALSE /\ counter = 0 /\ extinct = FALSE
  /\ stats = [eggs |-> 0, workers |-> 0, winged |-> 0, deaths |-> 0]

-----------------------------------------------------------------------------
(* Growth of one brood item in one second. *)

Target(b) == IF b.role = "winged" THEN 2 * StageTime ELSE StageTime
NextStage(stage) ==
  CASE stage = "egg" -> "larva" [] stage = "larva" -> "pupa" [] stage = "pupa" -> "adult"

\* Fault: brood nobody cares for does not develop.
GrownOnlyTended(b, fed) ==
  LET hungry == b.stage = "larva" /\ ~fed
      progress == b.progress + (IF hungry \/ b.care = 0 THEN 0 ELSE 2)
      starving == IF b.stage # "larva" THEN b.starvation ELSE IF hungry THEN b.starvation + 1 ELSE 0
      next == [b EXCEPT !.care = Max({0, @ - 1}), !.starvation = starving, !.progress = progress]
  IN  IF progress < Target(b) THEN next
      ELSE [next EXCEPT !.progress = 0, !.stage = NextStage(b.stage)]
\* Larvae need a ration; brood without fresh care develops at half the rate.
Grown(b, fed) ==
  LET hungry == b.stage = "larva" /\ ~fed
      progress == b.progress + (IF hungry THEN 0 ELSE IF b.care > 0 THEN 2 ELSE 1)
      starving == IF b.stage # "larva" THEN b.starvation ELSE IF hungry THEN b.starvation + 1 ELSE 0
      next == [b EXCEPT !.care = Max({0, @ - 1}), !.starvation = starving, !.progress = progress]
  IN  IF progress < Target(b) \/ (b.stage = "larva" /\ starving >= LarvaPatience) THEN next
      ELSE [next EXCEPT !.progress = 0, !.stage = NextStage(b.stage)]

Starved(b) == b.stage = "larva" /\ b.starvation >= LarvaPatience
Rank(b, items) == Cardinality({c \in items : c.id < b.id})

\* Fault: winged brood in the nursery is not counted.
RoleOfIgnoringBrood(colony, items, nth) ==
  IF mature /\ nth = 0 /\ Winged(colony, {}) < MaxWinged THEN "winged" ELSE "worker"
\* One egg in EggEvery of a mature colony is winged, while the cap leaves room.
RoleOf(colony, items, nth) ==
  IF mature /\ nth = 0 /\ Winged(colony, items) < MaxWinged THEN "winged" ELSE "worker"

Egg(id, role) == [id |-> id, stage |-> "egg", progress |-> 0, care |-> 0, starvation |-> 0,
              role |-> role, carrier |-> 0, near |-> FALSE, cradled |-> FALSE]

\* Fault: brood a dead nurse carried keeps her as its carrier.
LaidDownHeld(items, dead) == items
\* The dead let go of the brood they carried.
LaidDown(items, dead) ==
  {IF b.carrier \in dead THEN [b EXCEPT !.carrier = 0, !.near = FALSE] ELSE b : b \in items}

\* Fault: the queen is counted among the dead only when there is no worker left.
QueenDeathUncounted(dies) == IF dies /\ ants = <<>> THEN 1 ELSE 0
QueenDeath(dies) == IF dies THEN 1 ELSE 0

\* update_maturity
Matures(workers, born) ==
  mature \/ (workers >= MatureWorkers /\ born >= MatureBorn /\ age >= MatureAge)

\* The corpses after a second: those that lay there, the queen's, those the dead carried, and the
\* dead; all a second older, the oldest gone.
Decomposed(queenDies, colony, dead) ==
  LET dropped == {colony[a].corpse.id : a \in dead} \ {0}
      all == DOMAIN corpses \cup dropped \cup dead \cup (IF queenDies THEN {Queen} ELSE {})
      was(c) == IF c \in DOMAIN corpses THEN corpses[c] ELSE IF c \in dropped THEN CleanAge ELSE 0
  IN  [c \in {d \in all : was(d) + 1 < CorpseAge} |-> was(c) + 1]

\* Eggs and pupae need no food.
Eaters == DOMAIN ants \cup {b.id : b \in {c \in brood : c.stage = "larva"}}
            \cup (IF queen.alive THEN {Queen} ELSE {})

\* update_biology, with the ants and larvae that got a ration and the workers whose time is up.
Second ==
  \E fed \in SUBSET Eaters, old \in SUBSET Workers :
    LET queenFed  == queen.alive /\ Queen \in fed
        queenDies == queen.alive /\ ~queenFed /\ queen.starvation + 1 >= QueenPatience
        grown     == {Grown(b, b.id \in fed) : b \in brood}
        starved   == {b \in grown : Starved(b)}
        hatched   == {b \in grown : b.stage = "adult"}
        left      == grown \ (starved \cup hatched)
        kids      == {nextId + Rank(b, hatched) : b \in hatched}
        born(k)   == CHOOSE b \in hatched : nextId + Rank(b, hatched) = k
        colony    == [a \in DOMAIN ants \cup kids |->
                        IF a \in kids THEN Callow(born(a).role)
                        ELSE [ants[a] EXCEPT !.starvation = IF a \in fed THEN 0 ELSE @ + 1]]
        due       == queen.alive /\ ~queenDies /\ queenFed /\ layIn <= 1
        lays      == /\ due /\ Cardinality(left) < NurseryCapacity
                     /\ nextId + Cardinality(hatched) + Cardinality(left) + 1 <= MaxIds
        nth       == (counter + 1) % EggEvery
        laid      == Egg(nextId + Cardinality(hatched), RoleOf(colony, left, nth))
        items     == IF lays THEN left \cup {laid} ELSE left
        dead      == {a \in DOMAIN colony : a \in old \/ colony[a].starvation >= WorkerPatience}
    IN  /\ queen' = [alive |-> queen.alive /\ ~queenDies,
                     starvation |-> IF ~queen.alive \/ queenFed THEN 0 ELSE queen.starvation + 1]
        /\ ants' = [a \in DOMAIN colony \ dead |-> colony[a]]
        /\ brood' = LaidDown(items, dead)
        /\ corpses' = Decomposed(queenDies, colony, dead)
        /\ nextId' = nextId + Cardinality(hatched) + (IF lays THEN 1 ELSE 0)
        /\ layIn' = IF due THEN LayEvery ELSE Max({0, layIn - 1})
        /\ counter' = IF lays /\ mature THEN nth ELSE counter
        /\ stats' = [eggs    |-> stats.eggs + (IF lays THEN 1 ELSE 0),
                     workers |-> stats.workers
                                   + Cardinality({b \in hatched : b.role = "worker"}),
                     winged  |-> stats.winged + Cardinality({b \in hatched : b.role = "winged"}),
                     deaths  |-> stats.deaths + Cardinality(starved) + Cardinality(dead)
                                   + QueenDeath(queenDies)]
        /\ age' = Min({MatureAge, age + 1})
        /\ mature' = Matures(Cardinality({a \in DOMAIN ants' : ants'[a].kind = "worker"}),
                             stats'.workers)
        /\ extinct' = (~queen'.alive /\ ants' = <<>> /\ brood' = {})

-----------------------------------------------------------------------------
(* Between two seconds: nurses and cleaners. *)

Kept == UNCHANGED <<queen, nextId, layIn, age, mature, counter, extinct, stats>>
BroodBecomes(b, c) == brood' = (brood \ {b}) \cup {c} /\ UNCHANGED <<ants, corpses>> /\ Kept

FreeHands(w) == ants[w].corpse = NoCorpse
\* Brood that lies outside the brood rooms is picked up.
Fetch(w) ==
  /\ FreeHands(w) /\ Carried(w) = {}
  /\ \E b \in brood :
       b.carrier = 0 /\ ~b.cradled /\ BroodBecomes(b, [b EXCEPT !.carrier = w, !.near = TRUE])

\* A nurse comes to the cradle and sets the item down, or finds none free and lets go where she is.
SetDown(w) ==
  /\ FreeHands(w)
  /\ \E b \in Carried(w), cradled \in BOOLEAN :
       BroodBecomes(b, [b EXCEPT !.carrier = 0, !.near = FALSE, !.cradled = cradled])

\* A nurse with an item is called to another task and walks off; the item stays where it is.
WalkOff(w) ==
  \E b \in Carried(w) : b.near /\ BroodBecomes(b, [b EXCEPT !.near = FALSE])

\* Back at nursing: the item is with her again, wherever it lay.
Resume(w) ==
  /\ FreeHands(w)
  /\ \E b \in Carried(w) : ~b.near /\ BroodBecomes(b, [b EXCEPT !.near = TRUE])

\* A nurse at her post serves the neediest item, the oldest of them first.
Tend(w) ==
  /\ FreeHands(w) /\ Carried(w) = {}
  /\ \E b \in brood :
       /\ \A c \in brood : c.care > b.care \/ (c.care = b.care /\ c.id >= b.id)
       /\ b.care < CareSpan
       /\ BroodBecomes(b, [b EXCEPT !.care = CareSpan])

\* A cleaner picks up a corpse.
PickCorpse(w) ==
  /\ FreeHands(w)
  /\ \E c \in DOMAIN corpses :
       /\ corpses[c] >= CleanAge
       /\ ants' = [ants EXCEPT ![w].corpse = [id |-> c, age |-> corpses[c]]]
       /\ corpses' = [d \in DOMAIN corpses \ {c} |-> corpses[d]]
  /\ UNCHANGED brood /\ Kept

\* Tipped on the surface.
DeliverCorpse(w) ==
  /\ ~FreeHands(w)
  /\ ants' = [ants EXCEPT ![w].corpse = NoCorpse]
  /\ UNCHANGED <<brood, corpses>> /\ Kept

Next ==
  \/ Second
  \/ \E w \in Workers :
       Fetch(w) \/ SetDown(w) \/ WalkOff(w) \/ Resume(w) \/ Tend(w) \/ PickCorpse(w)
         \/ DeliverCorpse(w)

Spec == Init /\ [][Next]_vars

-----------------------------------------------------------------------------
(* Properties. *)

Stages == {"egg", "larva", "pupa"}
Roles == {"worker", "winged"}
\* Types, and the bounds of the collections.
TypeOK ==
  /\ queen \in [alive : BOOLEAN, starvation : 0 .. QueenPatience]
  /\ \A a \in DOMAIN ants :
       /\ a \in 2 .. MaxIds
       /\ ants[a] \in [kind : Roles, starvation : 0 .. WorkerPatience - 1,
                       corpse : [id : 0 .. MaxIds, age : 0 .. CorpseAge]]
  /\ brood \subseteq [id : 1 .. MaxIds, stage : Stages, progress : 0 .. 2 * StageTime,
                      care : 0 .. CareSpan, starvation : 0 .. LarvaPatience - 1, role : Roles,
                      carrier : 0 .. MaxIds, near : BOOLEAN, cradled : BOOLEAN]
  /\ Cardinality(brood) <= NurseryCapacity
  /\ \A c \in DOMAIN corpses : c \in 1 .. MaxIds /\ corpses[c] \in 0 .. CorpseAge - 1
  /\ nextId \in 1 .. MaxIds + 1 /\ layIn \in 0 .. LayEvery /\ age \in 0 .. MatureAge
  /\ mature \in BOOLEAN /\ counter \in 0 .. EggEvery - 1 /\ extinct \in BOOLEAN

Corpses == DOMAIN corpses
InHand == {ants[a].corpse.id : a \in DOMAIN ants} \ {0}

Order(stage) == CASE stage = "egg" -> 1 [] stage = "larva" -> 2 [] stage = "pupa" -> 3

\* Every reachable colony can be saved: what validate_world (profile_codec.cpp:222) demands of ants
\* and brood holds after any sequence of hatches, deaths and corpses carried, or no profile would
\* commit again.  Corpses in a cleaner's grip count too: her death puts them back among the rest.
ColonySaves ==
  /\ TypeOK
  /\ \A b, c \in brood : b.id = c.id => b = c
  /\ {b.id : b \in brood} \cap (DOMAIN ants \cup Corpses \cup InHand) = {}
  /\ DOMAIN ants \cap (Corpses \cup InHand) = {} /\ Corpses \cap InHand = {}
  /\ \A v, w \in DOMAIN ants : ants[v].corpse.id = ants[w].corpse.id => v = w \/ FreeHands(v)
  /\ queen.alive => Queen \notin DOMAIN ants \cup Corpses \cup InHand
  /\ \A b \in brood : b.progress <= Target(b)
  /\ Winged(ants, brood) <= MaxWinged
  /\ ~mature => counter = 0
  /\ \A i \in DOMAIN ants \cup Corpses \cup {b.id : b \in brood} : i < nextId

\* Every egg is accounted for: founders and eggs are the living, the brood and the recorded deaths.
PopulationBalances ==
  1 + Founders + stats.eggs
    = Cardinality(DOMAIN ants) + (IF queen.alive THEN 1 ELSE 0) + Cardinality(brood) + stats.deaths

\* Whoever carries brood lives, carries one item, and the item is out of its cradle: brood is never
\* left in the grip of a nurse that died on another errand.
CarriersLive ==
  /\ \A b \in brood : b.carrier # 0 => b.carrier \in Workers /\ ~b.cradled
  /\ \A b, c \in brood : b.carrier = c.carrier /\ b.carrier # 0 => b = c

Nearer(b, c) ==
  \/ Order(c.stage) > Order(b.stage)
  \/ c.stage = b.stage /\ c.progress > b.progress
  \/ c.stage = b.stage /\ c.progress = b.progress /\ c.starvation > b.starvation
Unmoved(b, c) ==
  <<b.stage, b.progress, b.starvation>> = <<c.stage, c.progress, c.starvation>>

\* Nobody stays brood for ever: cared for or not, fed or hungry, with a nurse or not, each second
\* brings an item nearer to hatching or to starving, and nothing done in between takes it back.
\* The measure is bounded, so every item resolves as long as the world is stepped.
BroodAdvances ==
  [][\A b \in brood, c \in brood' : b.id = c.id => Nearer(b, c) \/ (Unmoved(b, c) /\ ~Second)]_vars

=============================================================================
