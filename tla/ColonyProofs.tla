----------------------------- MODULE ColonyProofs -----------------------------
(***************************************************************************)
(* Theorems about Colony for any founders, durations, capacities and caps: *)
(* every reachable colony can be saved, every egg is accounted for, no     *)
(* item of brood is left in the grip of the dead, and every second brings  *)
(* each item nearer to hatching or starving.                               *)
(***************************************************************************)
EXTENDS Colony, FiniteSetTheorems, TLAPS

Item == [id : 1 .. MaxIds, stage : Stages, progress : 0 .. 2 * StageTime, care : 0 .. CareSpan,
         starvation : 0 .. LarvaPatience - 1, role : Roles, carrier : 0 .. MaxIds,
         near : BOOLEAN, cradled : BOOLEAN]

\* An item after a second of growth, before the starved and the hatched leave.
GrownItem == [id : 1 .. MaxIds, stage : Stages \cup {"adult"}, progress : 0 .. 2 * StageTime,
              care : 0 .. CareSpan, starvation : 0 .. LarvaPatience, role : Roles,
              carrier : 0 .. MaxIds, near : BOOLEAN, cradled : BOOLEAN]

Counts == [eggs : Nat, workers : Nat, winged : Nat, deaths : Nat]

\* Ids tell the items of a set apart.
Distinct(items) == \A b, c \in items : b.id = c.id => b = c

\* The ids there may still be: one for each item that may hatch.
IdsLast == nextId + Cardinality(brood) <= MaxIds + 1

\* What ColonySaves needs besides itself.
ColonyInv ==
  /\ ColonySaves /\ CarriersLive /\ PopulationBalances
  /\ stats \in Counts /\ IsFiniteSet(brood) /\ IsFiniteSet(DOMAIN ants)
  /\ ants = [a \in DOMAIN ants |-> ants[a]]
  /\ \A a \in DOMAIN ants : ants[a].corpse.id = 0 => FreeHands(a)
  /\ \A i \in InHand : i < nextId
  /\ \A b \in brood : b.progress < Target(b) /\ b.id # Queen
  /\ queen.alive => queen.starvation < QueenPatience
  /\ nextId > Founders + 1 /\ IdsLast

-----------------------------------------------------------------------------
(* A second, in parts *)

GrownBrood(fed) == {Grown(b, b.id \in fed) : b \in brood}
StarvedBrood(fed) == {b \in GrownBrood(fed) : Starved(b)}
Hatched(fed) == {b \in GrownBrood(fed) : b.stage = "adult"}
Left(fed) == GrownBrood(fed) \ (StarvedBrood(fed) \cup Hatched(fed))
Kids(fed) == {nextId + Rank(b, Hatched(fed)) : b \in Hatched(fed)}
Born(fed, k) == CHOOSE b \in Hatched(fed) : nextId + Rank(b, Hatched(fed)) = k
Grownups(fed) == [a \in DOMAIN ants \cup Kids(fed) |->
                    IF a \in Kids(fed) THEN Callow(Born(fed, a).role)
                    ELSE [ants[a] EXCEPT !.starvation = IF a \in fed THEN 0 ELSE @ + 1]]
QueenFed(fed) == queen.alive /\ Queen \in fed
QueenDies(fed) == queen.alive /\ ~QueenFed(fed) /\ queen.starvation + 1 >= QueenPatience
Due(fed) == queen.alive /\ ~QueenDies(fed) /\ QueenFed(fed) /\ layIn <= 1
Lays(fed) == /\ Due(fed) /\ Cardinality(Left(fed)) < NurseryCapacity
             /\ nextId + Cardinality(Hatched(fed)) + Cardinality(Left(fed)) + 1 <= MaxIds
Nth == (counter + 1) % EggEvery
Laid(fed) == Egg(nextId + Cardinality(Hatched(fed)), RoleOf(Grownups(fed), Left(fed), Nth))
Items(fed) == IF Lays(fed) THEN Left(fed) \cup {Laid(fed)} ELSE Left(fed)
Dead(fed, old) ==
  {a \in DOMAIN Grownups(fed) : a \in old \/ Grownups(fed)[a].starvation >= WorkerPatience}

\* What a second leaves, by those who were fed and those whose time was up.
Passes(fed, old) ==
  /\ queen' = [alive |-> queen.alive /\ ~QueenDies(fed),
               starvation |-> IF ~queen.alive \/ QueenFed(fed) THEN 0 ELSE queen.starvation + 1]
  /\ ants' = [a \in DOMAIN Grownups(fed) \ Dead(fed, old) |-> Grownups(fed)[a]]
  /\ brood' = LaidDown(Items(fed), Dead(fed, old))
  /\ corpses' = Decomposed(QueenDies(fed), Grownups(fed), Dead(fed, old))
  /\ nextId' = nextId + Cardinality(Hatched(fed)) + (IF Lays(fed) THEN 1 ELSE 0)
  /\ layIn' = IF Due(fed) THEN LayEvery ELSE Max({0, layIn - 1})
  /\ counter' = IF Lays(fed) /\ mature THEN Nth ELSE counter
  /\ stats' = [eggs    |-> stats.eggs + (IF Lays(fed) THEN 1 ELSE 0),
               workers |-> stats.workers + Cardinality({b \in Hatched(fed) : b.role = "worker"}),
               winged  |-> stats.winged + Cardinality({b \in Hatched(fed) : b.role = "winged"}),
               deaths  |-> stats.deaths + Cardinality(StarvedBrood(fed))
                             + Cardinality(Dead(fed, old)) + QueenDeath(QueenDies(fed))]
  /\ age' = Min({MatureAge, age + 1})
  /\ mature' = Matures(Cardinality({a \in DOMAIN ants' : ants'[a].kind = "worker"}),
                       stats'.workers)
  /\ extinct' = (~queen'.alive /\ ants' = <<>> /\ brood' = {})

\* update_biology is this, for some of them.
LEMMA SecondPasses ==
  ASSUME Second
  PROVE  \E fed \in SUBSET Eaters, old \in SUBSET Workers : Passes(fed, old)
BY DEF Second, Passes, GrownBrood, StarvedBrood, Hatched, Left, Kids, Born, Grownups, QueenFed,
       QueenDies, Due, Lays, Nth, Laid, Items, Dead

-----------------------------------------------------------------------------
(* Numbers of things *)

\* What can be told apart after a renaming is as many as before.
LEMMA SameSize ==
  ASSUME NEW S, IsFiniteSet(S), NEW T, NEW f \in [S -> T],
         \A t \in T : \E s \in S : f[s] = t, \A x, y \in S : f[x] = f[y] => x = y
  PROVE  IsFiniteSet(T) /\ Cardinality(T) = Cardinality(S)
<1>1. f \in Surjection(S, T)
  BY DEF Surjection
<1>2. f \in Injection(S, T)
  BY DEF Injection, IsInjective
<1> QED BY <1>1, <1>2, FS_Surjection

\* The rank of an item among items told apart by their ids: below their number, and its own.
LEMMA Ranks ==
  ASSUME NEW H, IsFiniteSet(H), Distinct(H), \A b \in H : b.id \in Int
  PROVE  /\ \A b \in H : Rank(b, H) \in 0 .. Cardinality(H) - 1
         /\ \A b, c \in H : Rank(b, H) = Rank(c, H) => b = c
<1> DEFINE Below(b) == {c \in H : c.id < b.id}
<1>1. \A b \in H : Rank(b, H) = Cardinality(Below(b))
  BY DEF Rank
<1>2. \A b \in H : IsFiniteSet(Below(b)) /\ Cardinality(Below(b)) \in Nat
  BY FS_Subset, FS_CardinalityType
<1>3. ASSUME NEW b \in H PROVE Cardinality(Below(b)) <= Cardinality(H) - 1
  <2>1. Below(b) \in SUBSET (H \ {b})
    OBVIOUS
  <2>2. IsFiniteSet(H \ {b}) /\ Cardinality(H \ {b}) = Cardinality(H) - 1
    BY FS_RemoveElement
  <2> HIDE DEF Below
  <2> QED BY <2>1, <2>2, FS_Subset
<1>4. ASSUME NEW b \in H, NEW c \in H, b.id < c.id PROVE Cardinality(Below(b)) # Cardinality(Below(c))
  <2>1. Below(b) \in SUBSET Below(c) /\ b \in Below(c) /\ b \notin Below(b)
    BY <1>4
  <2> HIDE DEF Below
  <2> QED BY <1>2, <2>1, FS_Subset
<1>5. ASSUME NEW b \in H, NEW c \in H, Rank(b, H) = Rank(c, H) PROVE b = c
  <2>1. ~(b.id < c.id) /\ ~(c.id < b.id)
    <3> HIDE DEF Below
    <3> QED BY <1>1, <1>4, <1>5
  <2>2. b.id = c.id
    BY <2>1
  <2> QED BY <2>2 DEF Distinct
<1>6. Cardinality(H) \in Nat
  BY FS_CardinalityType
<1> HIDE DEF Below
<1> QED BY <1>1, <1>2, <1>3, <1>5, <1>6

\* The larger and the smaller of two numbers.
LEMMA Extremes ==
  ASSUME NEW a \in Int, NEW b \in Int
  PROVE  /\ Max({a, b}) = IF a > b THEN a ELSE b
         /\ Min({a, b}) = IF a < b THEN a ELSE b
<1>1. \A x \in {a, b} : (\A y \in {a, b} : y <= x) => x = IF a > b THEN a ELSE b
  OBVIOUS
<1>2. \E x \in {a, b} : \A y \in {a, b} : x >= y
  OBVIOUS
<1>3. \E x \in {a, b} : \A y \in {a, b} : x <= y
  OBVIOUS
<1> QED BY <1>1, <1>2, <1>3 DEF Max, Min

-----------------------------------------------------------------------------
(* Growth *)

\* The constants, as numbers.
LEMMA Numbers ==
  /\ Founders \in Nat \ {0} /\ MaxIds \in Nat \ {0} /\ NurseryCapacity \in Nat \ {0}
  /\ StageTime \in Nat \ {0} /\ CareSpan \in Nat \ {0} /\ LayEvery \in Nat \ {0}
  /\ EggEvery \in Nat \ {0} /\ MaxWinged \in Nat \ {0} /\ QueenPatience \in Nat \ {0}
  /\ WorkerPatience \in Nat \ {0} /\ LarvaPatience \in Nat \ {0} /\ CleanAge \in Nat \ {0}
  /\ CorpseAge \in Nat \ {0} /\ MatureWorkers \in Nat /\ MatureBorn \in Nat /\ MatureAge \in Nat
  /\ Founders + 1 < MaxIds /\ CleanAge < CorpseAge
BY ColonyAssumption

\* One second of one item: it stays what it is, and if it stays brood it is further on.
LEMMA ItemGrows ==
  ASSUME NEW b \in Item, b.progress < Target(b), NEW fed \in BOOLEAN
  PROVE  LET g == Grown(b, fed)
         IN  /\ g \in GrownItem /\ g.id = b.id /\ g.role = b.role
             /\ g.carrier = b.carrier /\ g.cradled = b.cradled
             /\ g.stage # "adult" /\ ~Starved(g) => g \in Item /\ g.progress < Target(g)
             /\ g.stage # "adult" /\ ~Starved(g) => Nearer(b, g)
<1> DEFINE hungry == b.stage = "larva" /\ ~fed
           progress == b.progress + (IF hungry THEN 0 ELSE IF b.care > 0 THEN 2 ELSE 1)
           starving == IF b.stage # "larva" THEN b.starvation
                       ELSE IF hungry THEN b.starvation + 1 ELSE 0
           care == IF b.care > 0 THEN b.care - 1 ELSE 0
           stays == progress < Target(b) \/ (b.stage = "larva" /\ starving >= LarvaPatience)
           g == Grown(b, fed)
<1>1. /\ b.id \in 1 .. MaxIds /\ b.stage \in Stages /\ b.progress \in Nat
      /\ b.care \in 0 .. CareSpan /\ b.starvation \in 0 .. LarvaPatience - 1 /\ b.role \in Roles
      /\ b.carrier \in 0 .. MaxIds /\ b.near \in BOOLEAN /\ b.cradled \in BOOLEAN
  BY DEF Item
<1>2. b = [id |-> b.id, stage |-> b.stage, progress |-> b.progress, care |-> b.care,
           starvation |-> b.starvation, role |-> b.role, carrier |-> b.carrier, near |-> b.near,
           cradled |-> b.cradled]
  BY DEF Item
<1>3. Max({0, b.care - 1}) = care
  BY <1>1, Extremes, Numbers
<1>4. /\ progress \in Nat /\ starving \in 0 .. LarvaPatience /\ care \in 0 .. CareSpan
      /\ Target(b) \in Nat /\ Target(b) <= 2 * StageTime /\ 0 < Target(b)
  BY <1>1, Numbers DEF Target
<1>5. /\ progress > b.progress \/ (progress = b.progress /\ hungry)
      /\ hungry => starving > b.starvation /\ b.stage = "larva" /\ progress = b.progress
  BY <1>1, Numbers
<1>6. g = IF stays
          THEN [id |-> b.id, stage |-> b.stage, progress |-> progress, care |-> care,
                starvation |-> starving, role |-> b.role, carrier |-> b.carrier,
                near |-> b.near, cradled |-> b.cradled]
          ELSE [id |-> b.id, stage |-> NextStage(b.stage), progress |-> 0, care |-> care,
                starvation |-> starving, role |-> b.role, carrier |-> b.carrier,
                near |-> b.near, cradled |-> b.cradled]
  <2> DEFINE next == [b EXCEPT !.care = Max({0, @ - 1}), !.starvation = starving,
                               !.progress = progress]
             aged == [id |-> b.id, stage |-> b.stage, progress |-> progress, care |-> care,
                      starvation |-> starving, role |-> b.role, carrier |-> b.carrier,
                      near |-> b.near, cradled |-> b.cradled]
  <2>1. next = [b EXCEPT !.care = care, !.starvation = starving, !.progress = progress]
    BY <1>3
  <2>2. next = aged
    <3> HIDE DEF next, care, starving, progress
    <3> QED BY <1>2, <2>1
  <2>3. g = IF stays THEN next ELSE [next EXCEPT !.progress = 0, !.stage = NextStage(b.stage)]
    BY DEF Grown
  <2> HIDE DEF next, care, starving, progress, stays
  <2> QED BY <2>2, <2>3
<1>7. NextStage(b.stage) \in Stages \cup {"adult"}
  BY <1>1 DEF NextStage, Stages
<1>8. g.id = b.id /\ g.role = b.role /\ g.carrier = b.carrier /\ g.cradled = b.cradled
  BY <1>6
<1>9. Target(g) = Target(b)
  BY <1>8 DEF Target
<1> HIDE DEF g
<1>10. CASE stays
  <2>1. /\ g.stage = b.stage /\ g.progress = progress /\ g.care = care /\ g.starvation = starving
        /\ g.near = b.near
    BY <1>6, <1>10
  <2>2. progress < Target(b)
    <3>1. CASE hungry
      BY <1>5, <3>1
    <3>2. CASE ~hungry
      <4>1. b.stage = "larva" => starving = 0
        BY <3>2
      <4> QED BY <1>4, <1>10, <4>1, Numbers
    <3> QED BY <3>1, <3>2
  <2> HIDE DEF progress, starving, care, hungry, stays
  <2>3. g \in GrownItem
    BY <1>1, <1>4, <1>6, <1>10, <2>2, Numbers DEF GrownItem
  <2>4. ~Starved(g) => starving \in 0 .. LarvaPatience - 1
    <3>1. b.stage # "larva" => starving = b.starvation
      BY DEF starving
    <3> QED BY <1>1, <1>4, <2>1, <3>1, Numbers DEF Starved
  <2>5. ~Starved(g) => g \in Item /\ g.progress < Target(g)
    BY <1>1, <1>4, <1>6, <1>9, <1>10, <2>1, <2>2, <2>4, Numbers DEF Item
  <2>6. Nearer(b, g)
    BY <1>5, <2>1 DEF Nearer
  <2> QED BY <1>8, <2>3, <2>5, <2>6 DEF g
<1>11. CASE ~stays
  <2>1. /\ g.stage = NextStage(b.stage) /\ g.progress = 0 /\ g.care = care
        /\ g.starvation = starving /\ g.near = b.near
    BY <1>6, <1>11
  <2>2. starving \in 0 .. LarvaPatience - 1
    BY <1>1, <1>4, <1>11, Numbers
  <2> HIDE DEF progress, starving, care, hungry, stays
  <2>3. g \in GrownItem
    BY <1>1, <1>4, <1>6, <1>7, <1>11, Numbers DEF GrownItem
  <2>4. g.stage # "adult" => g \in Item /\ g.progress < Target(g)
    BY <1>1, <1>4, <1>6, <1>7, <1>9, <1>11, <2>1, <2>2, Numbers DEF Item
  <2>5. g.stage # "adult" => Nearer(b, g)
    BY <1>1, <2>1 DEF Nearer, NextStage, Order, Stages
  <2> QED BY <1>8, <2>3, <2>4, <2>5 DEF g
<1> QED BY <1>10, <1>11

-----------------------------------------------------------------------------
(* The brood in a second *)

\* What the invariant says of the brood.
LEMMA BroodFacts ==
  ASSUME ColonyInv
  PROVE  /\ brood \in SUBSET Item /\ IsFiniteSet(brood) /\ Distinct(brood)
         /\ \A b \in brood : b.progress < Target(b)
         /\ Cardinality(brood) \in Nat /\ Cardinality(brood) <= NurseryCapacity
BY FS_CardinalityType DEF ColonyInv, ColonySaves, TypeOK, Item, Distinct

\* An item a second later comes from one item, and two from two.
LEMMA BroodGrows ==
  ASSUME ColonyInv, NEW fed
  PROVE  /\ GrownBrood(fed) \in SUBSET GrownItem /\ IsFiniteSet(GrownBrood(fed))
         /\ Cardinality(GrownBrood(fed)) = Cardinality(brood) /\ Distinct(GrownBrood(fed))
         /\ \A g \in GrownBrood(fed) : \E b \in brood :
              /\ b.id = g.id /\ b.role = g.role /\ b.carrier = g.carrier /\ b.cradled = g.cradled
              /\ g.stage # "adult" /\ ~Starved(g) =>
                   g \in Item /\ g.progress < Target(g) /\ Nearer(b, g)
         /\ Cardinality({g \in GrownBrood(fed) : g.role = "winged"})
              = Cardinality({b \in brood : b.role = "winged"})
<1> DEFINE f == [b \in brood |-> Grown(b, b.id \in fed)]
           G == GrownBrood(fed)
<1>1. /\ brood \in SUBSET Item /\ IsFiniteSet(brood) /\ Distinct(brood)
      /\ \A b \in brood : b.progress < Target(b)
  BY BroodFacts
<1>2. ASSUME NEW b \in brood
      PROVE  /\ f[b] \in GrownItem /\ f[b].id = b.id /\ f[b].role = b.role
             /\ f[b].carrier = b.carrier /\ f[b].cradled = b.cradled
             /\ f[b].stage # "adult" /\ ~Starved(f[b]) =>
                  f[b] \in Item /\ f[b].progress < Target(f[b]) /\ Nearer(b, f[b])
  <2> DEFINE eats == b.id \in fed
  <2>1. b \in Item /\ b.progress < Target(b) /\ eats \in BOOLEAN
    BY <1>1
  <2>2. f[b] = Grown(b, eats)
    OBVIOUS
  <2> HIDE DEF f, eats
  <2> DEFINE g == Grown(b, eats)
  <2>3. /\ g \in GrownItem /\ g.id = b.id /\ g.role = b.role
        /\ g.carrier = b.carrier /\ g.cradled = b.cradled
        /\ g.stage # "adult" /\ ~Starved(g) => g \in Item /\ g.progress < Target(g)
        /\ g.stage # "adult" /\ ~Starved(g) => Nearer(b, g)
    BY <2>1, ItemGrows
  <2> HIDE DEF g
  <2>4. f[b] = g
    BY <2>2 DEF g
  <2> QED BY <2>3, <2>4
<1>3. G = {f[b] : b \in brood}
  BY DEF GrownBrood
<1>4. f \in [brood -> G] /\ \A g \in G : \E b \in brood : f[b] = g
  BY DEF GrownBrood
<1> HIDE DEF f, G
<1>5. \A b, c \in brood : f[b] = f[c] => b = c
  BY <1>1, <1>2 DEF Distinct
<1>6. IsFiniteSet(G) /\ Cardinality(G) = Cardinality(brood)
  BY <1>1, <1>4, <1>5, SameSize
<1>7. \A g \in G : \E b \in brood :
         /\ b.id = g.id /\ b.role = g.role /\ b.carrier = g.carrier /\ b.cradled = g.cradled
         /\ g.stage # "adult" /\ ~Starved(g) => g \in Item /\ g.progress < Target(g) /\ Nearer(b, g)
  BY <1>2, <1>4
<1>8. Distinct(G)
  <2> SUFFICES ASSUME NEW g \in G, NEW h \in G, g.id = h.id PROVE g = h
    BY DEF Distinct
  <2>1. PICK b \in brood : f[b] = g
    BY <1>4
  <2>2. PICK c \in brood : f[c] = h
    BY <1>4
  <2> QED BY <1>1, <1>2, <2>1, <2>2 DEF Distinct
<1>9. G \in SUBSET GrownItem
  BY <1>2, <1>4
<1>10. Cardinality({g \in G : g.role = "winged"}) = Cardinality({b \in brood : b.role = "winged"})
  <2> DEFINE W == {b \in brood : b.role = "winged"}
             V == {g \in G : g.role = "winged"}
             h == [b \in W |-> f[b]]
  <2>1. IsFiniteSet(W)
    BY <1>1, FS_Subset
  <2>2. h \in [W -> V]
    BY <1>2, <1>4
  <2>3. \A g \in V : \E b \in W : h[b] = g
    BY <1>2, <1>4
  <2>4. \A b, c \in W : h[b] = h[c] => b = c
    BY <1>5
  <2> HIDE DEF W, V, h
  <2>5. Cardinality(V) = Cardinality(W)
    BY <2>1, <2>2, <2>3, <2>4, SameSize
  <2> QED BY <2>5 DEF W, V
<1> QED BY <1>6, <1>7, <1>8, <1>9, <1>10 DEF G

\* Each item stays, starves or hatches.
LEMMA BroodParts ==
  ASSUME ColonyInv, NEW fed
  PROVE  /\ Left(fed) \in SUBSET Item /\ Distinct(Left(fed)) /\ Distinct(Hatched(fed))
         /\ \A g \in Left(fed) : g.progress < Target(g)
         /\ \A g \in Left(fed) \cup Hatched(fed) : \E b \in brood :
              b.id = g.id /\ b.role = g.role /\ b.carrier = g.carrier /\ b.cradled = g.cradled
         /\ \A g \in Left(fed) : \E b \in brood : b.id = g.id /\ Nearer(b, g)
         /\ Hatched(fed) \in SUBSET GrownItem
         /\ IsFiniteSet(Left(fed)) /\ IsFiniteSet(Hatched(fed)) /\ IsFiniteSet(StarvedBrood(fed))
         /\ Cardinality(Left(fed)) \in Nat /\ Cardinality(Hatched(fed)) \in Nat
         /\ Cardinality(StarvedBrood(fed)) \in Nat
         /\ Cardinality(Left(fed)) + Cardinality(Hatched(fed)) + Cardinality(StarvedBrood(fed))
              = Cardinality(brood)
         /\ Cardinality({b \in Left(fed) : b.role = "winged"})
              + Cardinality({b \in Hatched(fed) : b.role = "winged"})
              <= Cardinality({b \in brood : b.role = "winged"})
<1> DEFINE G == GrownBrood(fed)
           H == Hatched(fed)
           S == StarvedBrood(fed)
           L == Left(fed)
<1>1. /\ G \in SUBSET GrownItem /\ IsFiniteSet(G) /\ Cardinality(G) = Cardinality(brood)
      /\ Distinct(G)
      /\ \A g \in G : \E b \in brood :
           /\ b.id = g.id /\ b.role = g.role /\ b.carrier = g.carrier /\ b.cradled = g.cradled
           /\ g.stage # "adult" /\ ~Starved(g) =>
                g \in Item /\ g.progress < Target(g) /\ Nearer(b, g)
      /\ Cardinality({g \in G : g.role = "winged"})
           = Cardinality({b \in brood : b.role = "winged"})
  BY BroodGrows
<1>2. /\ S = {b \in G : Starved(b)} /\ H = {b \in G : b.stage = "adult"} /\ L = G \ (S \cup H)
  BY DEF StarvedBrood, Hatched, Left
<1> HIDE DEF G, H, S, L
<1>3. \A g \in L : g \in G /\ g.stage # "adult" /\ ~Starved(g)
  BY <1>2
<1>4. /\ L \in SUBSET Item /\ \A g \in L : g.progress < Target(g)
      /\ \A g \in L : \E b \in brood : b.id = g.id /\ Nearer(b, g)
  BY <1>1, <1>3
<1>5. \A g \in L \cup H : \E b \in brood :
        b.id = g.id /\ b.role = g.role /\ b.carrier = g.carrier /\ b.cradled = g.cradled
  BY <1>1, <1>2
<1>6. Distinct(L) /\ Distinct(H) /\ H \in SUBSET GrownItem
  BY <1>1, <1>2 DEF Distinct
<1>7. S \cap H = {}
  BY <1>2 DEF Starved
<1>8. /\ IsFiniteSet(L) /\ IsFiniteSet(H) /\ IsFiniteSet(S) /\ Cardinality(L) \in Nat
      /\ Cardinality(H) \in Nat /\ Cardinality(S) \in Nat
  BY <1>1, <1>2, FS_Subset, FS_CardinalityType
<1>9. Cardinality(L) + Cardinality(H) + Cardinality(S) = Cardinality(brood)
  <2>1. IsFiniteSet(S \cup H) /\ Cardinality(S \cup H) = Cardinality(S) + Cardinality(H)
    BY <1>7, <1>8, FS_Union, FS_EmptySet
  <2>2. Cardinality(L) = Cardinality(G) - Cardinality(G \cap (S \cup H))
    BY <1>1, <1>2, FS_Difference
  <2>3. G \cap (S \cup H) = S \cup H
    BY <1>2
  <2>4. Cardinality(G) \in Nat /\ Cardinality(G) = Cardinality(brood)
    BY <1>1, FS_CardinalityType
  <2>5. Cardinality(L) = Cardinality(G) - Cardinality(S \cup H)
    BY <2>2, <2>3
  <2> QED BY <1>8, <2>1, <2>4, <2>5
<1>10. Cardinality({b \in L : b.role = "winged"}) + Cardinality({b \in H : b.role = "winged"})
         <= Cardinality({b \in brood : b.role = "winged"})
  <2> DEFINE WL == {b \in L : b.role = "winged"}
             WH == {b \in H : b.role = "winged"}
             WG == {b \in G : b.role = "winged"}
  <2>1. IsFiniteSet(WL) /\ IsFiniteSet(WH) /\ IsFiniteSet(WG)
    BY <1>1, <1>8, FS_Subset
  <2>2. WL \cap WH = {} /\ (WL \cup WH) \in SUBSET WG
    BY <1>2
  <2>3. Cardinality(WL) \in Nat /\ Cardinality(WH) \in Nat
    BY <2>1, FS_CardinalityType
  <2> HIDE DEF WL, WH, WG
  <2>4. Cardinality(WL \cup WH) = Cardinality(WL) + Cardinality(WH)
    BY <2>1, <2>2, <2>3, FS_Union, FS_EmptySet
  <2>5. Cardinality(WL \cup WH) <= Cardinality(WG)
    BY <2>1, <2>2, FS_Subset
  <2>6. Cardinality(WL) + Cardinality(WH) <= Cardinality(WG)
    BY <2>4, <2>5
  <2> QED BY <1>1, <2>6 DEF WL, WH, WG
<1> QED BY <1>4, <1>5, <1>6, <1>8, <1>9, <1>10 DEF L, H, S

\* The hatched take new ids, one each.
LEMMA KidsAreNew ==
  ASSUME ColonyInv, NEW fed
  PROVE  /\ IsFiniteSet(Kids(fed)) /\ Cardinality(Kids(fed)) = Cardinality(Hatched(fed))
         /\ Kids(fed) \in SUBSET Int
         /\ \A k \in Kids(fed) : /\ nextId <= k /\ k < nextId + Cardinality(Hatched(fed))
                                 /\ Born(fed, k) \in Hatched(fed)
         /\ Cardinality({k \in Kids(fed) : Born(fed, k).role = "winged"})
              = Cardinality({b \in Hatched(fed) : b.role = "winged"})
<1> DEFINE H == Hatched(fed)
           K == Kids(fed)
           f == [b \in H |-> nextId + Rank(b, H)]
<1>1. /\ IsFiniteSet(H) /\ Distinct(H) /\ \A b \in H : b.id \in Int
  <2>1. IsFiniteSet(H) /\ Distinct(H) /\ H \in SUBSET GrownItem
    BY BroodParts
  <2>2. \A b \in GrownItem : b.id \in Int
    BY Numbers DEF GrownItem
  <2> QED BY <2>1, <2>2
<1>2. nextId \in Int
  BY Numbers DEF ColonyInv, ColonySaves, TypeOK
<1>3. /\ \A b \in H : Rank(b, H) \in 0 .. Cardinality(H) - 1
      /\ \A b, c \in H : Rank(b, H) = Rank(c, H) => b = c
  BY <1>1, Ranks
<1>4. K = {f[b] : b \in H}
  BY DEF Kids
<1>5. \A k : Born(fed, k) = CHOOSE b \in H : f[b] = k
  BY DEF Born
<1>6. \A b \in H : f[b] = nextId + Rank(b, H)
  OBVIOUS
<1>7. f \in [H -> K] /\ \A k \in K : \E b \in H : f[b] = k
  BY <1>4
<1>8. Cardinality(H) \in Nat
  BY <1>1, FS_CardinalityType
<1> HIDE DEF f, K, H
<1>9. \A b, c \in H : f[b] = f[c] => b = c
  BY <1>2, <1>3, <1>6, <1>8
<1>10. IsFiniteSet(K) /\ Cardinality(K) = Cardinality(H)
  BY <1>1, <1>7, <1>9, SameSize
<1>11. \A k \in K : Born(fed, k) \in H /\ f[Born(fed, k)] = k
  BY <1>5, <1>7
<1>12. \A k \in K : k \in Int /\ nextId <= k /\ k < nextId + Cardinality(H)
  BY <1>2, <1>3, <1>6, <1>7, <1>8
<1>13. Cardinality({k \in K : Born(fed, k).role = "winged"})
         = Cardinality({b \in H : b.role = "winged"})
  <2> DEFINE W == {b \in H : b.role = "winged"}
             V == {k \in K : Born(fed, k).role = "winged"}
             h == [b \in W |-> f[b]]
  <2>1. IsFiniteSet(W)
    BY <1>1, FS_Subset
  <2>2. \A b \in H : Born(fed, f[b]) = b
    BY <1>7, <1>9, <1>11
  <2>3. h \in [W -> V]
    BY <1>7, <2>2
  <2>4. \A k \in V : \E b \in W : h[b] = k
    BY <1>11
  <2>5. \A b, c \in W : h[b] = h[c] => b = c
    BY <1>9
  <2> HIDE DEF W, V, h
  <2>6. Cardinality(V) = Cardinality(W)
    BY <2>1, <2>3, <2>4, <2>5, SameSize
  <2> QED BY <2>6 DEF W, V
<1> QED BY <1>10, <1>11, <1>12, <1>13 DEF H, K

-----------------------------------------------------------------------------
(* The ants in a second *)

AntRecord(most) == [kind : Roles, starvation : 0 .. most,
                    corpse : [id : 0 .. MaxIds, age : 0 .. CorpseAge]]

WingedAnts(colony) == {a \in DOMAIN colony : colony[a].kind = "winged"}
WingedBrood(items) == {b \in items : b.role = "winged"}

\* What the invariant says of the ants and the ids.
LEMMA AntFacts ==
  ASSUME ColonyInv
  PROVE  /\ nextId \in Int /\ Founders + 1 < nextId /\ 2 < nextId
         /\ nextId + Cardinality(brood) <= MaxIds + 1
         /\ IsFiniteSet(DOMAIN ants) /\ DOMAIN ants \in SUBSET (2 .. MaxIds)
         /\ \A a \in DOMAIN ants : ants[a] \in AntRecord(WorkerPatience - 1)
         /\ \A i \in DOMAIN ants \cup Corpses \cup {b.id : b \in brood} \cup InHand : i < nextId
         /\ DOMAIN ants \cap (Corpses \cup InHand) = {} /\ Corpses \cap InHand = {}
         /\ {b.id : b \in brood} \cap (DOMAIN ants \cup Corpses \cup InHand) = {}
         /\ Winged(ants, brood) <= MaxWinged /\ Cardinality(WingedAnts(ants)) \in Nat
         /\ Winged(ants, brood) = Cardinality(WingedAnts(ants)) + Cardinality(WingedBrood(brood))
         /\ Cardinality(DOMAIN ants) \in Nat
<1>1. /\ nextId \in Int /\ Founders + 1 < nextId /\ 2 < nextId
      /\ nextId + Cardinality(brood) <= MaxIds + 1
  BY Numbers DEF ColonyInv, ColonySaves, TypeOK, IdsLast
<1>2. DOMAIN ants \in SUBSET (2 .. MaxIds) /\ IsFiniteSet(DOMAIN ants)
  BY DEF ColonyInv, ColonySaves, TypeOK
<1>3. \A a \in DOMAIN ants : ants[a] \in AntRecord(WorkerPatience - 1)
  BY DEF ColonyInv, ColonySaves, TypeOK, AntRecord
<1>4. \A i \in DOMAIN ants \cup Corpses \cup {b.id : b \in brood} \cup InHand : i < nextId
  BY DEF ColonyInv, ColonySaves
<1>5. /\ DOMAIN ants \cap (Corpses \cup InHand) = {} /\ Corpses \cap InHand = {}
      /\ {b.id : b \in brood} \cap (DOMAIN ants \cup Corpses \cup InHand) = {}
      /\ Winged(ants, brood) <= MaxWinged
  BY DEF ColonyInv, ColonySaves
<1>6. Winged(ants, brood) = Cardinality(WingedAnts(ants)) + Cardinality(WingedBrood(brood))
  BY DEF Winged, WingedAnts, WingedBrood
<1>7. Cardinality(WingedAnts(ants)) \in Nat /\ Cardinality(DOMAIN ants) \in Nat
  BY <1>2, FS_Subset, FS_CardinalityType DEF WingedAnts
<1> QED BY <1>1, <1>2, <1>3, <1>4, <1>5, <1>6, <1>7

\* The ants and the hatched are the ants of the second; nobody changes kind or drops anything yet.
LEMMA GrownupsAre ==
  ASSUME ColonyInv, NEW fed
  PROVE  /\ DOMAIN Grownups(fed) = DOMAIN ants \cup Kids(fed) /\ DOMAIN ants \cap Kids(fed) = {}
         /\ IsFiniteSet(DOMAIN Grownups(fed))
         /\ Cardinality(DOMAIN Grownups(fed)) = Cardinality(DOMAIN ants) + Cardinality(Hatched(fed))
         /\ DOMAIN Grownups(fed) \in SUBSET (2 .. MaxIds)
         /\ \A a \in DOMAIN Grownups(fed) :
              /\ Grownups(fed)[a] \in AntRecord(WorkerPatience)
              /\ a < nextId + Cardinality(Hatched(fed))
         /\ \A a \in DOMAIN ants : /\ Grownups(fed)[a].kind = ants[a].kind
                                   /\ Grownups(fed)[a].corpse = ants[a].corpse
         /\ \A k \in Kids(fed) : Grownups(fed)[k].corpse = NoCorpse
         /\ Cardinality(WingedAnts(Grownups(fed)))
              = Cardinality(WingedAnts(ants)) + Cardinality(WingedBrood(Hatched(fed)))
<1> DEFINE G == Grownups(fed)
           K == Kids(fed)
           H == Hatched(fed)
<1>1. /\ nextId \in Int /\ 2 < nextId /\ nextId + Cardinality(brood) <= MaxIds + 1
      /\ IsFiniteSet(DOMAIN ants) /\ DOMAIN ants \in SUBSET (2 .. MaxIds)
      /\ \A a \in DOMAIN ants : ants[a] \in AntRecord(WorkerPatience - 1)
      /\ \A a \in DOMAIN ants : a < nextId
      /\ Cardinality(WingedAnts(ants)) \in Nat /\ Cardinality(DOMAIN ants) \in Nat
  BY AntFacts
<1>2. /\ IsFiniteSet(K) /\ Cardinality(K) = Cardinality(H) /\ K \in SUBSET Int
      /\ \A k \in K : /\ nextId <= k /\ k < nextId + Cardinality(H)
                      /\ Born(fed, k) \in H
      /\ Cardinality({k \in K : Born(fed, k).role = "winged"}) = Cardinality(WingedBrood(H))
  BY KidsAreNew DEF WingedBrood
<1>3. /\ Cardinality(H) \in Nat /\ Cardinality(H) <= Cardinality(brood) /\ H \in SUBSET GrownItem
      /\ IsFiniteSet(H) /\ Cardinality(brood) \in Nat
  <2>1. /\ Cardinality(H) \in Nat /\ Cardinality(Left(fed)) \in Nat
        /\ Cardinality(StarvedBrood(fed)) \in Nat
        /\ Cardinality(Left(fed)) + Cardinality(H) + Cardinality(StarvedBrood(fed))
             = Cardinality(brood)
        /\ H \in SUBSET GrownItem /\ IsFiniteSet(H)
    BY BroodParts
  <2> QED BY <2>1
<1>4. DOMAIN G = DOMAIN ants \cup K
  BY DEF Grownups
<1>5. \A k \in K : G[k] = Callow(Born(fed, k).role)
  BY DEF Grownups
<1>6. DOMAIN ants \cap K = {}
  BY <1>1, <1>2
<1>7. \A a \in DOMAIN ants :
        G[a] = [ants[a] EXCEPT !.starvation = IF a \in fed THEN 0 ELSE @ + 1]
  BY <1>6 DEF Grownups
<1> HIDE DEF G, K, H
<1>8. ASSUME NEW a \in DOMAIN ants
      PROVE  /\ G[a] \in AntRecord(WorkerPatience) /\ G[a].kind = ants[a].kind
             /\ G[a].corpse = ants[a].corpse
  <2>1. ants[a] \in AntRecord(WorkerPatience - 1)
    BY <1>1
  <2>2. G[a] = [ants[a] EXCEPT !.starvation = IF a \in fed THEN 0 ELSE @ + 1]
    BY <1>7
  <2> QED BY <2>1, <2>2, Numbers DEF AntRecord
<1>9. ASSUME NEW k \in K
      PROVE  /\ G[k] \in AntRecord(WorkerPatience) /\ G[k].corpse = NoCorpse
             /\ G[k].kind = Born(fed, k).role
  <2>1. Born(fed, k).role \in Roles
    BY <1>2, <1>3 DEF GrownItem
  <2>2. 0 \in 0 .. MaxIds /\ 0 \in 0 .. CorpseAge /\ 0 \in 0 .. WorkerPatience
    BY Numbers
  <2> DEFINE r == Born(fed, k).role
  <2>3. r \in Roles /\ G[k] = Callow(r)
    BY <1>5, <2>1
  <2> HIDE DEF r
  <2>4. Callow(r).kind = r /\ Callow(r).corpse = NoCorpse
    BY DEF Callow
  <2>5. Callow(r) \in AntRecord(WorkerPatience)
    BY <2>2, <2>3 DEF AntRecord, Callow, NoCorpse
  <2>6. G[k].kind = r /\ G[k].corpse = NoCorpse /\ G[k] \in AntRecord(WorkerPatience)
    BY <2>3, <2>4, <2>5
  <2> QED BY <2>6 DEF r
<1>10. IsFiniteSet(DOMAIN G) /\ Cardinality(DOMAIN G) = Cardinality(DOMAIN ants) + Cardinality(H)
  <2>1. Cardinality(DOMAIN ants \cap K) = 0
    BY <1>6, FS_EmptySet
  <2>2. /\ IsFiniteSet(DOMAIN ants \cup K)
        /\ Cardinality(DOMAIN ants \cup K)
             = Cardinality(DOMAIN ants) + Cardinality(K) - Cardinality(DOMAIN ants \cap K)
    BY <1>1, <1>2, FS_Union
  <2> QED BY <1>1, <1>2, <1>3, <1>4, <2>1, <2>2
<1>11. /\ DOMAIN G \in SUBSET (2 .. MaxIds)
       /\ \A a \in DOMAIN G : a < nextId + Cardinality(H)
  <2>1. nextId + Cardinality(H) <= MaxIds + 1 /\ MaxIds \in Int
    BY <1>1, <1>3, Numbers
  <2>2. \A a \in DOMAIN ants : a \in 2 .. MaxIds /\ a < nextId + Cardinality(H)
    BY <1>1, <1>3
  <2>3. \A a \in K : a \in 2 .. MaxIds /\ a < nextId + Cardinality(H)
    BY <1>1, <1>2, <1>3, <2>1
  <2> QED BY <1>4, <2>2, <2>3
<1>12. Cardinality(WingedAnts(G)) = Cardinality(WingedAnts(ants)) + Cardinality(WingedBrood(H))
  <2> DEFINE V == {k \in K : Born(fed, k).role = "winged"}
             W == WingedAnts(ants)
  <2>1. WingedAnts(G) = W \cup V
    BY <1>4, <1>8, <1>9 DEF WingedAnts
  <2>2. IsFiniteSet(W) /\ IsFiniteSet(V) /\ W \cap V = {}
    BY <1>1, <1>2, <1>6, FS_Subset DEF WingedAnts
  <2>3. Cardinality(V) = Cardinality(WingedBrood(H)) /\ Cardinality(V) \in Nat
    BY <1>2, <2>2, FS_CardinalityType
  <2> HIDE DEF V, W
  <2>4. Cardinality(W \cup V) = Cardinality(W) + Cardinality(V) - Cardinality(W \cap V)
    BY <2>2, FS_Union
  <2>5. Cardinality(W \cap V) = 0 /\ Cardinality(W) \in Nat
    BY <2>2, FS_EmptySet, FS_CardinalityType
  <2>6. Cardinality(W \cup V) = Cardinality(W) + Cardinality(V)
    BY <2>3, <2>4, <2>5
  <2> QED BY <2>1, <2>3, <2>6 DEF W
<1> QED BY <1>4, <1>6, <1>8, <1>9, <1>10, <1>11, <1>12 DEF G, K, H

-----------------------------------------------------------------------------
(* Laying *)

\* What the invariant says of carriers.
LEMMA CarrierFacts ==
  ASSUME ColonyInv
  PROVE  /\ \A b \in brood : b.carrier # 0 => b.carrier \in Workers /\ ~b.cradled
         /\ \A b, c \in brood : b.carrier = c.carrier /\ b.carrier # 0 => b = c
BY DEF ColonyInv, CarriersLive

\* The items of a second: those left, and the egg.
LEMMA ItemsAre ==
  ASSUME ColonyInv, NEW fed
  PROVE  LET I == Items(fed)
             top == nextId + Cardinality(Hatched(fed)) + (IF Lays(fed) THEN 1 ELSE 0)
         IN  /\ I \in SUBSET Item /\ IsFiniteSet(I) /\ Distinct(I)
             /\ Cardinality(I) = Cardinality(Left(fed)) + (IF Lays(fed) THEN 1 ELSE 0)
             /\ Cardinality(I) <= NurseryCapacity /\ top + Cardinality(I) <= MaxIds + 1
             /\ \A b \in I : b.progress < Target(b) /\ b.id < top
             /\ \A b \in I : b \in Left(fed) \/ b = Laid(fed)
             /\ \A b \in I : b.id \in {c.id : c \in brood} \/ b.id = nextId + Cardinality(Hatched(fed))
             /\ \A b \in I : b.carrier # 0 => b.carrier \in Workers /\ ~b.cradled
             /\ \A b, c \in I : b.carrier = c.carrier /\ b.carrier # 0 => b = c
             /\ Cardinality(WingedAnts(Grownups(fed))) + Cardinality(WingedBrood(I)) <= MaxWinged
<1> DEFINE L == Left(fed)
           H == Hatched(fed)
           e == Laid(fed)
           hatch == nextId + Cardinality(H)
           I == Items(fed)
           G == Grownups(fed)
<1>1. /\ L \in SUBSET Item /\ Distinct(L) /\ \A g \in L : g.progress < Target(g)
      /\ \A g \in L : \E b \in brood :
           b.id = g.id /\ b.role = g.role /\ b.carrier = g.carrier /\ b.cradled = g.cradled
      /\ IsFiniteSet(L) /\ IsFiniteSet(H) /\ Cardinality(L) \in Nat /\ Cardinality(H) \in Nat
      /\ Cardinality(StarvedBrood(fed)) \in Nat
      /\ Cardinality(L) + Cardinality(H) + Cardinality(StarvedBrood(fed)) = Cardinality(brood)
      /\ Cardinality(WingedBrood(L)) + Cardinality(WingedBrood(H)) <= Cardinality(WingedBrood(brood))
  BY BroodParts DEF WingedBrood
<1>2. /\ nextId \in Int /\ 2 < nextId /\ nextId + Cardinality(brood) <= MaxIds + 1
      /\ \A b \in brood : b.id < nextId
      /\ Cardinality(WingedAnts(ants)) + Cardinality(WingedBrood(brood)) <= MaxWinged
      /\ Cardinality(WingedAnts(ants)) \in Nat
  BY AntFacts
<1>3. Cardinality(WingedAnts(G)) = Cardinality(WingedAnts(ants)) + Cardinality(WingedBrood(H))
  BY GrownupsAre
<1>4. Cardinality(brood) \in Nat /\ Cardinality(brood) <= NurseryCapacity /\ IsFiniteSet(brood)
  BY BroodFacts
<1>5. /\ Cardinality(WingedBrood(L)) \in Nat /\ Cardinality(WingedBrood(H)) \in Nat
      /\ Cardinality(WingedBrood(brood)) \in Nat /\ IsFiniteSet(WingedBrood(L))
  BY <1>1, <1>4, FS_Subset, FS_CardinalityType DEF WingedBrood
<1>6. /\ I = (IF Lays(fed) THEN L \cup {e} ELSE L)
      /\ e = Egg(hatch, RoleOf(G, L, Nth))
      /\ Lays(fed) => Cardinality(L) < NurseryCapacity
                        /\ hatch + Cardinality(L) + 1 <= MaxIds
  BY DEF Items, Laid, Lays
<1>7. RoleOf(G, L, Nth) = "winged"
        => Cardinality(WingedAnts(G)) + Cardinality(WingedBrood(L)) < MaxWinged
  BY DEF RoleOf, Winged, WingedAnts, WingedBrood
<1>8. RoleOf(G, L, Nth) \in Roles
  BY DEF RoleOf, Roles
<1>9. /\ e.id = hatch /\ e.stage = "egg" /\ e.progress = 0 /\ e.role = RoleOf(G, L, Nth)
      /\ e.carrier = 0 /\ 0 < Target(e)
  BY <1>6, Numbers DEF Egg, Target
<1>10. Lays(fed) => e \in Item
  <2>1. Lays(fed) => hatch \in 1 .. MaxIds
    <3>1. hatch \in Int /\ hatch >= 1 /\ Cardinality(L) \in Nat /\ MaxIds \in Int
      BY <1>1, <1>2, Numbers
    <3> HIDE DEF hatch, L
    <3> QED BY <1>6, <3>1
  <2>2. /\ 0 \in 0 .. 2 * StageTime /\ 0 \in 0 .. CareSpan /\ 0 \in 0 .. LarvaPatience - 1
        /\ 0 \in 0 .. MaxIds
    BY Numbers
  <2> QED BY <1>6, <1>8, <2>1, <2>2 DEF Egg, Item, Stages
<1> HIDE DEF L, H, e, I, G
<1>11. \A b \in L : b.id < nextId /\ b.id \in {c.id : c \in brood}
  BY <1>1, <1>2
<1>12. e \notin L /\ \A b \in L : b.id # e.id
  BY <1>1, <1>2, <1>9, <1>11
<1>13. I \in SUBSET Item /\ \A b \in I : b \in L \/ b = e
  BY <1>1, <1>6, <1>10
<1>14. IsFiniteSet(I) /\ Cardinality(I) = Cardinality(L) + (IF Lays(fed) THEN 1 ELSE 0)
  <2>1. IsFiniteSet(L \cup {e}) /\ Cardinality(L \cup {e}) = Cardinality(L) + 1
    BY <1>1, <1>12, FS_AddElement
  <2> QED BY <1>1, <1>6, <2>1
<1>15. Distinct(I)
  BY <1>1, <1>12, <1>13 DEF Distinct
<1>16. /\ Cardinality(I) <= NurseryCapacity
       /\ hatch + (IF Lays(fed) THEN 1 ELSE 0) + Cardinality(I) <= MaxIds + 1
  BY <1>1, <1>2, <1>4, <1>6, <1>14, Numbers
<1>17. \A b \in I : /\ b.progress < Target(b)
                    /\ b.id < hatch + (IF Lays(fed) THEN 1 ELSE 0)
                    /\ b.id \in {c.id : c \in brood} \/ b.id = hatch
  <2> SUFFICES ASSUME NEW b \in I
               PROVE  /\ b.progress < Target(b)
                      /\ b.id < hatch + (IF Lays(fed) THEN 1 ELSE 0)
                      /\ b.id \in {c.id : c \in brood} \/ b.id = hatch
    OBVIOUS
  <2>1. CASE b \in L
    <3>1. b.progress < Target(b) /\ b.id < nextId /\ b.id \in {c.id : c \in brood}
      BY <1>1, <1>11, <2>1
    <3>2. b.id \in Int
      BY <1>1, <2>1 DEF Item
    <3> QED BY <1>1, <1>2, <3>1, <3>2
  <2>2. CASE b \notin L
    <3>1. b = e /\ Lays(fed)
      BY <1>6, <2>2
    <3> QED BY <1>1, <1>2, <1>9, <3>1
  <2> QED BY <2>1, <2>2
<1>18. /\ \A b \in I : b.carrier # 0 => b.carrier \in Workers /\ ~b.cradled
       /\ \A b, c \in I : b.carrier = c.carrier /\ b.carrier # 0 => b = c
  <2>1. \A b \in I : b.carrier # 0 => b \in L
    BY <1>9, <1>13
  <2>2. \A b \in L : \E c \in brood : c.id = b.id /\ c.carrier = b.carrier /\ c.cradled = b.cradled
    BY <1>1
  <2>3. \A b \in L : b.carrier # 0 => b.carrier \in Workers /\ ~b.cradled
    BY <2>2, CarrierFacts
  <2>4. ASSUME NEW b \in L, NEW c \in L, b.carrier = c.carrier, b.carrier # 0 PROVE b = c
    <3>1. PICK x \in brood : x.id = b.id /\ x.carrier = b.carrier
      BY <2>2
    <3>2. PICK y \in brood : y.id = c.id /\ y.carrier = c.carrier
      BY <2>2
    <3>3. x = y
      BY <2>4, <3>1, <3>2, CarrierFacts
    <3> QED BY <1>1, <3>1, <3>2, <3>3 DEF Distinct
  <2> QED BY <2>1, <2>3, <2>4
<1>19. Cardinality(WingedAnts(G)) + Cardinality(WingedBrood(I)) <= MaxWinged
  <2>1. CASE Lays(fed) /\ e.role = "winged"
    <3>1. WingedBrood(I) = WingedBrood(L) \cup {e}
      BY <1>6, <2>1 DEF WingedBrood
    <3>2. e \notin WingedBrood(L)
      BY <1>12 DEF WingedBrood
    <3>3. Cardinality(WingedBrood(I)) = Cardinality(WingedBrood(L)) + 1
      BY <1>5, <3>1, <3>2, FS_AddElement
    <3> QED BY <1>2, <1>3, <1>5, <1>7, <1>9, <2>1, <3>3, Numbers
  <2>2. CASE ~(Lays(fed) /\ e.role = "winged")
    <3>1. WingedBrood(I) = WingedBrood(L)
      BY <1>6, <2>2 DEF WingedBrood
    <3> QED BY <1>1, <1>2, <1>3, <1>5, <3>1, Numbers
  <2> QED BY <2>1, <2>2
<1> QED BY <1>13, <1>14, <1>15, <1>16, <1>17, <1>18, <1>19 DEF I, L, H, e, G

\* Laying down what the dead carried changes nothing else.
LEMMA LaidDownKeeps ==
  ASSUME NEW I \in SUBSET Item, IsFiniteSet(I), Distinct(I), NEW dead
  PROVE  LET J == LaidDown(I, dead)
         IN  /\ J \in SUBSET Item /\ IsFiniteSet(J) /\ Distinct(J) /\ Cardinality(J) = Cardinality(I)
             /\ Cardinality(WingedBrood(J)) = Cardinality(WingedBrood(I))
             /\ \A c \in J : \E b \in I :
                  /\ c.id = b.id /\ c.stage = b.stage /\ c.progress = b.progress
                  /\ c.starvation = b.starvation /\ c.role = b.role /\ c.cradled = b.cradled
                  /\ c.carrier = IF b.carrier \in dead THEN 0 ELSE b.carrier
<1> DEFINE f == [b \in I |-> IF b.carrier \in dead THEN [b EXCEPT !.carrier = 0, !.near = FALSE]
                             ELSE b]
           J == LaidDown(I, dead)
<1>1. ASSUME NEW b \in I
      PROVE  /\ f[b] \in Item /\ f[b].id = b.id /\ f[b].stage = b.stage
             /\ f[b].progress = b.progress /\ f[b].starvation = b.starvation
             /\ f[b].role = b.role /\ f[b].cradled = b.cradled
             /\ f[b].carrier = IF b.carrier \in dead THEN 0 ELSE b.carrier
  <2>1. b \in Item
    OBVIOUS
  <2>2. f[b] = IF b.carrier \in dead THEN [b EXCEPT !.carrier = 0, !.near = FALSE] ELSE b
    OBVIOUS
  <2> HIDE DEF f
  <2> DEFINE x == [b EXCEPT !.carrier = 0]
             y == [b EXCEPT !.carrier = 0, !.near = FALSE]
  <2>3. x \in Item
    BY <2>1, Numbers DEF Item
  <2>4. y = [x EXCEPT !.near = FALSE]
    OBVIOUS
  <2>5. y \in Item
    <3> HIDE DEF x, y
    <3> QED BY <2>3, <2>4 DEF Item
  <2>6. /\ y.id = b.id /\ y.stage = b.stage /\ y.progress = b.progress
        /\ y.starvation = b.starvation /\ y.role = b.role /\ y.carrier = 0
    BY <2>1 DEF Item
  <2>7. y.cradled = b.cradled
    BY <2>1 DEF Item
  <2>8. f[b] = IF b.carrier \in dead THEN y ELSE b
    BY <2>2
  <2> HIDE DEF y
  <2> QED BY <2>1, <2>5, <2>6, <2>7, <2>8
<1>2. f \in [I -> J] /\ \A c \in J : \E b \in I : f[b] = c
  BY DEF LaidDown
<1> HIDE DEF f, J
<1>3. \A b, c \in I : f[b] = f[c] => b = c
  BY <1>1 DEF Distinct
<1>4. IsFiniteSet(J) /\ Cardinality(J) = Cardinality(I)
  BY <1>2, <1>3, SameSize
<1>5. J \in SUBSET Item
  BY <1>1, <1>2
<1>6. Distinct(J)
  <2> SUFFICES ASSUME NEW c \in J, NEW d \in J, c.id = d.id PROVE c = d
    BY DEF Distinct
  <2>1. PICK a \in I : f[a] = c
    BY <1>2
  <2>2. PICK b \in I : f[b] = d
    BY <1>2
  <2> QED BY <1>1, <2>1, <2>2 DEF Distinct
<1>7. Cardinality(WingedBrood(J)) = Cardinality(WingedBrood(I))
  <2> DEFINE W == WingedBrood(I)
             V == WingedBrood(J)
             h == [b \in W |-> f[b]]
  <2>1. IsFiniteSet(W)
    BY FS_Subset DEF WingedBrood
  <2>2. h \in [W -> V]
    BY <1>1, <1>2 DEF WingedBrood
  <2>3. \A c \in V : \E b \in W : h[b] = c
    BY <1>1, <1>2 DEF WingedBrood
  <2>4. \A b, c \in W : h[b] = h[c] => b = c
    BY <1>3 DEF WingedBrood
  <2> HIDE DEF W, V, h
  <2>5. Cardinality(V) = Cardinality(W)
    BY <2>1, <2>2, <2>3, <2>4, SameSize
  <2> QED BY <2>5 DEF W, V
<1>8. \A c \in J : \E b \in I :
        /\ c.id = b.id /\ c.stage = b.stage /\ c.progress = b.progress
        /\ c.starvation = b.starvation /\ c.role = b.role /\ c.cradled = b.cradled
        /\ c.carrier = IF b.carrier \in dead THEN 0 ELSE b.carrier
  <2> SUFFICES ASSUME NEW c \in J
               PROVE  \E b \in I :
                        /\ c.id = b.id /\ c.stage = b.stage /\ c.progress = b.progress
                        /\ c.starvation = b.starvation /\ c.role = b.role
                        /\ c.cradled = b.cradled
                        /\ c.carrier = IF b.carrier \in dead THEN 0 ELSE b.carrier
    OBVIOUS
  <2>1. PICK b \in I : f[b] = c
    BY <1>2
  <2> WITNESS b \in I
  <2> QED BY <1>1, <2>1
<1> QED BY <1>4, <1>5, <1>6, <1>7, <1>8 DEF J

-----------------------------------------------------------------------------
(* A second keeps the invariant *)

\* Who is left when a second has passed, and what lies about.
LEMMA AntsAfter ==
  ASSUME ColonyInv, NEW fed, NEW old, Passes(fed, old)
  PROVE  /\ DOMAIN ants' = DOMAIN Grownups(fed) \ Dead(fed, old)
         /\ IsFiniteSet(DOMAIN ants') /\ ants' = [a \in DOMAIN ants' |-> ants'[a]]
         /\ Dead(fed, old) \in SUBSET DOMAIN Grownups(fed)
         /\ \A a \in DOMAIN ants' : /\ ants'[a] = Grownups(fed)[a]
                                    /\ ants'[a] \in AntRecord(WorkerPatience - 1)
                                    /\ a \in 2 .. MaxIds /\ a < nextId'
         /\ Cardinality(WingedAnts(ants')) <= Cardinality(WingedAnts(Grownups(fed)))
         /\ Cardinality(WingedAnts(ants')) \in Nat
         /\ Cardinality(Dead(fed, old)) \in Nat
         /\ Cardinality(DOMAIN ants') + Cardinality(Dead(fed, old))
              = Cardinality(DOMAIN ants) + Cardinality(Hatched(fed))
<1> DEFINE G == Grownups(fed)
           D == Dead(fed, old)
<1>1. /\ ants' = [a \in DOMAIN G \ D |-> G[a]]
      /\ nextId' = nextId + Cardinality(Hatched(fed)) + (IF Lays(fed) THEN 1 ELSE 0)
  BY DEF Passes
<1>2. /\ IsFiniteSet(DOMAIN G) /\ DOMAIN G \in SUBSET (2 .. MaxIds)
      /\ Cardinality(DOMAIN G) = Cardinality(DOMAIN ants) + Cardinality(Hatched(fed))
      /\ \A a \in DOMAIN G : /\ G[a] \in AntRecord(WorkerPatience)
                             /\ a < nextId + Cardinality(Hatched(fed))
  BY GrownupsAre
<1>3. D = {a \in DOMAIN G : a \in old \/ G[a].starvation >= WorkerPatience}
  BY DEF Dead
<1>4. nextId \in Int /\ Cardinality(Hatched(fed)) \in Nat
  BY AntFacts, BroodParts
<1> HIDE DEF G, D
<1>5. /\ DOMAIN ants' = DOMAIN G \ D /\ ants' = [a \in DOMAIN ants' |-> ants'[a]]
      /\ \A a \in DOMAIN ants' : ants'[a] = G[a]
  BY <1>1
<1>6. D \in SUBSET DOMAIN G /\ IsFiniteSet(D) /\ IsFiniteSet(DOMAIN ants')
  BY <1>2, <1>3, <1>5, FS_Subset
<1>7. ASSUME NEW a \in DOMAIN ants'
      PROVE  ants'[a] \in AntRecord(WorkerPatience - 1) /\ a \in 2 .. MaxIds /\ a < nextId'
  <2>1. a \in DOMAIN G /\ G[a] \in AntRecord(WorkerPatience) /\ ~(G[a].starvation >= WorkerPatience)
    BY <1>2, <1>3, <1>5
  <2>2. G[a] \in AntRecord(WorkerPatience - 1)
    BY <2>1, Numbers DEF AntRecord
  <2>3. a \in 2 .. MaxIds /\ a < nextId + Cardinality(Hatched(fed))
    BY <1>2, <2>1
  <2> QED BY <1>1, <1>4, <1>5, <2>2, <2>3, Numbers
<1>8. /\ Cardinality(WingedAnts(ants')) <= Cardinality(WingedAnts(G))
      /\ Cardinality(WingedAnts(ants')) \in Nat
  <2>1. WingedAnts(ants') \in SUBSET WingedAnts(G) /\ WingedAnts(G) \in SUBSET DOMAIN G
    BY <1>5 DEF WingedAnts
  <2>2. IsFiniteSet(WingedAnts(G))
    BY <1>2, <2>1, FS_Subset
  <2> QED BY <2>1, <2>2, FS_Subset, FS_CardinalityType
<1>9. Cardinality(DOMAIN ants') + Cardinality(D) = Cardinality(DOMAIN G)
  <2>1. Cardinality(DOMAIN ants') = Cardinality(DOMAIN G) - Cardinality(DOMAIN G \cap D)
    BY <1>2, <1>5, FS_Difference
  <2>2. DOMAIN G \cap D = D
    BY <1>6
  <2>3. Cardinality(DOMAIN G) \in Nat /\ Cardinality(D) \in Nat
    BY <1>2, <1>6, FS_CardinalityType
  <2>4. Cardinality(DOMAIN ants') = Cardinality(DOMAIN G) - Cardinality(D)
    BY <2>1, <2>2
  <2> QED BY <2>3, <2>4
<1>10. Cardinality(D) \in Nat
  BY <1>6, FS_CardinalityType
<1> QED BY <1>2, <1>5, <1>6, <1>7, <1>8, <1>9, <1>10 DEF G, D

\* The ids the dead leave lying: their own and those of the corpses they carried.
Dropped(fed, old) == {Grownups(fed)[a].corpse.id : a \in Dead(fed, old)} \ {0}

\* What lies about after a second is the dead of before, of now, and what they dropped.
LEMMA CorpsesAfter ==
  ASSUME ColonyInv, NEW fed, NEW old, Passes(fed, old)
  PROVE  /\ \A c \in DOMAIN corpses' : corpses'[c] \in 0 .. CorpseAge - 1
         /\ DOMAIN corpses' \in SUBSET (DOMAIN corpses \cup Dropped(fed, old) \cup Dead(fed, old)
                                          \cup (IF QueenDies(fed) THEN {Queen} ELSE {}))
<1> DEFINE D == Dropped(fed, old)
           all == DOMAIN corpses \cup D \cup Dead(fed, old)
                    \cup (IF QueenDies(fed) THEN {Queen} ELSE {})
           was(c) == IF c \in DOMAIN corpses THEN corpses[c] ELSE IF c \in D THEN CleanAge ELSE 0
<1>1. corpses' = [c \in {d \in all : was(d) + 1 < CorpseAge} |-> was(c) + 1]
  BY DEF Passes, Decomposed, Dropped
<1>2. \A c \in DOMAIN corpses : corpses[c] \in 0 .. CorpseAge - 1
  BY DEF ColonyInv, ColonySaves, TypeOK
<1>3. \A c \in all : was(c) \in Nat
  BY <1>2, Numbers
<1> HIDE DEF all, was
<1>4. /\ DOMAIN corpses' = {d \in all : was(d) + 1 < CorpseAge}
      /\ \A c \in DOMAIN corpses' : corpses'[c] = was(c) + 1
  BY <1>1
<1>5. \A c \in DOMAIN corpses' : corpses'[c] \in 0 .. CorpseAge - 1
  BY <1>3, <1>4, Numbers
<1> QED BY <1>4, <1>5 DEF all

\* The brood when a second has passed.
LEMMA BroodAfter ==
  ASSUME ColonyInv, NEW fed, NEW old, Passes(fed, old)
  PROVE  /\ brood' \in SUBSET Item /\ IsFiniteSet(brood') /\ Distinct(brood')
         /\ Cardinality(brood') = Cardinality(Left(fed)) + (IF Lays(fed) THEN 1 ELSE 0)
         /\ Cardinality(brood') <= NurseryCapacity /\ nextId' + Cardinality(brood') <= MaxIds + 1
         /\ \A c \in brood' : /\ c.progress < Target(c) /\ c.id < nextId' /\ c.id # Queen
                              /\ \/ c.id \in {b.id : b \in brood}
                                 \/ c.id = nextId + Cardinality(Hatched(fed))
         /\ \A c \in brood' : c.carrier # 0 =>
              c.carrier \in Workers \ Dead(fed, old) /\ ~c.cradled
         /\ \A b, c \in brood' : b.carrier = c.carrier /\ b.carrier # 0 => b = c
         /\ Cardinality(WingedAnts(Grownups(fed))) + Cardinality(WingedBrood(brood')) <= MaxWinged
         /\ Cardinality(WingedBrood(brood')) \in Nat
<1> DEFINE I == Items(fed)
           D == Dead(fed, old)
           hatch == nextId + Cardinality(Hatched(fed))
<1>1. brood' = LaidDown(I, D) /\ nextId' = hatch + (IF Lays(fed) THEN 1 ELSE 0)
  BY DEF Passes
<1>2. /\ I \in SUBSET Item /\ IsFiniteSet(I) /\ Distinct(I)
      /\ Cardinality(I) = Cardinality(Left(fed)) + (IF Lays(fed) THEN 1 ELSE 0)
      /\ Cardinality(I) <= NurseryCapacity /\ nextId' + Cardinality(I) <= MaxIds + 1
      /\ \A b \in I : b.progress < Target(b) /\ b.id < nextId'
      /\ \A b \in I : b.id \in {c.id : c \in brood} \/ b.id = hatch
      /\ \A b \in I : b.carrier # 0 => b.carrier \in Workers /\ ~b.cradled
      /\ \A b, c \in I : b.carrier = c.carrier /\ b.carrier # 0 => b = c
      /\ Cardinality(WingedAnts(Grownups(fed))) + Cardinality(WingedBrood(I)) <= MaxWinged
  BY <1>1, ItemsAre
<1>3. nextId \in Int /\ 2 < nextId /\ Cardinality(Hatched(fed)) \in Nat
  BY AntFacts, BroodParts
<1>4. \A b \in brood : b.id # Queen
  BY DEF ColonyInv
<1> HIDE DEF I, D, hatch
<1>5. /\ brood' \in SUBSET Item /\ IsFiniteSet(brood') /\ Distinct(brood')
      /\ Cardinality(brood') = Cardinality(I)
      /\ Cardinality(WingedBrood(brood')) = Cardinality(WingedBrood(I))
      /\ \A c \in brood' : \E b \in I :
           /\ c.id = b.id /\ c.progress = b.progress /\ c.role = b.role
           /\ c.cradled = b.cradled /\ c.carrier = IF b.carrier \in D THEN 0 ELSE b.carrier
  BY <1>1, <1>2, LaidDownKeeps
<1>6. ASSUME NEW c \in brood'
      PROVE  /\ c.progress < Target(c) /\ c.id < nextId' /\ c.id # Queen
             /\ c.id \in {b.id : b \in brood} \/ c.id = hatch
             /\ c.carrier # 0 => c.carrier \in Workers \ D /\ ~c.cradled
  <2>1. PICK b \in I : /\ c.id = b.id /\ c.progress = b.progress /\ c.role = b.role
                       /\ c.cradled = b.cradled
                       /\ c.carrier = IF b.carrier \in D THEN 0 ELSE b.carrier
    BY <1>5
  <2>2. Target(c) = Target(b)
    BY <2>1 DEF Target
  <2>3. c.carrier # 0 => c.carrier \in Workers \ D /\ ~c.cradled
    BY <1>2, <2>1
  <2>4. c.id \in {x.id : x \in brood} \/ c.id = hatch
    BY <1>2, <2>1
  <2>5. c.id # Queen
    BY <1>3, <1>4, <2>4 DEF Queen, hatch
  <2> QED BY <1>2, <2>1, <2>2, <2>3, <2>4, <2>5
<1>7. ASSUME NEW b \in brood', NEW c \in brood', b.carrier = c.carrier, b.carrier # 0 PROVE b = c
  <2>1. PICK x \in I : b.id = x.id /\ b.carrier = IF x.carrier \in D THEN 0 ELSE x.carrier
    BY <1>5
  <2>2. PICK y \in I : c.id = y.id /\ c.carrier = IF y.carrier \in D THEN 0 ELSE y.carrier
    BY <1>5
  <2>3. x = y
    BY <1>2, <1>7, <2>1, <2>2
  <2> QED BY <1>5, <2>1, <2>2, <2>3 DEF Distinct
<1>8. Cardinality(WingedBrood(brood')) \in Nat
  BY <1>5, FS_Subset, FS_CardinalityType DEF WingedBrood
<1> QED BY <1>2, <1>5, <1>6, <1>7, <1>8 DEF I, D, hatch

\* Types after a second.
LEMMA SecondTypes ==
  ASSUME ColonyInv, NEW fed, NEW old, Passes(fed, old)
  PROVE  TypeOK' /\ stats' \in Counts /\ (queen.alive => queen.starvation < QueenPatience)'
<1>1. /\ queen \in [alive : BOOLEAN, starvation : 0 .. QueenPatience]
      /\ queen.alive => queen.starvation < QueenPatience
      /\ nextId \in 1 .. MaxIds + 1 /\ layIn \in 0 .. LayEvery /\ age \in 0 .. MatureAge
      /\ mature \in BOOLEAN /\ counter \in 0 .. EggEvery - 1 /\ stats \in Counts
      /\ \A c \in DOMAIN corpses : c \in 1 .. MaxIds
  BY DEF ColonyInv, ColonySaves, TypeOK
<1>2. /\ Cardinality(Hatched(fed)) \in Nat /\ Cardinality(StarvedBrood(fed)) \in Nat
      /\ Cardinality(Dead(fed, old)) \in Nat /\ IsFiniteSet(Hatched(fed))
      /\ Cardinality(Left(fed)) \in Nat
  BY BroodParts, AntsAfter
<1>3. /\ queen' \in [alive : BOOLEAN, starvation : 0 .. QueenPatience]
      /\ queen'.alive => queen'.starvation < QueenPatience
  <2>1. queen' = [alive |-> queen.alive /\ ~QueenDies(fed),
                  starvation |-> IF ~queen.alive \/ QueenFed(fed) THEN 0 ELSE queen.starvation + 1]
    BY DEF Passes
  <2>2. QueenDies(fed) <=>
          queen.alive /\ ~QueenFed(fed) /\ queen.starvation + 1 >= QueenPatience
    BY DEF QueenDies
  <2>3. queen.alive \in BOOLEAN /\ queen.starvation \in 0 .. QueenPatience
    BY <1>1
  <2>4. QueenFed(fed) => queen.alive
    BY DEF QueenFed
  <2> DEFINE lives == queen.alive /\ ~QueenDies(fed)
             hunger == IF ~queen.alive \/ QueenFed(fed) THEN 0 ELSE queen.starvation + 1
  <2>5. lives \in BOOLEAN /\ hunger \in 0 .. QueenPatience /\ (lives => hunger < QueenPatience)
    BY <1>1, <2>2, <2>3, <2>4, Numbers
  <2>6. queen' = [alive |-> lives, starvation |-> hunger]
    BY <2>1
  <2> HIDE DEF lives, hunger
  <2> QED BY <2>5, <2>6
<1>4. \A a \in DOMAIN ants' :
        /\ a \in 2 .. MaxIds
        /\ ants'[a] \in [kind : Roles, starvation : 0 .. WorkerPatience - 1,
                         corpse : [id : 0 .. MaxIds, age : 0 .. CorpseAge]]
  BY AntsAfter DEF AntRecord
<1>5. brood' \in SUBSET Item /\ Cardinality(brood') <= NurseryCapacity /\ Cardinality(brood') \in Nat
      /\ nextId' + Cardinality(brood') <= MaxIds + 1
  BY BroodAfter, FS_CardinalityType
<1>6. \A c \in DOMAIN corpses' : c \in 1 .. MaxIds /\ corpses'[c] \in 0 .. CorpseAge - 1
  <2>1. DOMAIN Grownups(fed) \in SUBSET (2 .. MaxIds)
    BY GrownupsAre
  <2>2. Dead(fed, old) \in SUBSET (1 .. MaxIds)
    BY <2>1, Numbers DEF Dead
  <2>3. \A a \in DOMAIN Grownups(fed) : Grownups(fed)[a].corpse.id \in 0 .. MaxIds
    BY GrownupsAre DEF AntRecord
  <2>4. Dropped(fed, old) \in SUBSET (1 .. MaxIds)
    BY <2>3, Numbers DEF Dropped, Dead
  <2>5. Queen \in 1 .. MaxIds
    BY Numbers DEF Queen
  <2> QED BY <1>1, <2>2, <2>4, <2>5, CorpsesAfter
<1>7. nextId' \in 1 .. MaxIds + 1
  <2>1. nextId' = nextId + Cardinality(Hatched(fed)) + (IF Lays(fed) THEN 1 ELSE 0)
    BY DEF Passes
  <2> QED BY <1>1, <1>2, <1>5, <2>1, Numbers
<1>8. layIn' \in 0 .. LayEvery
  <2>1. layIn' = IF Due(fed) THEN LayEvery ELSE Max({0, layIn - 1})
    BY DEF Passes
  <2>2. layIn - 1 \in Int /\ layIn - 1 <= LayEvery /\ LayEvery \in Nat
    BY <1>1, Numbers
  <2>3. Max({0, layIn - 1}) = IF 0 > layIn - 1 THEN 0 ELSE layIn - 1
    BY <2>2, Extremes
  <2>4. Max({0, layIn - 1}) \in 0 .. LayEvery
    BY <2>2, <2>3
  <2>5. LayEvery \in 0 .. LayEvery
    BY <2>2
  <2> QED BY <2>1, <2>4, <2>5
<1>9. age' \in 0 .. MatureAge
  <2>1. age' = Min({MatureAge, age + 1})
    BY DEF Passes
  <2>2. age + 1 \in Nat /\ MatureAge \in Nat
    BY <1>1, Numbers
  <2>3. Min({MatureAge, age + 1}) = IF MatureAge < age + 1 THEN MatureAge ELSE age + 1
    <3>1. MatureAge \in Int /\ age + 1 \in Int
      BY <2>2
    <3> DEFINE n == age + 1
    <3>2. n \in Int
      BY <3>1
    <3> HIDE DEF n
    <3>3. Min({MatureAge, n}) = IF MatureAge < n THEN MatureAge ELSE n
      BY <3>1, <3>2, Extremes
    <3> QED BY <3>3 DEF n
  <2> QED BY <2>1, <2>2, <2>3
<1>10. mature' \in BOOLEAN /\ extinct' \in BOOLEAN
  <2>1. \A w, n : Matures(w, n) \in BOOLEAN
    BY <1>1 DEF Matures
  <2>2. extinct' = (~queen'.alive /\ ants' = <<>> /\ brood' = {})
    BY DEF Passes
  <2> QED BY <2>1, <2>2 DEF Passes
<1>11. counter' \in 0 .. EggEvery - 1
  <2>1. Nth \in 0 .. EggEvery - 1
    BY <1>1, Numbers DEF Nth
  <2> QED BY <1>1, <2>1 DEF Passes
<1>12. stats' \in Counts
  <2> DEFINE w == Cardinality({b \in Hatched(fed) : b.role = "worker"})
             q == Cardinality({b \in Hatched(fed) : b.role = "winged"})
             d == Cardinality(StarvedBrood(fed)) + Cardinality(Dead(fed, old))
                    + QueenDeath(QueenDies(fed))
             l == IF Lays(fed) THEN 1 ELSE 0
  <2>1. w \in Nat /\ q \in Nat /\ d \in Nat /\ l \in Nat
    BY <1>2, FS_Subset, FS_CardinalityType DEF QueenDeath
  <2>2. stats' = [eggs |-> stats.eggs + l, workers |-> stats.workers + w,
                  winged |-> stats.winged + q, deaths |-> stats'.deaths]
        /\ stats'.deaths = stats.deaths + Cardinality(StarvedBrood(fed))
                             + Cardinality(Dead(fed, old)) + QueenDeath(QueenDies(fed))
    BY DEF Passes
  <2>3. stats'.deaths \in Nat
    BY <1>1, <1>2, <2>2 DEF Counts, QueenDeath
  <2> HIDE DEF w, q, d, l
  <2> QED BY <1>1, <2>1, <2>2, <2>3 DEF Counts
<1> QED BY <1>3, <1>4, <1>5, <1>6, <1>7, <1>8, <1>9, <1>10, <1>11, <1>12 DEF TypeOK, Item

\* The corpses in the grip of a set of ants.
Gripped(colony) == {colony[a].corpse.id : a \in DOMAIN colony} \ {0}

\* Whatever a second moves, nothing is in two places.
LEMMA SecondDisjoint ==
  ASSUME ColonyInv, NEW fed, NEW old, Passes(fed, old)
  PROVE  /\ {b.id : b \in brood'} \cap (DOMAIN ants' \cup DOMAIN corpses' \cup Gripped(ants')) = {}
         /\ DOMAIN ants' \cap (DOMAIN corpses' \cup Gripped(ants')) = {}
         /\ DOMAIN corpses' \cap Gripped(ants') = {}
         /\ \A v, w \in DOMAIN ants' :
              ants'[v].corpse.id = ants'[w].corpse.id => v = w \/ ants'[v].corpse = NoCorpse
         /\ \A a \in DOMAIN ants' : ants'[a].corpse.id = 0 => ants'[a].corpse = NoCorpse
         /\ queen'.alive => Queen \notin DOMAIN ants' \cup DOMAIN corpses' \cup Gripped(ants')
         /\ \A i \in DOMAIN corpses' \cup Gripped(ants') : i < nextId'
<1> DEFINE G == Grownups(fed)
           K == Kids(fed)
           D == Dead(fed, old)
           R == Dropped(fed, old)
           hatch == nextId + Cardinality(Hatched(fed))
           ids == {b.id : b \in brood}
<1>1. /\ nextId \in Int /\ 2 < nextId /\ Cardinality(Hatched(fed)) \in Nat
      /\ DOMAIN ants \in SUBSET (2 .. MaxIds) /\ DOMAIN corpses \in SUBSET (1 .. MaxIds)
      /\ \A i \in DOMAIN ants \cup DOMAIN corpses \cup ids \cup Gripped(ants) : i < nextId
      /\ DOMAIN ants \cap (DOMAIN corpses \cup Gripped(ants)) = {}
      /\ DOMAIN corpses \cap Gripped(ants) = {}
      /\ ids \cap (DOMAIN ants \cup DOMAIN corpses \cup Gripped(ants)) = {}
  <2>1. nextId \in Int /\ 2 < nextId /\ Cardinality(Hatched(fed)) \in Nat
    BY AntFacts, BroodParts
  <2>2. DOMAIN corpses \in SUBSET (1 .. MaxIds)
    BY DEF ColonyInv, ColonySaves, TypeOK
  <2>3. InHand = Gripped(ants) /\ Corpses = DOMAIN corpses
    BY DEF InHand, Gripped, Corpses
  <2> QED BY <2>1, <2>2, <2>3, AntFacts
<1>2. /\ DOMAIN G = DOMAIN ants \cup K /\ DOMAIN ants \cap K = {}
      /\ \A a \in DOMAIN ants : G[a].corpse = ants[a].corpse
      /\ \A k \in K : G[k].corpse = NoCorpse
      /\ DOMAIN G \in SUBSET (2 .. MaxIds)
      /\ \A a \in DOMAIN G : a < hatch
  BY GrownupsAre
<1>3. /\ \A v, w \in DOMAIN ants : ants[v].corpse.id = ants[w].corpse.id =>
           v = w \/ ants[v].corpse = NoCorpse
      /\ \A a \in DOMAIN ants : ants[a].corpse.id = 0 => ants[a].corpse = NoCorpse
      /\ queen.alive => Queen \notin DOMAIN ants \cup DOMAIN corpses \cup Gripped(ants)
      /\ \A b \in brood : b.id # Queen
  BY DEF ColonyInv, ColonySaves, FreeHands, InHand, Gripped, Corpses
<1>4. /\ DOMAIN ants' = DOMAIN G \ D /\ D \in SUBSET DOMAIN G
      /\ \A a \in DOMAIN ants' : ants'[a] = G[a]
  BY AntsAfter
<1>5. /\ nextId' = hatch + (IF Lays(fed) THEN 1 ELSE 0)
      /\ queen'.alive => queen.alive /\ ~QueenDies(fed)
      /\ QueenDies(fed) => queen.alive
  BY DEF Passes, QueenDies
<1>6. DOMAIN corpses' \in SUBSET (DOMAIN corpses \cup R \cup D
                                    \cup (IF QueenDies(fed) THEN {Queen} ELSE {}))
  BY CorpsesAfter
<1>7. \A c \in brood' : c.id # Queen /\ (c.id \in ids \/ c.id = hatch)
  BY BroodAfter
<1>8. \A k \in K : nextId <= k /\ k \in Int
  BY KidsAreNew
<1>9. R = {G[a].corpse.id : a \in D} \ {0}
  BY DEF Dropped
<1> HIDE DEF G, K, D, R, ids
<1>10. NoCorpse.id = 0
  BY DEF NoCorpse
<1>11. /\ \A v, w \in DOMAIN G : G[v].corpse.id = G[w].corpse.id => v = w \/ G[v].corpse = NoCorpse
       /\ \A a \in DOMAIN G : G[a].corpse.id = 0 => G[a].corpse = NoCorpse
       /\ \A a \in DOMAIN G : G[a].corpse.id # 0 => a \in DOMAIN ants
       /\ Gripped(G) = Gripped(ants)
  <2>1. \A a \in DOMAIN G : G[a].corpse.id = 0 => G[a].corpse = NoCorpse
    BY <1>2, <1>3
  <2>2. \A a \in DOMAIN G : G[a].corpse.id # 0 => a \in DOMAIN ants
    BY <1>2, <1>10
  <2>3. \A v, w \in DOMAIN G : G[v].corpse.id = G[w].corpse.id => v = w \/ G[v].corpse = NoCorpse
    BY <1>2, <1>3, <2>1, <2>2
  <2>4. Gripped(G) = Gripped(ants)
    BY <1>2, <2>2 DEF Gripped
  <2> QED BY <2>1, <2>2, <2>3, <2>4
<1>12. R \in SUBSET Gripped(G) /\ Gripped(ants') \in SUBSET Gripped(G)
  BY <1>4, <1>9 DEF Gripped
<1>13. R \cap Gripped(ants') = {}
  <2> SUFFICES ASSUME NEW i \in R, i \in Gripped(ants') PROVE FALSE
    OBVIOUS
  <2>1. PICK d \in D : G[d].corpse.id = i
    BY <1>9
  <2>2. PICK a \in DOMAIN ants' : ants'[a].corpse.id = i
    BY DEF Gripped
  <2>3. i # 0
    BY <1>9
  <2>4. d \in DOMAIN G /\ a \in DOMAIN G /\ a \notin D /\ G[a].corpse.id = i
    BY <1>4, <2>2
  <2>5. G[d].corpse = NoCorpse
    BY <1>11, <2>1, <2>4
  <2> QED BY <1>10, <2>1, <2>3, <2>5
<1>14. Gripped(G) \cap DOMAIN G = {}
  BY <1>1, <1>2, <1>8, <1>11
<1>15. Queen \notin DOMAIN G /\ Queen # hatch
  BY <1>1, <1>2 DEF Queen
<1>16. \A i \in DOMAIN corpses \cup Gripped(G) \cup DOMAIN G : i < hatch /\ i # hatch
  <2>1. \A i \in DOMAIN corpses \cup Gripped(G) : i < nextId /\ i \in Int
    <3>1. \A i \in Gripped(ants) : i \in Int
      BY DEF Gripped, ColonyInv, ColonySaves, TypeOK
    <3> QED BY <1>1, <1>11, <3>1
  <2>2. \A i \in DOMAIN G : i < hatch /\ i \in Int
    BY <1>2
  <2> QED BY <1>1, <2>1, <2>2
<1>17. ids \cap (DOMAIN G \cup DOMAIN corpses \cup Gripped(G)) = {}
  BY <1>1, <1>2, <1>8, <1>11
<1>18. hatch \in Int
  BY <1>1
<1> HIDE DEF hatch
<1>19. /\ {b.id : b \in brood'} \cap (DOMAIN ants' \cup DOMAIN corpses' \cup Gripped(ants')) = {}
       /\ DOMAIN ants' \cap (DOMAIN corpses' \cup Gripped(ants')) = {}
       /\ DOMAIN corpses' \cap Gripped(ants') = {}
  <2>1. DOMAIN ants' \in SUBSET DOMAIN G
    BY <1>4
  <2>2. \A c \in brood' : c.id \notin DOMAIN G \cup DOMAIN corpses \cup Gripped(G) \cup {Queen}
    BY <1>7, <1>16, <1>17
  <2>3. DOMAIN corpses' \in SUBSET (DOMAIN corpses \cup Gripped(G) \cup DOMAIN G \cup {Queen})
    BY <1>4, <1>6, <1>12
  <2>4. {b.id : b \in brood'} \cap (DOMAIN ants' \cup DOMAIN corpses' \cup Gripped(ants')) = {}
    BY <1>12, <2>1, <2>2, <2>3
  <2>5. DOMAIN ants' \cap (DOMAIN corpses \cup R \cup D \cup {Queen}) = {}
    BY <1>1, <1>2, <1>4, <1>8, <1>12, <1>14, <1>15
  <2>6. DOMAIN ants' \cap (DOMAIN corpses' \cup Gripped(ants')) = {}
    BY <1>6, <1>12, <1>14, <2>1, <2>5
  <2>7. Gripped(ants') \cap (DOMAIN corpses \cup R \cup D) = {}
    BY <1>1, <1>4, <1>11, <1>12, <1>13, <1>14
  <2>8. QueenDies(fed) => Queen \notin Gripped(ants')
    BY <1>3, <1>5, <1>11, <1>12
  <2>9. DOMAIN corpses' \cap Gripped(ants') = {}
    BY <1>6, <2>7, <2>8
  <2> QED BY <2>4, <2>6, <2>9
<1>20. /\ \A v, w \in DOMAIN ants' :
            ants'[v].corpse.id = ants'[w].corpse.id => v = w \/ ants'[v].corpse = NoCorpse
       /\ \A a \in DOMAIN ants' : ants'[a].corpse.id = 0 => ants'[a].corpse = NoCorpse
  BY <1>4, <1>11
<1>21. queen'.alive => Queen \notin DOMAIN ants' \cup DOMAIN corpses' \cup Gripped(ants')
  BY <1>3, <1>4, <1>5, <1>6, <1>11, <1>12, <1>15
<1>22. \A i \in DOMAIN corpses' \cup Gripped(ants') : i < nextId'
  <2>1. \A i \in DOMAIN corpses \cup Gripped(G) \cup DOMAIN G \cup {Queen} : i < hatch
    BY <1>1, <1>16 DEF Queen, hatch
  <2>2. \A i \in DOMAIN corpses \cup Gripped(G) \cup DOMAIN G \cup {Queen} : i \in Int
    <3>1. \A i \in Gripped(ants) : i \in Int
      BY DEF Gripped, ColonyInv, ColonySaves, TypeOK
    <3> QED BY <1>1, <1>2, <1>11, <3>1 DEF Queen
  <2>3. DOMAIN corpses' \cup Gripped(ants')
          \in SUBSET (DOMAIN corpses \cup Gripped(G) \cup DOMAIN G \cup {Queen})
    BY <1>4, <1>6, <1>12
  <2>4. hatch <= nextId' /\ nextId' \in Int
    BY <1>5, <1>18
  <2> QED BY <1>18, <2>1, <2>2, <2>3, <2>4
<1> QED BY <1>19, <1>20, <1>21, <1>22

\* Founders and eggs are still the living, the brood and the dead.
LEMMA SecondBalances ==
  ASSUME ColonyInv, NEW fed, NEW old, Passes(fed, old)
  PROVE  PopulationBalances'
<1> DEFINE l == IF Lays(fed) THEN 1 ELSE 0
           q == QueenDeath(QueenDies(fed))
           D == Cardinality(Dead(fed, old))
           S == Cardinality(StarvedBrood(fed))
           H == Cardinality(Hatched(fed))
           L == Cardinality(Left(fed))
           alive == IF queen.alive THEN 1 ELSE 0
           alive2 == IF queen'.alive THEN 1 ELSE 0
           A == Cardinality(DOMAIN ants)
           A2 == Cardinality(DOMAIN ants')
           B == Cardinality(brood)
           B2 == Cardinality(brood')
<1>1. stats'.eggs = stats.eggs + l /\ stats'.deaths = stats.deaths + S + D + q
  BY DEF Passes
<1>2. stats.eggs \in Nat /\ stats.deaths \in Nat
  BY DEF ColonyInv, Counts
<1>3. 1 + Founders + stats.eggs = A + alive + B + stats.deaths
  BY DEF ColonyInv, PopulationBalances
<1>4. A2 + D = A + H /\ D \in Nat /\ A \in Nat /\ A2 \in Nat
  BY AntsAfter, AntFacts, FS_CardinalityType
<1>5. L + H + S = B /\ L \in Nat /\ H \in Nat /\ S \in Nat /\ B \in Nat
  BY BroodParts, BroodFacts
<1>6. B2 = L + l
  BY BroodAfter
<1>7. alive2 + q = alive /\ alive2 \in Nat /\ q \in Nat /\ alive \in Nat
  <2>1. queen'.alive <=> queen.alive /\ ~QueenDies(fed)
    BY DEF Passes
  <2>2. QueenDies(fed) => queen.alive
    BY DEF QueenDies
  <2> QED BY <2>1, <2>2 DEF QueenDeath
<1>8. l \in Nat /\ Founders \in Nat
  BY Numbers
<1> HIDE DEF l, q, D, S, H, L, alive, alive2, A, A2, B, B2
<1>9. 1 + Founders + (stats.eggs + l) = A2 + alive2 + B2 + (stats.deaths + S + D + q)
  BY <1>2, <1>3, <1>4, <1>5, <1>6, <1>7, <1>8
<1> QED BY <1>1, <1>9 DEF PopulationBalances, A2, alive2, B2

\* A second keeps the invariant.
LEMMA SecondKeeps ==
  ASSUME ColonyInv, NEW fed, NEW old, Passes(fed, old)
  PROVE  ColonyInv'
<1>1. TypeOK' /\ stats' \in Counts /\ (queen.alive => queen.starvation < QueenPatience)'
  BY SecondTypes
<1>2. /\ DOMAIN ants' = DOMAIN Grownups(fed) \ Dead(fed, old)
      /\ IsFiniteSet(DOMAIN ants') /\ ants' = [a \in DOMAIN ants' |-> ants'[a]]
      /\ \A a \in DOMAIN ants' : ants'[a] = Grownups(fed)[a] /\ a < nextId'
      /\ Cardinality(WingedAnts(ants')) <= Cardinality(WingedAnts(Grownups(fed)))
      /\ Cardinality(WingedAnts(ants')) \in Nat
  BY AntsAfter
<1>3. /\ IsFiniteSet(brood') /\ Distinct(brood')
      /\ nextId' + Cardinality(brood') <= MaxIds + 1
      /\ \A c \in brood' : c.progress < Target(c) /\ c.id < nextId' /\ c.id # Queen
      /\ \A c \in brood' : c.carrier # 0 => c.carrier \in Workers \ Dead(fed, old) /\ ~c.cradled
      /\ \A b, c \in brood' : b.carrier = c.carrier /\ b.carrier # 0 => b = c
      /\ Cardinality(WingedAnts(Grownups(fed))) + Cardinality(WingedBrood(brood')) <= MaxWinged
      /\ Cardinality(WingedBrood(brood')) \in Nat
  BY BroodAfter
<1>4. InHand' = Gripped(ants') /\ Corpses' = DOMAIN corpses'
  BY DEF InHand, Gripped, Corpses
<1>5. /\ {b.id : b \in brood'} \cap (DOMAIN ants' \cup Corpses' \cup InHand') = {}
      /\ DOMAIN ants' \cap (Corpses' \cup InHand') = {} /\ Corpses' \cap InHand' = {}
      /\ \A v, w \in DOMAIN ants' :
           ants'[v].corpse.id = ants'[w].corpse.id => v = w \/ ants'[v].corpse = NoCorpse
      /\ \A a \in DOMAIN ants' : ants'[a].corpse.id = 0 => ants'[a].corpse = NoCorpse
      /\ queen'.alive => Queen \notin DOMAIN ants' \cup Corpses' \cup InHand'
      /\ \A i \in Corpses' \cup InHand' : i < nextId'
  BY <1>4, SecondDisjoint
<1>6. Winged(ants, brood)' <= MaxWinged
  <2>1. Cardinality(WingedAnts(Grownups(fed))) \in Nat
    <3>1. IsFiniteSet(WingedAnts(Grownups(fed)))
      BY GrownupsAre, FS_Subset DEF WingedAnts
    <3> QED BY <3>1, FS_CardinalityType
  <2>2. Cardinality(WingedAnts(ants')) + Cardinality(WingedBrood(brood')) <= MaxWinged
    BY <1>2, <1>3, <2>1, Numbers
  <2> QED BY <2>2 DEF Winged, WingedAnts, WingedBrood
<1>7. ~mature' => counter' = 0
  <2>1. mature => mature'
    BY DEF Passes, Matures
  <2>2. ~mature => counter = 0
    BY DEF ColonyInv, ColonySaves
  <2> QED BY <2>1, <2>2 DEF Passes
<1>8. \A b \in brood' : b.progress <= Target(b)
  <2>1. \A b \in brood' : b.progress \in Nat /\ Target(b) \in Nat
    BY <1>1, Numbers DEF TypeOK, Target
  <2> QED BY <1>3, <2>1
<1>9. ColonySaves'
  <2>1. \A b, c \in brood' : b.id = c.id => b = c
    BY <1>3 DEF Distinct
  <2>2. \A v, w \in DOMAIN ants' : ants'[v].corpse.id = ants'[w].corpse.id => v = w \/ FreeHands(v)'
    BY <1>5 DEF FreeHands
  <2>3. \A i \in DOMAIN ants' \cup Corpses' \cup {b.id : b \in brood'} : i < nextId'
    BY <1>2, <1>3, <1>5
  <2> QED BY <1>1, <1>5, <1>6, <1>7, <1>8, <2>1, <2>2, <2>3 DEF ColonySaves
<1>10. CarriersLive'
  <2>1. ASSUME NEW c \in brood', c.carrier # 0 PROVE c.carrier \in Workers' /\ ~c.cradled
    <3> DEFINE w == c.carrier
    <3>1. w \in DOMAIN ants /\ ants[w].kind = "worker" /\ w \notin Dead(fed, old) /\ ~c.cradled
      BY <1>3, <2>1 DEF Workers
    <3>2. w \in DOMAIN Grownups(fed) /\ Grownups(fed)[w].kind = ants[w].kind
      BY <3>1, GrownupsAre
    <3>3. w \in DOMAIN ants' /\ ants'[w].kind = "worker"
      BY <1>2, <3>1, <3>2
    <3> QED BY <3>1, <3>3 DEF Workers
  <2> QED BY <1>3, <2>1 DEF CarriersLive
<1>11. PopulationBalances'
  BY SecondBalances
<1>12. nextId' > Founders + 1
  <2>1. nextId' = nextId + Cardinality(Hatched(fed)) + (IF Lays(fed) THEN 1 ELSE 0)
    BY DEF Passes
  <2>2. nextId \in Int /\ Founders + 1 < nextId /\ Cardinality(Hatched(fed)) \in Nat
    BY AntFacts, BroodParts
  <2> QED BY <2>1, <2>2, Numbers
<1>13. \A a \in DOMAIN ants' : ants'[a].corpse.id = 0 => FreeHands(a)'
  BY <1>5 DEF FreeHands
<1> QED BY <1>1, <1>2, <1>3, <1>5, <1>9, <1>10, <1>11, <1>12, <1>13 DEF ColonyInv, IdsLast

-----------------------------------------------------------------------------
(* Nurses and cleaners keep the invariant *)

\* An item that changes hands, place or care: what the colony is made of stays the same.
LEMMA SwapKeeps ==
  ASSUME ColonyInv, NEW b \in brood, NEW c \in Item, BroodBecomes(b, c),
         c.id = b.id, c.progress = b.progress, c.role = b.role,
         c.carrier # 0 => /\ c.carrier \in Workers /\ ~c.cradled
                          /\ \A x \in brood : x.carrier = c.carrier => x = b
  PROVE  ColonyInv'
<1> DEFINE f == [x \in brood |-> IF x = b THEN c ELSE x]
<1>1. /\ brood' = (brood \ {b}) \cup {c} /\ UNCHANGED <<ants, corpses>>
      /\ UNCHANGED <<queen, nextId, layIn, age, mature, counter, extinct, stats>>
  BY DEF BroodBecomes, Kept
<1>2. /\ brood \in SUBSET Item /\ IsFiniteSet(brood) /\ Distinct(brood)
      /\ \A x \in brood : x.progress < Target(x)
      /\ Cardinality(brood) \in Nat /\ Cardinality(brood) <= NurseryCapacity
  BY BroodFacts
<1>3. f \in [brood -> brood'] /\ \A y \in brood' : \E x \in brood : f[x] = y
  BY <1>1
<1>4. /\ \A x \in brood : f[x].id = x.id /\ f[x].role = x.role /\ f[x] \in Item
      /\ \A x \in brood : f[x].progress = x.progress
      /\ \A x \in brood \ {b} : f[x] = x
      /\ f[b] = c
  BY <1>2
<1> HIDE DEF f
<1>5. \A x, y \in brood : f[x] = f[y] => x = y
  BY <1>2, <1>4 DEF Distinct
<1>6. IsFiniteSet(brood') /\ Cardinality(brood') = Cardinality(brood)
  BY <1>2, <1>3, <1>5, SameSize
<1>7. Distinct(brood') /\ brood' \in SUBSET Item /\ {y.id : y \in brood'} = {x.id : x \in brood}
  BY <1>2, <1>3, <1>4 DEF Distinct
<1>8. \A y \in brood' : y.progress < Target(y) /\ y.id # Queen
  <2>1. \A x \in brood : Target(f[x]) = Target(x) /\ x.id # Queen
    BY <1>4 DEF Target, ColonyInv
  <2> QED BY <1>2, <1>3, <1>4, <2>1
<1>9. Cardinality(WingedBrood(brood')) = Cardinality(WingedBrood(brood))
  <2> DEFINE W == WingedBrood(brood)
             V == WingedBrood(brood')
             h == [x \in W |-> f[x]]
  <2>1. IsFiniteSet(W)
    BY <1>2, FS_Subset DEF WingedBrood
  <2>2. h \in [W -> V]
    BY <1>3, <1>4 DEF WingedBrood
  <2>3. \A y \in V : \E x \in W : h[x] = y
    BY SMTT(30), <1>3, <1>4 DEF WingedBrood
  <2>4. \A x, y \in W : h[x] = h[y] => x = y
    BY <1>5 DEF WingedBrood
  <2> HIDE DEF W, V, h
  <2>5. Cardinality(V) = Cardinality(W)
    BY <2>1, <2>2, <2>3, <2>4, SameSize
  <2> QED BY <2>5 DEF W, V
<1>10. TypeOK'
  <2>1. brood' \in SUBSET Item /\ Cardinality(brood') <= NurseryCapacity
    BY <1>2, <1>6, <1>7
  <2>2. TypeOK
    BY DEF ColonyInv, ColonySaves
  <2> QED BY <1>1, <2>1, <2>2 DEF TypeOK, Item
<1>11. ColonySaves'
  <2>1. InHand' = InHand /\ Corpses' = Corpses
    BY <1>1 DEF InHand, Corpses
  <2>2. Winged(ants, brood)' = Winged(ants, brood)
    BY <1>1, <1>9 DEF Winged, WingedBrood
  <2>3. \A x, y \in brood' : x.id = y.id => x = y
    BY <1>7 DEF Distinct
  <2>4. \A x \in brood' : x.progress <= Target(x)
    <3>1. \A x \in brood' : x.progress \in Nat /\ Target(x) \in Nat
      BY <1>7, Numbers DEF Item, Target
    <3> QED BY <1>8, <3>1
  <2>5. \A v, w \in DOMAIN ants : ants[v].corpse.id = ants[w].corpse.id => v = w \/ FreeHands(v)
    BY DEF ColonyInv, ColonySaves
  <2>6. \A v \in DOMAIN ants : FreeHands(v)' <=> FreeHands(v)
    BY <1>1 DEF FreeHands
  <2>7. \A v, w \in DOMAIN ants' : ants'[v].corpse.id = ants'[w].corpse.id => v = w \/ FreeHands(v)'
    BY <1>1, <2>5, <2>6
  <2>8. /\ {x.id : x \in brood} \cap (DOMAIN ants \cup Corpses \cup InHand) = {}
        /\ DOMAIN ants \cap (Corpses \cup InHand) = {} /\ Corpses \cap InHand = {}
        /\ queen.alive => Queen \notin DOMAIN ants \cup Corpses \cup InHand
        /\ Winged(ants, brood) <= MaxWinged /\ (~mature => counter = 0)
        /\ \A i \in DOMAIN ants \cup Corpses \cup {x.id : x \in brood} : i < nextId
    BY DEF ColonyInv, ColonySaves
  <2> QED BY <1>1, <1>7, <1>10, <2>1, <2>2, <2>3, <2>4, <2>7, <2>8 DEF ColonySaves
<1>12. CarriersLive'
  <2>1. Workers' = Workers
    BY <1>1 DEF Workers
  <2>2. /\ \A x \in brood : x.carrier # 0 => x.carrier \in Workers /\ ~x.cradled
        /\ \A x, y \in brood : x.carrier = y.carrier /\ x.carrier # 0 => x = y
    BY CarrierFacts
  <2>3. \A x \in brood' : x.carrier # 0 => x.carrier \in Workers' /\ ~x.cradled
    BY <1>1, <2>1, <2>2
  <2>4. \A x, y \in brood' : x.carrier = y.carrier /\ x.carrier # 0 => x = y
    BY <1>1, <2>2
  <2> QED BY <2>3, <2>4 DEF CarriersLive
<1>13. PopulationBalances'
  BY <1>1, <1>6 DEF PopulationBalances, ColonyInv
<1>14. IdsLast'
  BY <1>1, <1>6 DEF IdsLast, ColonyInv
<1>15. InHand' = InHand /\ \A v \in DOMAIN ants : FreeHands(v)' <=> FreeHands(v)
  BY <1>1 DEF InHand, FreeHands
<1>16. /\ stats' \in Counts /\ IsFiniteSet(DOMAIN ants') /\ ants' = [a \in DOMAIN ants' |-> ants'[a]]
       /\ \A a \in DOMAIN ants' : ants'[a].corpse.id = 0 => FreeHands(a)'
       /\ \A i \in InHand' : i < nextId'
       /\ queen'.alive => queen'.starvation < QueenPatience
       /\ nextId' > Founders + 1
  BY <1>1, <1>15 DEF ColonyInv
<1> QED BY <1>6, <1>8, <1>11, <1>12, <1>13, <1>14, <1>16 DEF ColonyInv

\* A corpse in other hands, or in none.
LEMMA GripKeeps ==
  ASSUME ColonyInv, NEW w \in DOMAIN ants, NEW x \in [id : 0 .. MaxIds, age : 0 .. CorpseAge],
         ants' = [ants EXCEPT ![w].corpse = x], UNCHANGED brood, Kept,
         x.id = 0 => x = NoCorpse,
         x.id # 0 => x.id \in Corpses /\ x.id \notin Corpses',
         Corpses' \in SUBSET Corpses,
         \A c \in DOMAIN corpses' : corpses'[c] \in 0 .. CorpseAge - 1
  PROVE  ColonyInv'
<1>1. UNCHANGED <<brood, queen, nextId, layIn, age, mature, counter, extinct, stats>>
  BY DEF Kept
<1>2. /\ TypeOK /\ IsFiniteSet(DOMAIN ants) /\ stats \in Counts
      /\ {b.id : b \in brood} \cap (DOMAIN ants \cup Corpses \cup InHand) = {}
      /\ DOMAIN ants \cap (Corpses \cup InHand) = {} /\ Corpses \cap InHand = {}
      /\ queen.alive => Queen \notin DOMAIN ants \cup Corpses \cup InHand
      /\ Winged(ants, brood) <= MaxWinged /\ (~mature => counter = 0)
      /\ \A i \in DOMAIN ants \cup Corpses \cup {b.id : b \in brood} : i < nextId
      /\ \A i \in InHand : i < nextId
  BY DEF ColonyInv, ColonySaves
<1>3. \A u, v \in DOMAIN ants :
        ants[u].corpse.id = ants[v].corpse.id => u = v \/ ants[u].corpse = NoCorpse
  BY DEF ColonyInv, ColonySaves, FreeHands
<1>4. \A v \in DOMAIN ants : ants[v].corpse.id = 0 => ants[v].corpse = NoCorpse
  BY DEF ColonyInv, FreeHands
<1>5. DOMAIN ants' = DOMAIN ants /\ ants' = [a \in DOMAIN ants' |-> ants'[a]]
  OBVIOUS
<1>6. \A v \in DOMAIN ants \ {w} : ants'[v] = ants[v]
  OBVIOUS
<1>7. ants[w] \in AntRecord(WorkerPatience - 1) /\ ants'[w] = [ants[w] EXCEPT !.corpse = x]
  BY AntFacts
<1>8. /\ ants'[w] \in AntRecord(WorkerPatience - 1) /\ ants'[w].kind = ants[w].kind
      /\ ants'[w].corpse = x
  BY <1>7 DEF AntRecord
<1>9. \A v \in DOMAIN ants : ants'[v].kind = ants[v].kind
  BY <1>6, <1>8
<1>10. TypeOK'
  <2>1. \A c \in DOMAIN corpses' : c \in 1 .. MaxIds
    BY <1>2 DEF Corpses, TypeOK
  <2>2. \A a \in DOMAIN ants' : a \in 2 .. MaxIds /\ ants'[a] \in AntRecord(WorkerPatience - 1)
    BY <1>5, <1>6, <1>8, AntFacts
  <2> QED BY <1>1, <1>2, <2>1, <2>2 DEF TypeOK, AntRecord
<1>11. InHand' \in SUBSET (InHand \cup Corpses) /\ Corpses' \cap InHand' = {}
  <2>1. ASSUME NEW i \in InHand' PROVE (i = x.id /\ x.id # 0) \/ i \in InHand
    <3>1. PICK v \in DOMAIN ants : ants'[v].corpse.id = i /\ i # 0
      BY <1>5, <2>1 DEF InHand
    <3>2. CASE v = w
      BY <1>8, <3>1, <3>2
    <3>3. CASE v # w
      BY <1>6, <3>1, <3>3 DEF InHand
    <3> QED BY <3>2, <3>3
  <2> QED BY <1>2, <2>1
<1>12. \A v \in DOMAIN ants' : ants'[v].corpse.id = 0 => ants'[v].corpse = NoCorpse
  BY <1>4, <1>5, <1>6, <1>8
<1>13. ASSUME NEW u \in DOMAIN ants, NEW v \in DOMAIN ants, ants'[u].corpse.id = ants'[v].corpse.id,
              u # v
       PROVE  ants'[u].corpse = NoCorpse
  <2>1. CASE u # w /\ v # w
    BY <1>3, <1>6, <1>13, <2>1
  <2>2. CASE u = w \/ v = w
    <3>1. PICK y \in DOMAIN ants \ {w} : ants[y].corpse.id = x.id
      BY <1>6, <1>8, <1>13, <2>2
    <3>2. x.id # 0 => x.id \in InHand
      BY <3>1 DEF InHand
    <3>3. x.id = 0
      BY <1>2, <3>2
    <3>4. ants'[u].corpse.id = 0
      BY <1>8, <1>13, <2>2, <3>3
    <3> QED BY <1>5, <1>12, <3>4
  <2> QED BY <2>1, <2>2
<1>14. Winged(ants, brood)' = Winged(ants, brood)
  <2>1. {a \in DOMAIN ants' : ants'[a].kind = "winged"} = {a \in DOMAIN ants : ants[a].kind = "winged"}
    BY <1>5, <1>9
  <2> QED BY <1>1, <2>1 DEF Winged
<1>15. \A v \in DOMAIN ants : FreeHands(v)' <=> ants'[v].corpse = NoCorpse
  BY DEF FreeHands
<1>16. ColonySaves'
  <2>1. \A b, c \in brood' : b.id = c.id => b = c
    BY <1>1 DEF ColonyInv, ColonySaves
  <2>2. \A b \in brood' : b.progress <= Target(b)
    BY <1>1 DEF ColonyInv, ColonySaves
  <2>3. \A u, v \in DOMAIN ants' : ants'[u].corpse.id = ants'[v].corpse.id => u = v \/ FreeHands(u)'
    BY <1>5, <1>13, <1>15
  <2>4. {b.id : b \in brood'} = {b.id : b \in brood}
    BY <1>1
  <2>5. /\ {b.id : b \in brood'} \cap (DOMAIN ants' \cup Corpses' \cup InHand') = {}
        /\ DOMAIN ants' \cap (Corpses' \cup InHand') = {}
        /\ queen'.alive => Queen \notin DOMAIN ants' \cup Corpses' \cup InHand'
    BY <1>1, <1>2, <1>5, <1>11, <2>4
  <2>6. Winged(ants, brood)' <= MaxWinged /\ (~mature' => counter' = 0)
    BY <1>1, <1>2, <1>14
  <2>7. \A i \in DOMAIN ants' \cup Corpses' \cup {b.id : b \in brood'} : i < nextId'
    BY <1>1, <1>2, <1>5, <2>4
  <2> QED BY <1>10, <1>11, <2>1, <2>2, <2>3, <2>5, <2>6, <2>7 DEF ColonySaves
<1>17. CarriersLive'
  <2>1. Workers' = Workers
    BY <1>5, <1>9 DEF Workers
  <2> QED BY <1>1, <2>1, CarrierFacts DEF CarriersLive
<1>18. PopulationBalances' /\ IdsLast'
  BY <1>1, <1>5 DEF PopulationBalances, IdsLast, ColonyInv
<1>19. \A i \in InHand' : i < nextId'
  BY <1>1, <1>2, <1>11
<1>20. \A a \in DOMAIN ants' : ants'[a].corpse.id = 0 => FreeHands(a)'
  BY <1>5, <1>12, <1>15
<1>21. /\ IsFiniteSet(brood') /\ stats' \in Counts /\ IsFiniteSet(DOMAIN ants')
       /\ \A b \in brood' : b.progress < Target(b) /\ b.id # Queen
       /\ queen'.alive => queen'.starvation < QueenPatience
       /\ nextId' > Founders + 1
  BY <1>1, <1>5 DEF ColonyInv
<1> QED BY <1>5, <1>16, <1>17, <1>18, <1>19, <1>20, <1>21 DEF ColonyInv

\* Two states of one item that hands and care, not time, set apart.
Alike(b, c) == c.id = b.id /\ c.role = b.role /\ Unmoved(b, c)

\* What a nurse changes of an item.
LEMMA Edits ==
  ASSUME NEW b \in Item
  PROVE  /\ \A k \in 0 .. MaxIds :
              LET c == [b EXCEPT !.carrier = k]
              IN  c \in Item /\ Alike(b, c) /\ c.carrier = k /\ c.cradled = b.cradled
         /\ \A n \in BOOLEAN :
              LET c == [b EXCEPT !.near = n]
              IN  c \in Item /\ Alike(b, c) /\ c.carrier = b.carrier /\ c.cradled = b.cradled
         /\ \A n \in BOOLEAN :
              LET c == [b EXCEPT !.cradled = n]
              IN  c \in Item /\ Alike(b, c) /\ c.carrier = b.carrier
         /\ \A s \in 0 .. CareSpan :
              LET c == [b EXCEPT !.care = s]
              IN  c \in Item /\ Alike(b, c) /\ c.carrier = b.carrier /\ c.cradled = b.cradled
<1>1. ASSUME NEW k \in 0 .. MaxIds
      PROVE  LET c == [b EXCEPT !.carrier = k]
             IN  c \in Item /\ Alike(b, c) /\ c.carrier = k /\ c.cradled = b.cradled
  <2> DEFINE c == [b EXCEPT !.carrier = k]
  <2>1. c \in Item
    BY DEF Item
  <2>2. Alike(b, c) /\ c.carrier = k
    BY DEF Item, Alike, Unmoved
  <2>3. c.cradled = b.cradled
    BY DEF Item
  <2> QED BY <2>1, <2>2, <2>3
<1>2. ASSUME NEW n \in BOOLEAN
      PROVE  LET c == [b EXCEPT !.near = n]
             IN  c \in Item /\ Alike(b, c) /\ c.carrier = b.carrier /\ c.cradled = b.cradled
  <2> DEFINE c == [b EXCEPT !.near = n]
  <2>1. c \in Item
    BY DEF Item
  <2>2. Alike(b, c) /\ c.carrier = b.carrier
    BY DEF Item, Alike, Unmoved
  <2>3. c.cradled = b.cradled
    BY DEF Item
  <2> QED BY <2>1, <2>2, <2>3
<1>3. ASSUME NEW n \in BOOLEAN
      PROVE  LET c == [b EXCEPT !.cradled = n]
             IN  c \in Item /\ Alike(b, c) /\ c.carrier = b.carrier
  <2> DEFINE c == [b EXCEPT !.cradled = n]
  <2>1. c \in Item
    BY DEF Item
  <2>2. Alike(b, c) /\ c.carrier = b.carrier
    BY DEF Item, Alike, Unmoved
  <2> QED BY <2>1, <2>2
<1>4. ASSUME NEW s \in 0 .. CareSpan
      PROVE  LET c == [b EXCEPT !.care = s]
             IN  c \in Item /\ Alike(b, c) /\ c.carrier = b.carrier /\ c.cradled = b.cradled
  <2> DEFINE c == [b EXCEPT !.care = s]
  <2>1. c \in Item
    BY DEF Item
  <2>2. Alike(b, c) /\ c.carrier = b.carrier
    BY DEF Item, Alike, Unmoved
  <2>3. c.cradled = b.cradled
    BY DEF Item
  <2> QED BY <2>1, <2>2, <2>3
<1> QED BY <1>1, <1>2, <1>3, <1>4

\* What a nurse may do.
NurseTurn(w) == Fetch(w) \/ SetDown(w) \/ WalkOff(w) \/ Resume(w) \/ Tend(w)

\* A nurse's turn changes one item, which is still like itself and carried by her or as before.
LEMMA NurseSwaps ==
  ASSUME ColonyInv, NEW w \in Workers, NurseTurn(w)
  PROVE  \E b \in brood, c \in Item :
           /\ BroodBecomes(b, c) /\ Alike(b, c)
           /\ c.carrier # 0 => /\ c.carrier \in Workers /\ ~c.cradled
                               /\ \A x \in brood : x.carrier = c.carrier => x = b
<1> DEFINE Held(b, c) == c.carrier # 0 => /\ c.carrier \in Workers /\ ~c.cradled
                                          /\ \A x \in brood : x.carrier = c.carrier => x = b
<1>1. \A b \in brood : b \in Item
  BY BroodFacts
<1>2. /\ \A b \in brood : b.carrier # 0 => b.carrier \in Workers /\ ~b.cradled
      /\ \A b, c \in brood : b.carrier = c.carrier /\ b.carrier # 0 => b = c
  BY CarrierFacts
<1>3. w \in 0 .. MaxIds /\ w # 0
  <2>1. w \in 2 .. MaxIds
    BY AntFacts DEF Workers
  <2> QED BY <2>1, Numbers
<1>4. 0 \in 0 .. MaxIds /\ CareSpan \in 0 .. CareSpan
  BY Numbers
<1>5. ASSUME NEW b \in brood, NEW c, c.carrier = b.carrier, c.cradled = b.cradled PROVE Held(b, c)
  BY <1>2, <1>5
<1>6. CASE Fetch(w)
  <2>1. PICK b \in brood : /\ b.carrier = 0 /\ ~b.cradled
                           /\ BroodBecomes(b, [b EXCEPT !.carrier = w, !.near = TRUE])
    BY <1>6 DEF Fetch
  <2> DEFINE d == [b EXCEPT !.carrier = w]
             c == [d EXCEPT !.near = TRUE]
  <2>2. d \in Item /\ Alike(b, d) /\ d.carrier = w /\ d.cradled = b.cradled
    BY <1>1, <1>3, Edits
  <2>3. BroodBecomes(b, c)
    BY <2>1
  <2> HIDE DEF d
  <2>4. c \in Item /\ Alike(d, c) /\ c.carrier = d.carrier /\ c.cradled = d.cradled
    BY <2>2, Edits
  <2> HIDE DEF c
  <2>5. Alike(b, c)
    BY <2>2, <2>4 DEF Alike, Unmoved
  <2>6. \A x \in brood : x.carrier # w
    BY <1>6 DEF Fetch, Carried
  <2>7. Held(b, c)
    BY <2>1, <2>2, <2>4, <2>6
  <2> QED BY <2>3, <2>4, <2>5, <2>7
<1>7. CASE SetDown(w)
  <2>1. PICK b \in Carried(w), m \in BOOLEAN :
          BroodBecomes(b, [b EXCEPT !.carrier = 0, !.near = FALSE, !.cradled = m])
    BY <1>7 DEF SetDown
  <2>2. b \in brood
    BY DEF Carried
  <2> DEFINE d == [b EXCEPT !.carrier = 0]
             e == [d EXCEPT !.near = FALSE]
             c == [e EXCEPT !.cradled = m]
  <2>3. d \in Item /\ Alike(b, d) /\ d.carrier = 0
    BY <1>1, <1>4, <2>2, Edits
  <2>4. BroodBecomes(b, c)
    BY <2>1
  <2> HIDE DEF d
  <2>5. e \in Item /\ Alike(d, e) /\ e.carrier = d.carrier
    BY <2>3, Edits
  <2> HIDE DEF e
  <2>6. c \in Item /\ Alike(e, c) /\ c.carrier = e.carrier
    BY <2>5, Edits
  <2> HIDE DEF c
  <2>7. Alike(b, c) /\ Held(b, c)
    BY <2>3, <2>5, <2>6 DEF Alike, Unmoved
  <2> QED BY <2>2, <2>4, <2>6, <2>7
<1>8. CASE WalkOff(w)
  <2>1. PICK b \in Carried(w) : BroodBecomes(b, [b EXCEPT !.near = FALSE])
    BY <1>8 DEF WalkOff
  <2> DEFINE c == [b EXCEPT !.near = FALSE]
  <2>2. b \in brood
    BY DEF Carried
  <2>3. BroodBecomes(b, c) /\ c \in Item /\ Alike(b, c) /\ c.carrier = b.carrier /\ c.cradled = b.cradled
    BY <1>1, <2>1, <2>2, Edits
  <2> HIDE DEF c
  <2>4. Held(b, c)
    BY <1>5, <2>2, <2>3
  <2> QED BY <2>2, <2>3, <2>4
<1>9. CASE Resume(w)
  <2>1. PICK b \in Carried(w) : BroodBecomes(b, [b EXCEPT !.near = TRUE])
    BY <1>9 DEF Resume
  <2> DEFINE c == [b EXCEPT !.near = TRUE]
  <2>2. b \in brood
    BY DEF Carried
  <2>3. BroodBecomes(b, c) /\ c \in Item /\ Alike(b, c) /\ c.carrier = b.carrier /\ c.cradled = b.cradled
    BY <1>1, <2>1, <2>2, Edits
  <2> HIDE DEF c
  <2>4. Held(b, c)
    BY <1>5, <2>2, <2>3
  <2> QED BY <2>2, <2>3, <2>4
<1>10. CASE Tend(w)
  <2>1. PICK b \in brood : BroodBecomes(b, [b EXCEPT !.care = CareSpan])
    BY <1>10 DEF Tend
  <2> DEFINE c == [b EXCEPT !.care = CareSpan]
  <2>2. BroodBecomes(b, c) /\ c \in Item /\ Alike(b, c) /\ c.carrier = b.carrier /\ c.cradled = b.cradled
    BY <1>1, <1>4, <2>1, Edits
  <2> HIDE DEF c
  <2>3. Held(b, c)
    BY <1>5, <2>2
  <2> QED BY <2>2, <2>3
<1> QED BY <1>6, <1>7, <1>8, <1>9, <1>10 DEF NurseTurn

-----------------------------------------------------------------------------
(* The invariant *)

\* A colony is founded well formed.
LEMMA InitIsGood == Init => ColonyInv
<1> SUFFICES ASSUME Init PROVE ColonyInv
  OBVIOUS
<1> DEFINE F == 2 .. Founders + 1
<1>1. /\ queen = [alive |-> TRUE, starvation |-> 0]
      /\ ants = [a \in F |-> Callow("worker")]
      /\ brood = {} /\ corpses = [c \in {} |-> 0]
      /\ nextId = Founders + 2 /\ layIn = 0 /\ age = 0
      /\ mature = FALSE /\ counter = 0 /\ extinct = FALSE
      /\ stats = [eggs |-> 0, workers |-> 0, winged |-> 0, deaths |-> 0]
  BY DEF Init
<1>2. /\ DOMAIN ants = F /\ DOMAIN corpses = {} /\ Corpses = {}
      /\ \A a \in F : ants[a] = Callow("worker")
      /\ ants = [a \in DOMAIN ants |-> ants[a]]
  BY <1>1 DEF Corpses
<1>3. IsFiniteSet(F) /\ Cardinality(F) = Founders
  <2>1. 2 \in Int /\ Founders + 1 \in Int /\ Founders \in Nat \ {0}
    BY Numbers
  <2>2. IsFiniteSet(F) /\ Cardinality(F) = IF 2 > Founders + 1 THEN 0 ELSE (Founders + 1) - 2 + 1
    BY <2>1, FS_Interval
  <2> QED BY <2>1, <2>2
<1>4. \A a \in F : a \in 2 .. MaxIds /\ a < nextId /\ a # Queen
  BY <1>1, Numbers DEF Queen
<1> HIDE DEF F
<1>5. IsFiniteSet(brood) /\ Cardinality(brood) = 0
  BY <1>1, FS_EmptySet
<1>6. \A a \in DOMAIN ants : /\ ants[a].kind = "worker" /\ ants[a].corpse = NoCorpse
                             /\ ants[a] \in AntRecord(WorkerPatience - 1)
  <2>1. 0 \in 0 .. MaxIds /\ 0 \in 0 .. CorpseAge /\ 0 \in 0 .. WorkerPatience - 1
    BY Numbers
  <2>2. Callow("worker") \in AntRecord(WorkerPatience - 1)
    BY <2>1 DEF Callow, NoCorpse, AntRecord, Roles
  <2>3. Callow("worker").kind = "worker" /\ Callow("worker").corpse = NoCorpse
    BY DEF Callow
  <2> QED BY <1>2, <2>2, <2>3
<1>7. InHand = {}
  BY <1>6 DEF InHand, NoCorpse
<1>8. TypeOK
  <2>1. queen \in [alive : BOOLEAN, starvation : 0 .. QueenPatience]
    BY <1>1, Numbers
  <2>2. /\ nextId \in 1 .. MaxIds + 1 /\ layIn \in 0 .. LayEvery /\ age \in 0 .. MatureAge
        /\ counter \in 0 .. EggEvery - 1 /\ Cardinality(brood) <= NurseryCapacity
    BY <1>1, <1>5, Numbers
  <2>3. mature \in BOOLEAN /\ extinct \in BOOLEAN /\ brood \subseteq Item
    BY <1>1
  <2> QED BY <1>2, <1>4, <1>6, <2>1, <2>2, <2>3 DEF TypeOK, AntRecord, Item
<1>9. Winged(ants, brood) <= MaxWinged
  <2>1. {a \in DOMAIN ants : ants[a].kind = "winged"} = {} /\ {b \in brood : b.role = "winged"} = {}
    BY <1>1, <1>6
  <2>2. Winged(ants, brood) = Cardinality({}) + Cardinality({})
    BY <2>1 DEF Winged
  <2>3. Cardinality({}) = 0
    BY FS_EmptySet
  <2> QED BY <2>2, <2>3, Numbers
<1>10. ColonySaves
  <2>1. Queen \notin DOMAIN ants
    BY <1>2, <1>4
  <2>2. \A v \in DOMAIN ants : FreeHands(v)
    BY <1>6 DEF FreeHands
  <2>3. {b.id : b \in brood} = {}
    BY <1>1
  <2> QED BY <1>1, <1>2, <1>4, <1>7, <1>8, <1>9, <2>1, <2>2, <2>3 DEF ColonySaves
<1>11. CarriersLive
  BY <1>1 DEF CarriersLive
<1>12. PopulationBalances
  <2>1. Cardinality(DOMAIN ants) = Founders /\ stats.eggs = 0 /\ stats.deaths = 0 /\ queen.alive = TRUE
    BY <1>1, <1>2, <1>3
  <2> QED BY <1>5, <2>1, Numbers DEF PopulationBalances
<1>13. /\ stats \in Counts /\ queen.starvation < QueenPatience
       /\ nextId > Founders + 1 /\ IdsLast
  BY <1>1, <1>5, Numbers DEF Counts, IdsLast
<1>14. \A a \in DOMAIN ants : FreeHands(a)
  BY <1>6 DEF FreeHands
<1> QED BY <1>1, <1>2, <1>3, <1>5, <1>7, <1>10, <1>11, <1>12, <1>13, <1>14 DEF ColonyInv

\* A corpse that is picked up was nobody's.
LEMMA PickKeeps ==
  ASSUME ColonyInv, NEW w \in Workers, PickCorpse(w)
  PROVE  ColonyInv'
<1>1. PICK c \in DOMAIN corpses :
        /\ ants' = [ants EXCEPT ![w].corpse = [id |-> c, age |-> corpses[c]]]
        /\ corpses' = [d \in DOMAIN corpses \ {c} |-> corpses[d]]
        /\ UNCHANGED brood /\ Kept
  BY DEF PickCorpse
<1>2. \A d \in DOMAIN corpses : d \in 1 .. MaxIds /\ corpses[d] \in 0 .. CorpseAge - 1
  BY DEF ColonyInv, ColonySaves, TypeOK
<1> DEFINE x == [id |-> c, age |-> corpses[c]]
<1>3. x \in [id : 0 .. MaxIds, age : 0 .. CorpseAge] /\ x.id = c /\ c # 0
  BY <1>2, Numbers
<1>4. /\ DOMAIN corpses' = DOMAIN corpses \ {c}
      /\ \A d \in DOMAIN corpses' : corpses'[d] \in 0 .. CorpseAge - 1
  BY <1>1, <1>2
<1>5. Corpses' \in SUBSET Corpses /\ c \in Corpses /\ c \notin Corpses'
  BY <1>4 DEF Corpses
<1>6. w \in DOMAIN ants
  BY DEF Workers
<1>7. ants' = [ants EXCEPT ![w].corpse = x]
  BY <1>1
<1> HIDE DEF x
<1> QED BY <1>1, <1>3, <1>4, <1>5, <1>6, <1>7, GripKeeps

\* A corpse tipped outside is gone.
LEMMA DeliverKeeps ==
  ASSUME ColonyInv, NEW w \in Workers, DeliverCorpse(w)
  PROVE  ColonyInv'
<1>1. /\ ants' = [ants EXCEPT ![w].corpse = NoCorpse]
      /\ UNCHANGED <<brood, corpses>> /\ Kept
  BY DEF DeliverCorpse
<1>2. NoCorpse \in [id : 0 .. MaxIds, age : 0 .. CorpseAge] /\ NoCorpse.id = 0
  BY Numbers DEF NoCorpse
<1>3. \A c \in DOMAIN corpses' : corpses'[c] \in 0 .. CorpseAge - 1
  BY <1>1 DEF ColonyInv, ColonySaves, TypeOK
<1>4. w \in DOMAIN ants /\ Corpses' = Corpses
  BY <1>1 DEF Workers, Corpses
<1> QED BY <1>1, <1>2, <1>3, <1>4, GripKeeps

\* Every step keeps the invariant.
LEMMA StepKeeps ==
  ASSUME ColonyInv, [Next]_vars
  PROVE  ColonyInv'
<1>1. CASE Second
  <2>1. PICK fed \in SUBSET Eaters, old \in SUBSET Workers : Passes(fed, old)
    BY <1>1, SecondPasses
  <2> QED BY <2>1, SecondKeeps
<1>2. ASSUME NEW w \in Workers, NurseTurn(w) PROVE ColonyInv'
  <2>1. PICK b \in brood, c \in Item :
          /\ BroodBecomes(b, c) /\ Alike(b, c)
          /\ c.carrier # 0 => /\ c.carrier \in Workers /\ ~c.cradled
                              /\ \A x \in brood : x.carrier = c.carrier => x = b
    BY <1>2, NurseSwaps
  <2>2. c.id = b.id /\ c.progress = b.progress /\ c.role = b.role
    BY <2>1 DEF Alike, Unmoved
  <2> QED BY <2>1, <2>2, SwapKeeps
<1>3. ASSUME NEW w \in Workers, PickCorpse(w) \/ DeliverCorpse(w) PROVE ColonyInv'
  BY <1>3, PickKeeps, DeliverKeeps
<1>4. CASE UNCHANGED vars
  BY <1>4 DEF vars, ColonyInv, ColonySaves, TypeOK, CarriersLive, PopulationBalances, IdsLast,
       InHand, Corpses, FreeHands, Workers, Winged
<1> QED BY <1>1, <1>2, <1>3, <1>4 DEF Next, NurseTurn

\* Every reachable colony is well formed, down to the ids still to be given out.
THEOREM ColonyInvariance == Spec => []ColonyInv
<1>1. ColonyInv /\ [Next]_vars => ColonyInv'
  BY StepKeeps
<1> QED BY <1>1, InitIsGood, PTL DEF Spec

\* Every reachable colony can be saved and read back (validate_world, profile_codec.cpp:222).
THEOREM ColoniesSave == Spec => []ColonySaves
<1>1. ColonyInv => ColonySaves
  BY DEF ColonyInv
<1> QED BY <1>1, ColonyInvariance, PTL

\* Founders and eggs are the living, the brood and the recorded deaths (update_biology's counters).
THEOREM EveryEggCounted == Spec => []PopulationBalances
<1>1. ColonyInv => PopulationBalances
  BY DEF ColonyInv
<1> QED BY <1>1, ColonyInvariance, PTL

\* No item of brood stays in the grip of a dead nurse, and no nurse carries two.
THEOREM BroodInLiveHands == Spec => []CarriersLive
<1>1. ColonyInv => CarriersLive
  BY DEF ColonyInv
<1> QED BY <1>1, ColonyInvariance, PTL

-----------------------------------------------------------------------------
(* Brood advances *)

\* A second brings every item that stays brood nearer to hatching or to starving.
LEMMA SecondAdvances ==
  ASSUME ColonyInv, NEW fed, NEW old, Passes(fed, old), NEW b \in brood, NEW c \in brood',
         b.id = c.id
  PROVE  Nearer(b, c)
<1> DEFINE I == Items(fed)
           D == Dead(fed, old)
           hatch == nextId + Cardinality(Hatched(fed))
<1>1. brood' = LaidDown(I, D)
  BY DEF Passes
<1>2. /\ I \in SUBSET Item /\ IsFiniteSet(I) /\ Distinct(I)
      /\ \A x \in I : x \in Left(fed) \/ x = Laid(fed)
  BY ItemsAre
<1>3. Laid(fed).id = hatch
  BY DEF Laid, Egg
<1>4. /\ nextId \in Int /\ Cardinality(Hatched(fed)) \in Nat
      /\ \A x \in Left(fed) : \E y \in brood : y.id = x.id /\ Nearer(y, x)
  BY AntFacts, BroodParts
<1>5. b.id < nextId /\ b.id \in Int
  BY AntFacts, BroodFacts DEF Item
<1> HIDE DEF I, D
<1>6. PICK x \in I : /\ c.id = x.id /\ c.stage = x.stage /\ c.progress = x.progress
                     /\ c.starvation = x.starvation
  BY <1>1, <1>2, LaidDownKeeps
<1>7. x \in Left(fed)
  BY <1>2, <1>3, <1>4, <1>5, <1>6
<1>8. PICK y \in brood : y.id = x.id /\ Nearer(y, x)
  BY <1>4, <1>7
<1>9. y = b
  BY <1>6, <1>8, BroodFacts DEF Distinct
<1> QED BY <1>6, <1>8, <1>9 DEF Nearer

\* Nobody stays brood for ever: each second of update_biology advances every item, fed or hungry,
\* cared for or not, and what nurses do in between takes nothing back.
THEOREM BroodAlwaysAdvances == Spec => BroodAdvances
<1> DEFINE A == \A b \in brood, c \in brood' :
                  b.id = c.id => Nearer(b, c) \/ (Unmoved(b, c) /\ ~Second)
<1>1. ASSUME ColonyInv, [Next]_vars PROVE [A]_vars
  <2>1. CASE Second
    <3>1. PICK fed \in SUBSET Eaters, old \in SUBSET Workers : Passes(fed, old)
      BY <2>1, SecondPasses
    <3> QED BY <1>1, <3>1, SecondAdvances
  <2>2. CASE ~Second /\ \E w \in Workers : NurseTurn(w)
    <3>1. PICK b \in brood, c \in Item : BroodBecomes(b, c) /\ Alike(b, c)
      BY <1>1, <2>2, NurseSwaps
    <3>2. brood' = (brood \ {b}) \cup {c} /\ c.id = b.id /\ Unmoved(b, c)
      BY <3>1 DEF BroodBecomes, Alike
    <3>3. Distinct(brood)
      BY <1>1, BroodFacts
    <3>4. ASSUME NEW x \in brood, NEW y \in brood', x.id = y.id PROVE Unmoved(x, y)
      <4>1. CASE y = c
        <5>1. x = b
          BY <3>2, <3>3, <3>4, <4>1 DEF Distinct
        <5> QED BY <3>2, <4>1, <5>1
      <4>2. CASE y # c
        <5>1. x = y
          BY <3>2, <3>3, <3>4, <4>2 DEF Distinct
        <5> QED BY <5>1 DEF Unmoved
      <4> QED BY <4>1, <4>2
    <3> QED BY <2>2, <3>4
  <2>3. CASE ~Second /\ \E w \in Workers : PickCorpse(w) \/ DeliverCorpse(w)
    <3>1. brood' = brood /\ Distinct(brood)
      BY <1>1, <2>3, BroodFacts DEF PickCorpse, DeliverCorpse
    <3>2. ASSUME NEW x \in brood, NEW y \in brood', x.id = y.id PROVE Unmoved(x, y)
      BY <3>1, <3>2 DEF Distinct, Unmoved
    <3> QED BY <2>3, <3>2
  <2>4. CASE UNCHANGED vars
    BY <2>4
  <2> QED BY <1>1, <2>1, <2>2, <2>3, <2>4 DEF Next, NurseTurn
<1> QED BY <1>1, ColonyInvariance, PTL DEF Spec, BroodAdvances
=============================================================================
