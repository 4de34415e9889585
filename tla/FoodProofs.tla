------------------------------ MODULE FoodProofs ------------------------------
(***************************************************************************)
(* Theorems about FoodEconomy for any number of workers and sites and any  *)
(* amounts, capacities and bounds.                                         *)
(***************************************************************************)
EXTENDS FoodEconomy, Totals, SequenceTheorems

-----------------------------------------------------------------------------
(* Sums that change one value at a time *)

\* What one worker holds of a site, and carries of a nutrient; what one heap
\* holds of a nutrient.
ClaimOf(f, s) == IF f.source = s THEN f.reserved ELSE 0
LoadOf(f, n) == IF f.cargo.nutrient = n THEN f.cargo.amount ELSE 0
HeapOf(h, n) == IF h.nutrient = n THEN h.amount ELSE 0

Claims(wk, s) == [w \in Ids |-> ClaimOf(wk[w], s)]
Burdens(wk, n) == [w \in Ids |-> LoadOf(wk[w], n)]
Stock(g, n) == [i \in DOMAIN g |-> HeapOf(g[i], n)]
Amounts(f) == [x \in DOMAIN f |-> f[x].amount]

\* The model's totals are the sums of Totals.
LEMMA TotalIsSum == \A f : Total(f) = SumOf(f, DOMAIN f)
BY DEF Total, SumOf, MapThenSumSet, MapThenFoldSet

\* There are finitely many workers.
LEMMA IdsFinite == IsFiniteSet(Ids) /\ Workers \in Nat \ {0} /\ Cardinality(Ids) = Workers
<1>1. Workers \in Nat \ {0}
  BY FoodAssumption
<1>2. 1 \in Int /\ Workers \in Int /\ ~(1 > Workers) /\ Workers - 1 + 1 = Workers
  BY <1>1
<1>3. IsFiniteSet(1 .. Workers) /\ Cardinality(1 .. Workers) = Workers - 1 + 1
  BY <1>2, FS_Interval
<1> QED BY <1>1, <1>2, <1>3 DEF Ids

\* The claims of some workers, as the sum over all of them.
LEMMA ClaimsSum ==
  ASSUME NEW wk \in [Ids -> WorkerType], NEW ids \in SUBSET Ids, NEW s
  PROVE  Total([w \in {v \in ids : wk[v].source = s} |-> wk[w].reserved])
           = SumOf(Claims(wk, s), ids)
<1> DEFINE S == {v \in ids : wk[v].source = s}
           f == [w \in S |-> wk[w].reserved]
           g == Claims(wk, s)
<1>1. \A w \in Ids : wk[w].reserved \in Int
  BY FoodAssumption DEF WorkerType
<1>2. \A x \in S : f[x] \in Int /\ g[x] = f[x]
  BY <1>1 DEF Claims, ClaimOf
<1>3. \A x \in ids \ S : g[x] = 0
  BY DEF Claims, ClaimOf
<1>4. IsFiniteSet(ids) /\ S \in SUBSET ids /\ DOMAIN f = S
  BY IdsFinite, FS_Subset
<1> HIDE DEF S, f, g
<1>5. SumOf(f, S) = SumOf(g, ids)
  BY <1>2, <1>3, <1>4, SumPart
<1>6. Total(f) = SumOf(f, S)
  BY <1>4, TotalIsSum
<1> QED BY <1>5, <1>6 DEF S, f, g

\* The loads of some workers, as the sum over all of them.
LEMMA BurdensSum ==
  ASSUME NEW wk \in [Ids -> WorkerType], NEW ids \in SUBSET Ids, NEW n
  PROVE  Total([w \in {v \in ids : wk[v].cargo.nutrient = n} |-> wk[w].cargo.amount])
           = SumOf(Burdens(wk, n), ids)
<1> DEFINE S == {v \in ids : wk[v].cargo.nutrient = n}
           f == [w \in S |-> wk[w].cargo.amount]
           g == Burdens(wk, n)
<1>1. \A w \in Ids : wk[w].cargo.amount \in Int
  BY DEF WorkerType, Loads
<1>2. \A x \in S : f[x] \in Int /\ g[x] = f[x]
  BY <1>1 DEF Burdens, LoadOf
<1>3. \A x \in ids \ S : g[x] = 0
  BY DEF Burdens, LoadOf
<1>4. IsFiniteSet(ids) /\ S \in SUBSET ids /\ DOMAIN f = S
  BY IdsFinite, FS_Subset
<1> HIDE DEF S, f, g
<1>5. SumOf(f, S) = SumOf(g, ids)
  BY <1>2, <1>3, <1>4, SumPart
<1>6. Total(f) = SumOf(f, S)
  BY <1>4, TotalIsSum
<1> QED BY <1>5, <1>6 DEF S, f, g

\* The heaps of a nutrient, as the sum over all heaps.
LEMMA HeapsSum ==
  ASSUME NEW g, IsFiniteSet(DOMAIN g), \A i \in DOMAIN g : g[i].amount \in Nat, NEW n
  PROVE  Total([i \in Heaps(g, n) |-> g[i].amount]) = SumOf(Stock(g, n), DOMAIN g)
<1> DEFINE S == Heaps(g, n)
           f == [i \in S |-> g[i].amount]
           h == Stock(g, n)
<1>2. \A x \in S : f[x] \in Int /\ h[x] = f[x]
  BY DEF Stock, HeapOf, Heaps
<1>3. \A x \in (DOMAIN g) \ S : h[x] = 0
  BY DEF Stock, HeapOf, Heaps
<1>4. S \in SUBSET DOMAIN g /\ DOMAIN f = S
  BY DEF Heaps
<1> HIDE DEF S, f, h
<1>5. SumOf(f, S) = SumOf(h, DOMAIN g)
  BY <1>2, <1>3, <1>4, SumPart
<1>6. Total(f) = SumOf(f, S)
  BY <1>4, TotalIsSum
<1> QED BY <1>5, <1>6 DEF S, f, h

\* How the claims on a site move when one worker changes.
LEMMA ClaimsMove ==
  ASSUME NEW wk \in [Ids -> WorkerType], NEW wn \in [Ids -> WorkerType], NEW w \in Ids,
         \A v \in Ids : v # w => wn[v] = wk[v], NEW s
  PROVE  /\ SumOf(Claims(wk, s), Ids) \in Nat
         /\ ClaimOf(wk[w], s) \in Nat /\ ClaimOf(wn[w], s) \in Nat
         /\ ClaimOf(wk[w], s) <= SumOf(Claims(wk, s), Ids)
         /\ SumOf(Claims(wn, s), Ids)
              = SumOf(Claims(wk, s), Ids) - ClaimOf(wk[w], s) + ClaimOf(wn[w], s)
<1> DEFINE a == Claims(wk, s)
           b == Claims(wn, s)
<1>1. \A u \in WorkerType : ClaimOf(u, s) \in Nat
  BY FoodAssumption DEF WorkerType, Loads, ClaimOf
<1>2. /\ \A u \in Ids : a[u] \in Nat /\ b[u] \in Nat
      /\ a[w] = ClaimOf(wk[w], s) /\ b[w] = ClaimOf(wn[w], s)
  BY <1>1 DEF Claims
<1>3. SameBut(a, b, Ids, w)
  BY DEF Claims, SameBut
<1>4. a \in [Ids -> Int] /\ b \in [Ids -> Int]
  BY <1>1 DEF Claims
<1> HIDE DEF a, b
<1>5. SumOf(a, Ids) \in Nat /\ a[w] <= SumOf(a, Ids)
  BY <1>2, IdsFinite, SumNat
<1>6. SumOf(b, Ids) = SumOf(a, Ids) - a[w] + b[w]
  BY <1>3, <1>4, IdsFinite, SumChange
<1> QED BY <1>2, <1>5, <1>6 DEF a, b

\* How the loads of a nutrient move when one worker changes.
LEMMA BurdensMove ==
  ASSUME NEW wk \in [Ids -> WorkerType], NEW wn \in [Ids -> WorkerType], NEW w \in Ids,
         \A v \in Ids : v # w => wn[v] = wk[v], NEW n
  PROVE  /\ SumOf(Burdens(wk, n), Ids) \in Nat
         /\ LoadOf(wk[w], n) \in Nat /\ LoadOf(wn[w], n) \in Nat
         /\ LoadOf(wk[w], n) <= SumOf(Burdens(wk, n), Ids)
         /\ SumOf(Burdens(wn, n), Ids)
              = SumOf(Burdens(wk, n), Ids) - LoadOf(wk[w], n) + LoadOf(wn[w], n)
<1> DEFINE a == Burdens(wk, n)
           b == Burdens(wn, n)
<1>1. \A u \in WorkerType : LoadOf(u, n) \in Nat
  BY FoodAssumption DEF WorkerType, Loads, LoadOf
<1>2. /\ \A u \in Ids : a[u] \in Nat /\ b[u] \in Nat
      /\ a[w] = LoadOf(wk[w], n) /\ b[w] = LoadOf(wn[w], n)
  BY <1>1 DEF Burdens
<1>3. SameBut(a, b, Ids, w)
  BY DEF Burdens, SameBut
<1>4. a \in [Ids -> Int] /\ b \in [Ids -> Int]
  BY <1>1 DEF Burdens
<1> HIDE DEF a, b
<1>5. SumOf(a, Ids) \in Nat /\ a[w] <= SumOf(a, Ids)
  BY <1>2, IdsFinite, SumNat
<1>6. SumOf(b, Ids) = SumOf(a, Ids) - a[w] + b[w]
  BY <1>3, <1>4, IdsFinite, SumChange
<1> QED BY <1>2, <1>5, <1>6 DEF a, b

-----------------------------------------------------------------------------
(* The inductive invariant *)

\* carried_food_ is what the workers carry.
CargoOK == \A n \in Nutrients : carried[n] = InCargo(n)

\* stores_ is what lies in the heaps, within each nutrient's share of the cells.
StockOK ==
  \A n \in Nutrients :
    /\ stores[n] = Total([i \in Heaps(granary, n) |-> granary[i].amount])
    /\ stores[n] <= CapacityFor(n)
    /\ Cardinality(Heaps(granary, n)) <= Allowed(n)

\* A worker on its way to a site holds a claim and no load; one that is bound for
\* a heap holds a load.
Sound(f) ==
  /\ f.state = "ToSource" => f.reserved > 0 /\ f.cargo.amount = 0
  /\ f.state \in {"Storing", "Waiting", "Returning"} => f.cargo.amount > 0
WorkersOK == \A w \in Ids : Sound(worker[w])

\* No cell holds two heaps.
HeapsApart == \A i, j \in DOMAIN granary : granary[i].cell = granary[j].cell => i = j

FoodInv ==
  TypeOK /\ CargoOK /\ StockOK /\ ReservationsAreClaims /\ WorkersOK /\ HeapsApart

\* The food there is, and that a step accounts for the change of it.
Food == InSites + Both(carried) + InDropped + Both(stores)
Balanced == Food' = Food + counted'

-----------------------------------------------------------------------------
(* Lemmas about capacity, claims and loads *)

\* The types of the constants.
LEMMA ConstantTypes ==
  /\ Workers \in Nat /\ 0 < Workers /\ GrainsPerCell \in Nat /\ 0 < GrainsPerCell
  /\ Carry \in Nat /\ 0 < Carry /\ Patience \in Nat /\ 0 < Patience
  /\ MaxCells \in Nat /\ FirstCells \in Nat /\ FirstCells <= MaxCells
  /\ SourceIds \in Nat /\ 2 <= SourceIds /\ MaxSources \in Nat /\ 2 <= MaxSources
  /\ ScoutCap \in Nat
BY FoodAssumption

\* The largest amount a site may open with bounds every such amount.
LEMMA LargestFacts ==
  /\ Largest \in Nat /\ \A a \in SiteAmounts : a \in Nat /\ 0 < a /\ a <= Largest
<1>1. SiteAmounts \in SUBSET Int /\ IsFiniteSet(SiteAmounts) /\ SiteAmounts # {}
      /\ \A a \in SiteAmounts : a \in Nat /\ 0 < a
  BY FoodAssumption
<1>2. Max(SiteAmounts) \in SiteAmounts /\ \A a \in SiteAmounts : a <= Max(SiteAmounts)
  BY <1>1, MaxFacts
<1> QED BY <1>1, <1>2 DEF Largest

\* The types of the numbers in the state.
LEMMA StateTypes ==
  ASSUME TypeOK
  PROVE  /\ cells \in Nat /\ FirstCells <= cells /\ cells <= MaxCells
         /\ \A w \in Ids :
              /\ worker[w] \in WorkerType /\ worker[w].reserved \in Nat
              /\ worker[w].patience \in Nat /\ worker[w].cargo \in Loads
              /\ worker[w].cargo.nutrient \in Nutrients /\ worker[w].cargo.amount \in Nat
         /\ \A s \in DOMAIN sites :
              /\ sites[s] \in SiteType /\ sites[s].nutrient \in Nutrients
              /\ sites[s].amount \in Nat /\ sites[s].reserved \in Nat /\ sites[s].known \in BOOLEAN
         /\ \A i \in DOMAIN granary :
              /\ granary[i] \in HeapType /\ granary[i].cell \in Nat /\ granary[i].cell > 0
              /\ granary[i].nutrient \in Nutrients
              /\ granary[i].amount \in Nat /\ granary[i].amount <= GrainsPerCell
         /\ \A n \in Nutrients : stores[n] \in Nat /\ carried[n] \in Nat
<1>1. cells \in FirstCells .. MaxCells
  BY DEF TypeOK
<1>2. cells \in Nat /\ FirstCells <= cells /\ cells <= MaxCells
  BY <1>1, ConstantTypes
<1>3. ASSUME NEW w \in Ids
      PROVE  /\ worker[w] \in WorkerType /\ worker[w].reserved \in Nat
             /\ worker[w].patience \in Nat /\ worker[w].cargo \in Loads
             /\ worker[w].cargo.nutrient \in Nutrients /\ worker[w].cargo.amount \in Nat
  <2>1. worker[w] \in WorkerType
    BY DEF TypeOK
  <2> QED BY <2>1, ConstantTypes DEF WorkerType, Loads
<1>4. ASSUME NEW s \in DOMAIN sites
      PROVE  /\ sites[s] \in SiteType /\ sites[s].nutrient \in Nutrients
             /\ sites[s].amount \in Nat /\ sites[s].reserved \in Nat /\ sites[s].known \in BOOLEAN
  <2>1. sites[s] \in SiteType
    BY DEF TypeOK
  <2> QED BY <2>1, LargestFacts DEF SiteType
<1>5. ASSUME NEW i \in DOMAIN granary
      PROVE  /\ granary[i] \in HeapType /\ granary[i].cell \in Nat /\ granary[i].cell > 0
             /\ granary[i].nutrient \in Nutrients
             /\ granary[i].amount \in Nat /\ granary[i].amount <= GrainsPerCell
  <2>1. granary \in Seq(HeapType)
    BY DEF TypeOK
  <2>2. granary[i] \in HeapType
    BY <2>1
  <2> QED BY <1>2, <2>2, ConstantTypes DEF HeapType
<1>6. \A n \in Nutrients : stores[n] \in Nat /\ carried[n] \in Nat
  BY DEF TypeOK
<1> QED BY <1>2, <1>3, <1>4, <1>5, <1>6

\* Both shares of the cells grow with the cells, and together are all of them.
LEMMA SharesGrow ==
  ASSUME NEW c \in Nat, NEW d \in Nat, c <= d
  PROVE  /\ SugarCells(c) \in Nat /\ SugarCells(c) <= c
         /\ SugarCells(c) <= SugarCells(d) /\ c - SugarCells(c) <= d - SugarCells(d)
BY DEF SugarCells

\* What the cells hold in all, and for each nutrient.
LEMMA Capacity ==
  ASSUME TypeOK
  PROVE  /\ \A n \in Nutrients : Allowed(n) \in Nat /\ CapacityFor(n) \in Nat
         /\ Allowed("sugar") + Allowed("protein") = cells
<1>1. cells \in Nat /\ GrainsPerCell \in Nat
  BY StateTypes, ConstantTypes
<1>2. SugarCells(cells) \in Nat /\ SugarCells(cells) <= cells
  BY <1>1, SharesGrow
<1>3. ASSUME NEW n \in Nutrients PROVE Allowed(n) \in Nat /\ CapacityFor(n) \in Nat
  <2>1. Allowed(n) \in Nat
    BY <1>1, <1>2 DEF Allowed
  <2> QED BY <1>1, <2>1 DEF CapacityFor
<1> QED BY <1>1, <1>2, <1>3 DEF Allowed

\* The claims on a site, as a sum over all workers.
LEMMA ClaimsAreSums ==
  ASSUME TypeOK, NEW s, NEW ids \in SUBSET Ids
  PROVE  ClaimsOn(s, ids) = SumOf(Claims(worker, s), ids)
BY ClaimsSum DEF ClaimsOn, TypeOK

\* What some workers carry, as a sum over them.
LEMMA CargoIsSum ==
  ASSUME TypeOK, NEW n, NEW ids \in SUBSET Ids
  PROVE  CargoOf(n, ids) = SumOf(Burdens(worker, n), ids)
BY BurdensSum DEF CargoOf, TypeOK

\* release_reservation takes the worker's own claim off its site, and nothing else.
LEMMA ReleasedFacts ==
  ASSUME TypeOK, ReservationsAreClaims, NEW w \in Ids
  PROVE  /\ DOMAIN Released(w) = DOMAIN sites /\ Released(w) \in [DOMAIN sites -> SiteType]
         /\ \A s \in DOMAIN sites :
              /\ Released(w)[s].amount = sites[s].amount
              /\ Released(w)[s].known = sites[s].known
              /\ Released(w)[s].nutrient = sites[s].nutrient
              /\ Released(w)[s].reserved = sites[s].reserved - ClaimOf(worker[w], s)
<1>1. \A s \in DOMAIN sites :
        /\ sites[s].reserved \in Nat /\ ClaimOf(worker[w], s) \in Nat
        /\ ClaimOf(worker[w], s) <= sites[s].reserved
        /\ sites[s] \in SiteType
  <2> SUFFICES ASSUME NEW s \in DOMAIN sites
               PROVE  /\ sites[s].reserved \in Nat /\ ClaimOf(worker[w], s) \in Nat
                      /\ ClaimOf(worker[w], s) <= sites[s].reserved
                      /\ sites[s] \in SiteType
    OBVIOUS
  <2>1. worker \in [Ids -> WorkerType] /\ worker[w] \in WorkerType
    BY DEF TypeOK
  <2>2. ClaimOf(worker[w], s) \in Nat /\ ClaimOf(worker[w], s) <= SumOf(Claims(worker, s), Ids)
    BY <2>1, ClaimsMove
  <2>3. sites[s].reserved = SumOf(Claims(worker, s), Ids)
    BY ClaimsAreSums DEF ReservationsAreClaims
  <2> QED BY <2>2, <2>3, StateTypes
<1>2. worker[w].reserved \in Nat
  BY StateTypes
<1>3. \A s \in DOMAIN sites : s = worker[w].source =>
        Max({0, sites[s].reserved - worker[w].reserved}) = sites[s].reserved - ClaimOf(worker[w], s)
  BY <1>1, <1>2, MaxOfTwo DEF ClaimOf
<1>4. CASE worker[w].reserved > 0 /\ worker[w].source \in DOMAIN sites
  <2> DEFINE s == worker[w].source
  <2>1. Released(w) = [sites EXCEPT ![s] =
                         [sites[s] EXCEPT !.reserved = sites[s].reserved - ClaimOf(worker[w], s)]]
    BY <1>3, <1>4 DEF Released
  <2>2. \A t \in DOMAIN sites : t # s => ClaimOf(worker[w], t) = 0
    BY DEF ClaimOf
  <2>3. sites \in [DOMAIN sites -> SiteType]
    BY DEF TypeOK
  <2>4. [sites[s] EXCEPT !.reserved = sites[s].reserved - ClaimOf(worker[w], s)] \in SiteType
    BY <1>1, <1>4 DEF SiteType
  <2> QED BY <1>1, <1>4, <2>1, <2>2, <2>3, <2>4 DEF SiteType
<1>5. CASE ~(worker[w].reserved > 0 /\ worker[w].source \in DOMAIN sites)
  <2>1. Released(w) = sites
    BY <1>5 DEF Released
  <2>2. \A t \in DOMAIN sites : ClaimOf(worker[w], t) = 0
    BY <1>2, <1>5 DEF ClaimOf
  <2> QED BY <1>1, <2>1, <2>2 DEF TypeOK
<1> QED BY <1>4, <1>5

\* One worker's change keeps the claims when its site's count moves with its claim.
LEMMA ClaimsKept ==
  ASSUME TypeOK, ReservationsAreClaims, NEW w \in Ids, NEW f \in WorkerType,
         worker' = [worker EXCEPT ![w] = f],
         DOMAIN sites' = DOMAIN sites,
         \A s \in DOMAIN sites :
           /\ sites'[s].reserved = sites[s].reserved - ClaimOf(worker[w], s) + ClaimOf(f, s)
           /\ sites'[s].reserved <= sites'[s].amount
           /\ sites[s].known => sites'[s].known,
         f.reserved > 0 => f.state = "ToSource" /\ f.source \in DOMAIN sites
                           /\ sites'[f.source].known
  PROVE  ReservationsAreClaims'
<1>1. worker \in [Ids -> WorkerType] /\ worker' \in [Ids -> WorkerType]
  BY DEF TypeOK
<1>2. \A s \in DOMAIN sites : sites'[s].reserved = ClaimsOn(s, Ids)'
  <2> SUFFICES ASSUME NEW s \in DOMAIN sites PROVE sites'[s].reserved = ClaimsOn(s, Ids)'
    OBVIOUS
  <2>1. ClaimsOn(s, Ids)' = SumOf(Claims(worker', s), Ids)
    BY <1>1, ClaimsSum DEF ClaimsOn
  <2>2. sites[s].reserved = SumOf(Claims(worker, s), Ids)
    BY ClaimsAreSums DEF ReservationsAreClaims
  <2>3. SumOf(Claims(worker', s), Ids)
          = SumOf(Claims(worker, s), Ids) - ClaimOf(worker[w], s) + ClaimOf(f, s)
    <3>1. worker'[w] = f /\ \A v \in Ids : v # w => worker'[v] = worker[v]
      BY <1>1
    <3>2. SumOf(Claims(worker', s), Ids)
            = SumOf(Claims(worker, s), Ids) - ClaimOf(worker[w], s) + ClaimOf(worker'[w], s)
      BY ONLY <1>1, <3>1, w \in Ids, ClaimsMove
    <3> QED BY <3>1, <3>2
  <2> QED BY <2>1, <2>2, <2>3
<1>3. \A v \in Ids : worker'[v].reserved > 0 =>
        /\ worker'[v].state = "ToSource"
        /\ worker'[v].source \in DOMAIN sites /\ sites'[worker'[v].source].known
  <2> SUFFICES ASSUME NEW v \in Ids, worker'[v].reserved > 0
               PROVE  /\ worker'[v].state = "ToSource"
                      /\ worker'[v].source \in DOMAIN sites /\ sites'[worker'[v].source].known
    OBVIOUS
  <2>1. CASE v = w
    BY <1>1, <2>1
  <2>2. CASE v # w
    BY <1>1, <2>2 DEF ReservationsAreClaims
  <2> QED BY <2>1, <2>2
<1> QED BY <1>2, <1>3 DEF ReservationsAreClaims

\* One worker's change keeps carried_food_ when that moves with its load.
LEMMA CargoKept ==
  ASSUME TypeOK, CargoOK, NEW w \in Ids, NEW f \in WorkerType,
         worker' = [worker EXCEPT ![w] = f],
         \A n \in Nutrients : carried'[n] = carried[n] - LoadOf(worker[w], n) + LoadOf(f, n)
  PROVE  CargoOK' /\ \A n \in Nutrients : LoadOf(worker[w], n) <= carried[n]
<1>1. worker \in [Ids -> WorkerType] /\ worker' \in [Ids -> WorkerType]
  BY DEF TypeOK
<1> SUFFICES ASSUME NEW n \in Nutrients
             PROVE  carried'[n] = InCargo(n)' /\ LoadOf(worker[w], n) <= carried[n]
  BY DEF CargoOK
<1>2. InCargo(n)' = SumOf(Burdens(worker', n), Ids)
  BY <1>1, BurdensSum DEF CargoOf, InCargo
<1>3. carried[n] = SumOf(Burdens(worker, n), Ids)
  BY CargoIsSum DEF CargoOK, InCargo
<1>4. /\ SumOf(Burdens(worker', n), Ids)
         = SumOf(Burdens(worker, n), Ids) - LoadOf(worker[w], n) + LoadOf(f, n)
      /\ LoadOf(worker[w], n) <= SumOf(Burdens(worker, n), Ids)
  <2>1. worker'[w] = f /\ \A v \in Ids : v # w => worker'[v] = worker[v]
    BY <1>1
  <2>2. /\ SumOf(Burdens(worker', n), Ids)
             = SumOf(Burdens(worker, n), Ids) - LoadOf(worker[w], n) + LoadOf(worker'[w], n)
        /\ LoadOf(worker[w], n) <= SumOf(Burdens(worker, n), Ids)
    BY ONLY <1>1, <2>1, w \in Ids, BurdensMove
  <2> QED BY <2>1, <2>2
<1> QED BY <1>2, <1>3, <1>4

\* The other workers stay sound.
LEMMA SoundKept ==
  ASSUME TypeOK, WorkersOK, NEW w \in Ids, NEW f \in WorkerType, Sound(f),
         worker' = [worker EXCEPT ![w] = f]
  PROVE  WorkersOK'
BY DEF WorkersOK, TypeOK, Sound

\* What the sites hold, as a sum over them.
LEMMA SitesSum ==
  ASSUME TypeOK
  PROVE  /\ IsFiniteSet(DOMAIN sites)
         /\ InSites = SumOf(Amounts(sites), DOMAIN sites) /\ InSites \in Nat
<1>1. lastSite \in Nat /\ DOMAIN sites \subseteq 1 .. lastSite
  BY ConstantTypes DEF TypeOK
<1>2. IsFiniteSet(1 .. lastSite)
  BY <1>1, FS_Interval
<1>3. IsFiniteSet(DOMAIN sites)
  BY <1>1, <1>2, FS_Subset
<1>4. InSites = SumOf(Amounts(sites), DOMAIN sites)
  BY TotalIsSum DEF InSites, Amounts
<1>5. \A s \in DOMAIN sites : Amounts(sites)[s] \in Nat
  BY StateTypes DEF Amounts
<1>6. SumOf(Amounts(sites), DOMAIN sites) \in Nat
  BY <1>3, <1>5, SumNat
<1> QED BY <1>3, <1>4, <1>6

\* What lies dropped, as a sum.
LEMMA DroppedSum ==
  ASSUME TypeOK
  PROVE  /\ DOMAIN dropped = 1 .. Len(dropped) /\ Len(dropped) \in Nat
         /\ IsFiniteSet(DOMAIN dropped)
         /\ \A i \in DOMAIN dropped : dropped[i] \in Loads /\ dropped[i].amount \in Nat
         /\ InDropped = SumOf(Amounts(dropped), DOMAIN dropped) /\ InDropped \in Nat
<1>1. dropped \in Seq(Loads)
  BY DEF TypeOK
<1>2. DOMAIN dropped = 1 .. Len(dropped) /\ Len(dropped) \in Nat
  BY <1>1
<1>3. IsFiniteSet(DOMAIN dropped)
  BY <1>2, FS_Interval
<1>4. \A i \in DOMAIN dropped : dropped[i] \in Loads /\ dropped[i].amount \in Nat
  <2>1. \A i \in DOMAIN dropped : dropped[i] \in Loads
    BY <1>1, <1>2
  <2> QED BY <2>1 DEF Loads
<1>5. InDropped = SumOf(Amounts(dropped), DOMAIN dropped)
  BY TotalIsSum DEF InDropped, Amounts
<1>6. \A i \in DOMAIN dropped : Amounts(dropped)[i] \in Nat
  BY <1>4 DEF Amounts
<1>7. SumOf(Amounts(dropped), DOMAIN dropped) \in Nat
  <2> DEFINE D == DOMAIN dropped
             f == Amounts(dropped)
  <2>1. IsFiniteSet(D) /\ \A i \in D : f[i] \in Nat
    BY <1>3, <1>6
  <2> HIDE DEF D, f
  <2>2. SumOf(f, D) \in Nat
    BY ONLY <2>1, SumNat
  <2> QED BY <2>2 DEF D, f
<1> QED BY <1>2, <1>3, <1>4, <1>5, <1>7

\* The parts of the food and their sum are numbers.
LEMMA FoodIsNumber ==
  ASSUME TypeOK
  PROVE  Both(carried) \in Nat /\ Both(stores) \in Nat /\ Food \in Nat
<1>1. Both(carried) \in Nat /\ Both(stores) \in Nat
  BY StateTypes DEF Both, Nutrients
<1> QED BY <1>1, SitesSum, DroppedSum DEF Food

\* What lies at the sites depends on their amounts alone.
LEMMA SitesKept ==
  ASSUME DOMAIN sites' = DOMAIN sites, \A s \in DOMAIN sites : sites'[s].amount = sites[s].amount
  PROVE  InSites' = InSites
<1>1. [s \in DOMAIN sites' |-> sites'[s].amount] = [s \in DOMAIN sites |-> sites[s].amount]
  OBVIOUS
<1> QED BY <1>1 DEF InSites

\* What depends on the heaps alone stays when they do.
LEMMA StockKept ==
  ASSUME StockOK, HeapsApart, UNCHANGED <<granary, stores, cells>>
  PROVE  StockOK' /\ HeapsApart'
BY DEF StockOK, HeapsApart, CapacityFor, Allowed, Heaps

\* The types after a worker's turn.
LEMMA TypeKept ==
  ASSUME TypeOK, NEW w \in Ids, NEW f \in WorkerType, turn' = w + 1,
         worker' = [worker EXCEPT ![w] = f], sites' \in [DOMAIN sites -> SiteType],
         UNCHANGED <<lastSite, cells>>, scouts' \in 0 .. Max({ScoutCap, Workers}),
         granary' \in Seq(HeapType), dropped' \in Seq(Loads),
         stores' \in [Nutrients -> Nat], carried' \in [Nutrients -> Nat], counted' \in Int
  PROVE  TypeOK'
<1>1. turn' \in 0 .. Workers + 1
  BY ConstantTypes DEF Ids
<1>2. lastSite' \in 0 .. SourceIds /\ cells' \in FirstCells .. MaxCells
  BY DEF TypeOK
<1>3. /\ sites' \in [DOMAIN sites' -> SiteType] /\ DOMAIN sites' = DOMAIN sites
      /\ DOMAIN sites' \subseteq 1 .. lastSite' /\ Cardinality(DOMAIN sites') <= MaxSources
  BY DEF TypeOK
<1>4. worker' \in [Ids -> WorkerType]
  BY DEF TypeOK
<1>5. HeapType' = HeapType
  BY DEF HeapType
<1>6. granary' \in Seq(HeapType')
  BY <1>5
<1> QED BY <1>1, <1>2, <1>3, <1>4, <1>6 DEF TypeOK

\* A turn in which no food moves and a claim is at most given up keeps everything.
LEMMA QuietTurn ==
  ASSUME FoodInv, NEW w \in Ids, NEW f \in WorkerType, turn' = w + 1,
         worker' = [worker EXCEPT ![w] = f], Sound(f), f.cargo = worker[w].cargo,
         FoodKept, Kept, scouts' \in 0 .. Max({ScoutCap, Workers}),
         sites' \in [DOMAIN sites -> SiteType],
         \A s \in DOMAIN sites :
           /\ sites'[s].amount = sites[s].amount
           /\ sites[s].known => sites'[s].known
           /\ sites'[s].reserved = sites[s].reserved - ClaimOf(worker[w], s) + ClaimOf(f, s),
         f.reserved > 0 => /\ f.state = "ToSource" /\ f.reserved = worker[w].reserved
                           /\ f.source = worker[w].source
  PROVE  FoodInv' /\ Balanced
<1> USE DEF FoodInv
<1>1. TypeOK'
  <2>1. /\ UNCHANGED <<lastSite, cells>> /\ counted' \in Int
        /\ granary' \in Seq(HeapType) /\ dropped' \in Seq(Loads)
        /\ stores' \in [Nutrients -> Nat] /\ carried' \in [Nutrients -> Nat]
    BY DEF TypeOK, FoodKept, Kept
  <2> QED BY <2>1, TypeKept
<1>2. CargoOK'
  <2>1. \A n \in Nutrients : carried'[n] = carried[n] - LoadOf(worker[w], n) + LoadOf(f, n)
    BY StateTypes DEF FoodKept, LoadOf
  <2> QED BY <2>1, CargoKept
<1>3. StockOK' /\ HeapsApart'
  BY StockKept DEF FoodKept, Kept
<1>4. ReservationsAreClaims'
  <2>1. \A s \in DOMAIN sites : ClaimOf(f, s) <= ClaimOf(worker[w], s)
    BY StateTypes, ConstantTypes DEF ClaimOf, WorkerType
  <2>2. \A s \in DOMAIN sites :
          /\ ClaimOf(f, s) \in Int /\ ClaimOf(worker[w], s) \in Int
          /\ sites[s].reserved \in Int /\ sites[s].amount \in Int
          /\ sites[s].reserved <= sites[s].amount
    BY StateTypes, ConstantTypes DEF ClaimOf, WorkerType, ReservationsAreClaims
  <2>3. \A s \in DOMAIN sites : sites'[s].reserved <= sites'[s].amount
    BY <2>1, <2>2
  <2>4. f.reserved > 0 => f.source \in DOMAIN sites /\ sites'[f.source].known
    BY DEF ReservationsAreClaims
  <2> QED BY <2>3, <2>4, ClaimsKept
<1>5. WorkersOK'
  BY SoundKept
<1>6. Balanced
  <2>1. InSites' = InSites
    BY SitesKept
  <2>2. counted' = 0 /\ UNCHANGED <<carried, stores, dropped>>
    BY DEF FoodKept
  <2>3. Food \in Int
    BY FoodIsNumber
  <2> QED BY <2>1, <2>2, <2>3 DEF Balanced, Food, Both, InDropped
<1> QED BY <1>1, <1>2, <1>3, <1>4, <1>5, <1>6

-----------------------------------------------------------------------------
(* The turns in which no food moves *)

\* release_reservation leaves the worker without a claim.
LEMMA WaitsType ==
  ASSUME FoodInv, NEW w \in Ids
  PROVE  /\ Waits(w) \in WorkerType /\ Sound(Waits(w)) /\ Waits(w).cargo = worker[w].cargo
         /\ Waits(w).reserved = 0 /\ \A s : ClaimOf(Waits(w), s) = 0
<1>1. worker[w] \in WorkerType
  BY StateTypes DEF FoodInv
<1>2. Waits(w) \in WorkerType
  <2>1. "AtHome" \in States /\ 0 \in 0 .. SourceIds /\ 0 \in 0 .. Carry /\ 0 \in 0 .. Patience
    BY ConstantTypes DEF States
  <2> DEFINE S == 0 .. SourceIds
             C == 0 .. Carry
             P == 0 .. Patience
             M == 0 .. MaxCells
  <2>2. worker[w] \in [state : States, source : S, reserved : C, patience : P,
                      cargo : Loads, cell : M]
    BY <1>1 DEF WorkerType
  <2>3. "AtHome" \in States /\ 0 \in S /\ 0 \in C /\ 0 \in P
    BY <2>1
  <2> HIDE DEF S, C, P, M
  <2>4. Waits(w) \in [state : States, source : S, reserved : C, patience : P,
                     cargo : Loads, cell : M]
    BY ONLY <2>2, <2>3 DEF Waits
  <2> QED BY <2>4 DEF WorkerType, S, C, P, M
<1>3. Waits(w).state = "AtHome" /\ Waits(w).cargo = worker[w].cargo /\ Waits(w).reserved = 0
  BY <1>1 DEF Waits, WorkerType
<1> QED BY <1>2, <1>3 DEF ClaimOf, Sound

\* scouting_workers_ as a turn leaves it.
LEMMA ScoutsType ==
  ASSUME TypeOK, UNCHANGED scouts \/ (scouts < ScoutCap /\ scouts' = scouts + 1)
  PROVE  scouts' \in 0 .. Max({ScoutCap, Workers})
<1>1. Max({ScoutCap, Workers}) \in Int /\ ScoutCap <= Max({ScoutCap, Workers})
  BY ConstantTypes, MaxOfTwo
<1>2. scouts \in 0 .. Max({ScoutCap, Workers})
  BY DEF TypeOK
<1> QED BY <1>1, <1>2, ConstantTypes

\* Sites that are left alone.
LEMMA SitesAlone ==
  ASSUME FoodInv, NEW w \in Ids, NEW f \in WorkerType, UNCHANGED sites,
         f.source = worker[w].source, f.reserved = worker[w].reserved
  PROVE  /\ sites' \in [DOMAIN sites -> SiteType]
         /\ \A s \in DOMAIN sites :
              /\ sites'[s].amount = sites[s].amount
              /\ sites[s].known => sites'[s].known
              /\ sites'[s].reserved = sites[s].reserved - ClaimOf(worker[w], s) + ClaimOf(f, s)
<1>1. \A s \in DOMAIN sites : sites[s].reserved \in Nat /\ ClaimOf(worker[w], s) \in Nat
  BY StateTypes DEF FoodInv, ClaimOf
<1>2. \A s \in DOMAIN sites : ClaimOf(f, s) = ClaimOf(worker[w], s)
  BY DEF ClaimOf
<1> QED BY <1>1, <1>2 DEF FoodInv, TypeOK

\* A turn that does nothing.
LEMMA PassKeeps ==
  ASSUME FoodInv, NEW w \in Ids, Pass(w)
  PROVE  FoodInv' /\ Balanced
<1> DEFINE f == worker[w]
<1>1. f \in WorkerType /\ Sound(f)
  BY StateTypes DEF FoodInv, WorkersOK
<1>2. worker' = [worker EXCEPT ![w] = f]
  BY DEF Pass, FoodInv, TypeOK
<1>3. scouts' \in 0 .. Max({ScoutCap, Workers})
  BY ScoutsType DEF Pass, FoodInv
<1>4. turn' = w + 1 /\ FoodKept /\ Kept /\ UNCHANGED sites
  BY DEF Pass
<1>5. f.reserved > 0 => f.state = "ToSource"
  BY DEF FoodInv, ReservationsAreClaims
<1> QED BY <1>1, <1>2, <1>3, <1>4, <1>5, SitesAlone, QuietTurn

\* A turn that gives up the worker's claim, or finds that it has none.
LEMMA GiveBackKeeps ==
  ASSUME FoodInv, NEW w \in Ids, turn' = w + 1, FoodKept, Kept, UNCHANGED scouts,
         sites' = Released(w), Becomes(w, Waits(w))
  PROVE  FoodInv' /\ Balanced
<1>1. /\ Waits(w) \in WorkerType /\ Sound(Waits(w)) /\ Waits(w).cargo = worker[w].cargo
      /\ Waits(w).reserved = 0 /\ \A s : ClaimOf(Waits(w), s) = 0
  BY WaitsType
<1>2. scouts' \in 0 .. Max({ScoutCap, Workers})
  BY ScoutsType DEF FoodInv
<1>3. /\ sites' \in [DOMAIN sites -> SiteType]
      /\ \A s \in DOMAIN sites :
           /\ sites'[s].amount = sites[s].amount
           /\ sites[s].known => sites'[s].known
           /\ sites'[s].reserved = sites[s].reserved - ClaimOf(worker[w], s)
  BY ReleasedFacts DEF FoodInv
<1>4. \A s \in DOMAIN sites : sites[s].reserved \in Int /\ ClaimOf(worker[w], s) \in Int
  BY StateTypes DEF FoodInv, ClaimOf
<1>5. \A s \in DOMAIN sites :
        sites'[s].reserved = sites[s].reserved - ClaimOf(worker[w], s) + ClaimOf(Waits(w), s)
  BY <1>1, <1>3, <1>4
<1> DEFINE f == Waits(w)
<1>6. /\ f \in WorkerType /\ Sound(f) /\ f.cargo = worker[w].cargo
      /\ worker' = [worker EXCEPT ![w] = f] /\ ~(f.reserved > 0)
  BY <1>1 DEF Becomes
<1>7. \A s \in DOMAIN sites :
        sites'[s].reserved = sites[s].reserved - ClaimOf(worker[w], s) + ClaimOf(f, s)
  BY <1>5
<1> HIDE DEF f
<1> QED BY <1>2, <1>3, <1>6, <1>7, QuietTurn

\* A step on the way changes no claim and no load.
LEMMA WalkKeeps ==
  ASSUME FoodInv, NEW w \in Ids, Walk(w)
  PROVE  FoodInv' /\ Balanced
<1>1. CASE worker[w].patience = 0 /\ sites' = Released(w) /\ Becomes(w, Waits(w))
  BY <1>1, GiveBackKeeps DEF Walk, Turn
<1>2. CASE /\ worker[w].patience > 0 /\ UNCHANGED sites
           /\ Becomes(w, [worker[w] EXCEPT !.patience = @ - 1])
  <2> DEFINE f == [worker[w] EXCEPT !.patience = @ - 1]
  <2>1. worker[w] \in WorkerType /\ Sound(worker[w]) /\ worker[w].state = "ToSource"
    BY StateTypes DEF FoodInv, WorkersOK, Walk
  <2>2. /\ f \in WorkerType /\ f.cargo = worker[w].cargo /\ f.reserved = worker[w].reserved
        /\ f.source = worker[w].source /\ f.state = worker[w].state
    BY <1>2, <2>1, ConstantTypes DEF WorkerType
  <2>3. Sound(f)
    BY <2>1, <2>2 DEF Sound
  <2>4. scouts' \in 0 .. Max({ScoutCap, Workers})
    BY ScoutsType DEF Walk, FoodInv
  <2>5. turn' = w + 1 /\ FoodKept /\ Kept /\ worker' = [worker EXCEPT ![w] = f]
    BY <1>2 DEF Walk, Turn, Becomes
  <2> HIDE DEF f
  <2> QED BY <1>2, <2>1, <2>2, <2>3, <2>4, <2>5, SitesAlone, QuietTurn
<1> QED BY <1>1, <1>2 DEF Walk

\* A forager that gives up returns exactly its claim.
LEMMA GiveUpKeeps ==
  ASSUME FoodInv, NEW w \in Ids, GiveUp(w)
  PROVE  FoodInv' /\ Balanced
BY GiveBackKeeps DEF GiveUp, Turn

\* A turn in which the worker only changes what it does, or the heap it is bound for.
LEMMA ErrandKeeps ==
  ASSUME FoodInv, NEW w \in Ids, NEW f \in WorkerType, turn' = w + 1, FoodKept, Kept,
         UNCHANGED sites, UNCHANGED scouts \/ (scouts < ScoutCap /\ scouts' = scouts + 1),
         worker[w].state # "ToSource", f.state # "ToSource",
         f.cargo = worker[w].cargo, f.reserved = worker[w].reserved,
         f.source = worker[w].source, Sound(f), Becomes(w, f)
  PROVE  FoodInv' /\ Balanced
<1>1. ~(f.reserved > 0)
  BY DEF FoodInv, ReservationsAreClaims
<1>2. scouts' \in 0 .. Max({ScoutCap, Workers})
  BY ScoutsType DEF FoodInv
<1>3. worker' = [worker EXCEPT ![w] = f]
  BY DEF Becomes
<1> QED BY <1>1, <1>2, <1>3, SitesAlone, QuietTurn

\* Coming home.
LEMMA ComeHomeKeeps ==
  ASSUME FoodInv, NEW w \in Ids, ComeHome(w)
  PROVE  FoodInv' /\ Balanced
<1> DEFINE f == [worker[w] EXCEPT !.state = "Storing"]
<1>1. worker[w] \in WorkerType /\ Sound(worker[w]) /\ worker[w].state = "Returning"
  BY StateTypes DEF FoodInv, WorkersOK, ComeHome
<1>2. /\ f \in WorkerType /\ f.cargo = worker[w].cargo /\ f.reserved = worker[w].reserved
      /\ f.source = worker[w].source /\ f.state = "Storing"
  BY <1>1 DEF WorkerType, States
<1>3. Sound(f)
  BY <1>1, <1>2 DEF Sound
<1>4. turn' = w + 1 /\ FoodKept /\ Kept /\ UNCHANGED <<sites, scouts>> /\ Becomes(w, f)
  BY DEF ComeHome, Turn
<1> HIDE DEF f
<1> QED BY <1>1, <1>2, <1>3, <1>4, ErrandKeeps

\* A load without a cell waits; nothing is lost by it.
LEMMA WaitForStorageKeeps ==
  ASSUME FoodInv, NEW w \in Ids, WaitForStorage(w)
  PROVE  FoodInv' /\ Balanced
<1> DEFINE f == [worker[w] EXCEPT !.state = "Waiting"]
<1>1. worker[w] \in WorkerType /\ Sound(worker[w]) /\ worker[w].state = "Storing"
  BY StateTypes DEF FoodInv, WorkersOK, WaitForStorage
<1>2. /\ f \in WorkerType /\ f.cargo = worker[w].cargo /\ f.reserved = worker[w].reserved
      /\ f.source = worker[w].source /\ f.state = "Waiting"
  BY <1>1 DEF WorkerType, States
<1>3. Sound(f)
  BY <1>1, <1>2 DEF Sound
<1>4. turn' = w + 1 /\ FoodKept /\ Kept /\ UNCHANGED <<sites, scouts>> /\ Becomes(w, f)
  BY DEF WaitForStorage, Turn
<1> HIDE DEF f
<1> QED BY <1>1, <1>2, <1>3, <1>4, ErrandKeeps

\* Wherever a load is bound for is a store cell.
LEMMA BoundType ==
  ASSUME TypeOK, NEW w \in Ids, NEW c \in Bound(w)
  PROVE  c \in 0 .. MaxCells
<1>1. worker[w].cell \in 0 .. MaxCells
  BY StateTypes DEF WorkerType
<1>2. 1 .. cells \subseteq 0 .. MaxCells
  BY StateTypes, ConstantTypes
<1> QED BY <1>1, <1>2 DEF Bound, StoreTargets

\* A cell is chosen for a load and holds nothing for it yet.
LEMMA ApproachKeeps ==
  ASSUME FoodInv, NEW w \in Ids, Approach(w)
  PROVE  FoodInv' /\ Balanced
<1>1. PICK c \in Bound(w) : Becomes(w, [worker[w] EXCEPT !.state = "Storing", !.cell = c])
  BY DEF Approach
<1> DEFINE f == [worker[w] EXCEPT !.state = "Storing", !.cell = c]
<1>2. /\ worker[w] \in WorkerType /\ Sound(worker[w])
      /\ worker[w].state \in {"Storing", "Waiting"} /\ c \in 0 .. MaxCells
  BY StateTypes, BoundType DEF FoodInv, WorkersOK, Approach, ReadyToStore
<1>3. /\ f \in WorkerType /\ f.cargo = worker[w].cargo /\ f.reserved = worker[w].reserved
      /\ f.source = worker[w].source /\ f.state = "Storing"
  BY <1>2 DEF WorkerType, States
<1>4. Sound(f)
  BY <1>2, <1>3 DEF Sound
<1>5. turn' = w + 1 /\ FoodKept /\ Kept /\ UNCHANGED <<sites, scouts>> /\ Becomes(w, f)
  BY <1>1 DEF Approach, Turn
<1> HIDE DEF f
<1> QED BY <1>2, <1>3, <1>4, <1>5, ErrandKeeps

\* Turning home with a load.
LEMMA TurnHomeKeeps ==
  ASSUME FoodInv, NEW w \in Ids, TurnHome(w)
  PROVE  FoodInv' /\ Balanced
<1> DEFINE f == [worker[w] EXCEPT !.state = "Returning"]
<1>1. worker[w] \in WorkerType /\ worker[w].state = "AtHome" /\ worker[w].cargo.amount > 0
  BY StateTypes DEF FoodInv, TurnHome, Loaded
<1>2. /\ f \in WorkerType /\ f.cargo = worker[w].cargo /\ f.reserved = worker[w].reserved
      /\ f.source = worker[w].source /\ f.state = "Returning"
  BY <1>1 DEF WorkerType, States
<1>3. Sound(f)
  BY <1>1, <1>2 DEF Sound
<1>4. turn' = w + 1 /\ FoodKept /\ Kept /\ UNCHANGED <<sites, scouts>> /\ Becomes(w, f)
  BY DEF TurnHome, Turn
<1> HIDE DEF f
<1> QED BY <1>1, <1>2, <1>3, <1>4, ErrandKeeps

\* Leaving to scout: the scouts stay within their number.
LEMMA StartScoutingKeeps ==
  ASSUME FoodInv, NEW w \in Ids, StartScouting(w)
  PROVE  FoodInv' /\ Balanced
<1> DEFINE f == [worker[w] EXCEPT !.state = "Scouting"]
<1>1. worker[w] \in WorkerType /\ worker[w].state = "AtHome"
  BY StateTypes DEF FoodInv, StartScouting
<1>2. /\ f \in WorkerType /\ f.cargo = worker[w].cargo /\ f.reserved = worker[w].reserved
      /\ f.source = worker[w].source /\ f.state = "Scouting"
  BY <1>1 DEF WorkerType, States
<1>3. Sound(f)
  BY <1>2 DEF Sound
<1>4. /\ turn' = w + 1 /\ FoodKept /\ Kept /\ UNCHANGED sites /\ Becomes(w, f)
      /\ scouts < ScoutCap /\ scouts' = scouts + 1
  BY DEF StartScouting, Turn
<1> HIDE DEF f
<1> QED BY <1>1, <1>2, <1>3, <1>4, ErrandKeeps

\* A site becomes known, with all its food.
LEMMA DiscoverKeeps ==
  ASSUME FoodInv, NEW w \in Ids, Discover(w)
  PROVE  FoodInv' /\ Balanced
<1> DEFINE f == [worker[w] EXCEPT !.state = "AtHome"]
<1>1. worker[w] \in WorkerType /\ worker[w].state = "Scouting"
  BY StateTypes DEF FoodInv, Discover
<1>2. /\ f \in WorkerType /\ f.cargo = worker[w].cargo /\ f.reserved = worker[w].reserved
      /\ f.source = worker[w].source /\ f.state = "AtHome"
  BY <1>1 DEF WorkerType, States
<1>3. Sound(f)
  BY <1>2 DEF Sound
<1>4. turn' = w + 1 /\ FoodKept /\ Kept /\ UNCHANGED scouts /\ Becomes(w, f)
  BY DEF Discover, Turn
<1>5. PICK t \in DOMAIN sites : sites' = Discovered(t)
  BY DEF Discover
<1>6. /\ sites' \in [DOMAIN sites -> SiteType]
      /\ \A s \in DOMAIN sites :
           /\ sites'[s].amount = sites[s].amount /\ sites'[s].reserved = sites[s].reserved
           /\ sites[s].known => sites'[s].known
  BY <1>5, StateTypes DEF Discovered, SiteType, FoodInv, TypeOK
<1>7. \A s \in DOMAIN sites :
        sites'[s].reserved = sites[s].reserved - ClaimOf(worker[w], s) + ClaimOf(f, s)
  BY <1>2, <1>6, StateTypes DEF FoodInv, ClaimOf
<1>8. scouts' \in 0 .. Max({ScoutCap, Workers})
  BY <1>4, ScoutsType DEF FoodInv
<1>9. ~(f.reserved > 0)
  BY <1>1, <1>2 DEF FoodInv, ReservationsAreClaims
<1> HIDE DEF f
<1> QED BY <1>2, <1>3, <1>4, <1>6, <1>7, <1>8, <1>9, QuietTurn DEF Becomes

\* The end of a tick rests: food is only moved in turns.
LEMMA EndTickKeeps ==
  ASSUME FoodInv, EndTick
  PROVE  FoodInv' /\ Balanced
<1> USE DEF EndTick, FoodInv, FoodKept, Kept
<1>1. TypeOK'
  <2>1. 0 \in 0 .. Workers + 1 /\ 0 \in Int
    BY ConstantTypes
  <2>2. HeapType' = HeapType
    BY DEF HeapType
  <2> QED BY <2>1, <2>2 DEF TypeOK
<1>2. CargoOK'
  BY DEF CargoOK, InCargo, CargoOf
<1>3. StockOK' /\ HeapsApart'
  BY StockKept
<1>4. ReservationsAreClaims' /\ WorkersOK'
  BY DEF ReservationsAreClaims, ClaimsOn, WorkersOK
<1>5. Balanced
  BY FoodIsNumber DEF Balanced, Food, InSites, InDropped, Both
<1> QED BY <1>1, <1>2, <1>3, <1>4, <1>5

-----------------------------------------------------------------------------
(* Choosing a site and picking up there *)

\* Sites that are emptied take what they held out of the sum.
LEMMA LostSum ==
  ASSUME TypeOK, NEW lost \in SUBSET DOMAIN sites, DOMAIN sites' = DOMAIN sites,
         \A s \in DOMAIN sites : sites'[s].amount = IF s \in lost THEN 0 ELSE sites[s].amount
  PROVE  /\ Total([s \in lost |-> sites[s].amount]) \in Int
         /\ InSites' = InSites - Total([s \in lost |-> sites[s].amount])
<1> DEFINE D == DOMAIN sites
           f == [s \in lost |-> sites[s].amount]
           h == [s \in D |-> IF s \in lost THEN sites[s].amount ELSE 0]
           old == Amounts(sites)
           new == [s \in D |-> sites'[s].amount]
<1>1. IsFiniteSet(D) /\ InSites = SumOf(old, D) /\ lost \in SUBSET D /\ DOMAIN f = lost
  BY SitesSum
<1>2. InSites' = SumOf(new, D)
  <2>1. InSites' = Total(new) /\ DOMAIN new = D
    BY DEF InSites
  <2> HIDE DEF new
  <2> QED BY <2>1, TotalIsSum
<1>3. \A s \in D : sites[s].amount \in Int
  BY StateTypes
<1>4. \A s \in lost : f[s] \in Int /\ h[s] = f[s]
  BY <1>3
<1>5. \A s \in D \ lost : h[s] = 0
  OBVIOUS
<1>6. \A s \in D : new[s] \in Int /\ h[s] \in Int /\ old[s] = new[s] + h[s]
  BY <1>3 DEF Amounts
<1> HIDE DEF f, h, old, new, D
<1>7. Total(f) = SumOf(f, lost)
  BY <1>1, TotalIsSum
<1>8. SumOf(f, lost) = SumOf(h, D)
  BY <1>1, <1>4, <1>5, SumPart
<1>9. SumOf(old, D) = SumOf(new, D) + SumOf(h, D)
  BY <1>1, <1>6, SumPlus
<1>10. SumOf(new, D) \in Int
  <2>1. \A s \in D : new[s] \in Int
    BY <1>6
  <2> QED BY <1>1, <2>1, SumType
<1>11. SumOf(h, D) \in Int
  <2>1. \A s \in D : h[s] \in Int
    BY <1>6
  <2> QED BY <1>1, <2>1, SumType
<1> QED BY <1>1, <1>2, <1>7, <1>8, <1>9, <1>10, <1>11 DEF f

\* What may be reserved is no more than the worker carries and the site has free.
LEMMA OfferFacts ==
  ASSUME TypeOK, NEW s \in DOMAIN sites
  PROVE  /\ Offer(s) \in Int /\ Offer(s) <= Carry
         /\ Offer(s) <= sites[s].amount - sites[s].reserved
<1> DEFINE n == sites[s].nutrient
           a == sites[s].amount - sites[s].reserved
           b == CapacityFor(n) - stores[n] - carried[n] - sites[s].reserved
<1>1. n \in Nutrients /\ sites[s].amount \in Int /\ sites[s].reserved \in Int
  BY StateTypes
<1>2. CapacityFor(n) \in Int /\ stores[n] \in Int /\ carried[n] \in Int
  BY <1>1, Capacity, StateTypes
<1>3. Carry \in Int /\ a \in Int /\ b \in Int
  BY <1>1, <1>2, ConstantTypes
<1> HIDE DEF a, b, n
<1>4. Min({Carry, a, b}) \in {Carry, a, b} /\ Min({Carry, a, b}) <= Carry /\ Min({Carry, a, b}) <= a
  BY <1>3, MinOfThree
<1>5. Offer(s) = Min({Carry, a, b})
  BY DEF Offer, a, b, n
<1> QED BY <1>3, <1>4, <1>5 DEF a

\* The new claim fits in what the other claims leave; emptied sites leave with their food counted.
LEMMA ChooseSourceKeeps ==
  ASSUME FoodInv, NEW w \in Ids, ChooseSource(w)
  PROVE  FoodInv' /\ Balanced
<1> USE DEF FoodInv
<1>1. PICK lost \in SUBSET {s \in DOMAIN sites : Losable(s)} :
        LET left == [s \in DOMAIN sites |->
                       IF s \in lost THEN [sites[s] EXCEPT !.amount = 0] ELSE sites[s]]
        IN  /\ counted' = -Total([s \in lost |-> sites[s].amount])
            /\ \/ sites' = left /\ Becomes(w, Waits(w))
               \/ \E s \in DOMAIN sites \ lost :
                    /\ Available(s) /\ Offer(s) > 0
                    /\ sites' = [left EXCEPT ![s].reserved = @ + Offer(s)]
                    /\ Becomes(w, [worker[w] EXCEPT !.state = "ToSource", !.source = s,
                                              !.reserved = Offer(s), !.patience = Patience])
  BY DEF ChooseSource
<1> DEFINE left == [s \in DOMAIN sites |->
                      IF s \in lost THEN [sites[s] EXCEPT !.amount = 0] ELSE sites[s]]
<1>2. \A s \in DOMAIN sites :
        /\ sites[s] \in SiteType /\ sites[s].amount \in Nat /\ sites[s].reserved \in Nat
        /\ sites[s].reserved <= sites[s].amount
        /\ s \in lost => sites[s].reserved = 0
  <2>1. \A s \in lost : s \in DOMAIN sites /\ sites[s].reserved <= 0
    BY <1>1 DEF Losable
  <2>2. \A s \in DOMAIN sites : sites[s].reserved <= sites[s].amount
    BY DEF ReservationsAreClaims
  <2> QED BY <2>1, <2>2, StateTypes
<1>3. /\ left \in [DOMAIN sites -> SiteType]
      /\ \A s \in DOMAIN sites :
           /\ left[s].amount = (IF s \in lost THEN 0 ELSE sites[s].amount)
           /\ left[s].reserved = sites[s].reserved /\ left[s].known = sites[s].known
  <2>1. 0 \in 0 .. Largest
    BY LargestFacts
  <2> QED BY <1>2, <2>1 DEF SiteType
<1>4. /\ worker[w] \in WorkerType /\ worker[w].state = "AtHome"
      /\ worker[w].cargo.amount = 0 /\ worker[w].reserved = 0
  <2>1. worker[w].state = "AtHome" /\ ~(worker[w].cargo.amount > 0)
    BY DEF ChooseSource, Loaded
  <2>2. worker[w].reserved > 0 => worker[w].state = "ToSource"
    BY DEF ReservationsAreClaims
  <2> QED BY <2>1, <2>2, StateTypes
<1>5. \A s : ClaimOf(worker[w], s) = 0
  BY <1>4 DEF ClaimOf
<1>6. /\ turn' = w + 1 /\ UNCHANGED <<scouts, granary, stores, carried, dropped, lastSite, cells>>
      /\ counted' = -Total([s \in lost |-> sites[s].amount])
  BY <1>1 DEF ChooseSource, Turn, Kept
<1>7. ASSUME NEW f \in WorkerType, Becomes(w, f), Sound(f), f.cargo = worker[w].cargo,
             sites' \in [DOMAIN sites -> SiteType],
             \A s \in DOMAIN sites :
               /\ sites'[s].amount = (IF s \in lost THEN 0 ELSE sites[s].amount)
               /\ sites[s].known => sites'[s].known
               /\ sites'[s].reserved = sites[s].reserved + ClaimOf(f, s)
               /\ sites'[s].reserved <= sites'[s].amount,
             f.reserved > 0 => f.state = "ToSource" /\ f.source \in DOMAIN sites
                               /\ sites'[f.source].known
      PROVE  FoodInv' /\ Balanced
  <2>1. InSites' = InSites + counted' /\ counted' \in Int
    <3>1. lost \in SUBSET DOMAIN sites /\ DOMAIN sites' = DOMAIN sites
      BY <1>1, <1>7
    <3>2. /\ Total([s \in lost |-> sites[s].amount]) \in Int
          /\ InSites' = InSites - Total([s \in lost |-> sites[s].amount])
      BY <1>7, <3>1, LostSum
    <3> QED BY <1>6, <3>2, SitesSum
  <2>2. TypeOK'
    <3>1. scouts' \in 0 .. Max({ScoutCap, Workers})
      BY <1>6, ScoutsType
    <3>2. /\ granary' \in Seq(HeapType) /\ dropped' \in Seq(Loads)
          /\ stores' \in [Nutrients -> Nat] /\ carried' \in [Nutrients -> Nat]
      BY <1>6 DEF TypeOK
    <3> QED BY <1>6, <1>7, <2>1, <3>1, <3>2, TypeKept DEF Becomes
  <2>3. CargoOK'
    <3>1. \A n \in Nutrients : carried'[n] = carried[n] - LoadOf(worker[w], n) + LoadOf(f, n)
      BY <1>6, <1>7, StateTypes DEF LoadOf
    <3> QED BY <1>7, <3>1, CargoKept DEF Becomes
  <2>4. StockOK' /\ HeapsApart'
    BY <1>6, StockKept
  <2>5. ReservationsAreClaims'
    <3>1. \A s \in DOMAIN sites :
            sites'[s].reserved = sites[s].reserved - ClaimOf(worker[w], s) + ClaimOf(f, s)
      BY <1>2, <1>5, <1>7
    <3> QED BY <1>7, <3>1, ClaimsKept DEF Becomes
  <2>6. WorkersOK'
    BY <1>7, SoundKept DEF Becomes
  <2>7. Balanced
    <3>1. carried' = carried /\ dropped' = dropped /\ stores' = stores
      BY <1>6
    <3>2. InDropped' = InDropped
      BY <3>1 DEF InDropped
    <3>3. /\ Food' = InSites' + Both(carried) + InDropped + Both(stores)
          /\ Food = InSites + Both(carried) + InDropped + Both(stores)
      BY <3>1, <3>2 DEF Food, Both
    <3>4. /\ InSites \in Int /\ InDropped \in Int
          /\ Both(carried) \in Int /\ Both(stores) \in Int
      BY FoodIsNumber, SitesSum, DroppedSum
    <3> QED BY ONLY <2>1, <3>3, <3>4 DEF Balanced
  <2> QED BY <2>2, <2>3, <2>4, <2>5, <2>6, <2>7
<1>8. CASE sites' = left /\ Becomes(w, Waits(w))
  <2> DEFINE f == Waits(w)
  <2>1. /\ f \in WorkerType /\ Sound(f) /\ f.cargo = worker[w].cargo
        /\ f.reserved = 0 /\ \A s : ClaimOf(f, s) = 0
    BY WaitsType
  <2>2. Becomes(w, f) /\ sites' \in [DOMAIN sites -> SiteType]
    BY <1>3, <1>8
  <2>3. \A s \in DOMAIN sites :
          /\ sites'[s].amount = (IF s \in lost THEN 0 ELSE sites[s].amount)
          /\ sites[s].known => sites'[s].known
          /\ sites'[s].reserved = sites[s].reserved + ClaimOf(f, s)
          /\ sites'[s].reserved <= sites'[s].amount
    BY <1>2, <1>3, <1>8, <2>1
  <2>4. ~(f.reserved > 0)
    BY <2>1
  <2> HIDE DEF f
  <2> QED BY <1>7, <2>1, <2>2, <2>3, <2>4
<1>9. CASE \E s \in DOMAIN sites \ lost :
             /\ Available(s) /\ Offer(s) > 0
             /\ sites' = [left EXCEPT ![s].reserved = @ + Offer(s)]
             /\ Becomes(w, [worker[w] EXCEPT !.state = "ToSource", !.source = s,
                                             !.reserved = Offer(s), !.patience = Patience])
  <2>1. PICK t \in DOMAIN sites \ lost :
             /\ Available(t) /\ Offer(t) > 0
             /\ sites' = [left EXCEPT ![t].reserved = @ + Offer(t)]
             /\ Becomes(w, [worker[w] EXCEPT !.state = "ToSource", !.source = t,
                                             !.reserved = Offer(t), !.patience = Patience])
    BY <1>9
  <2> DEFINE f == [worker[w] EXCEPT !.state = "ToSource", !.source = t,
                                    !.reserved = Offer(t), !.patience = Patience]
  <2>2. /\ Offer(t) \in Nat /\ 0 < Offer(t) /\ Offer(t) <= Carry
        /\ Offer(t) <= sites[t].amount - sites[t].reserved /\ t \in 0 .. SourceIds
    <3>1. t \in 1 .. lastSite /\ lastSite \in 0 .. SourceIds
      BY DEF TypeOK
    <3>2. t \in 0 .. SourceIds
      BY <3>1, ConstantTypes
    <3> QED BY <2>1, <3>2, OfferFacts
  <2>3. /\ f.state = "ToSource" /\ f.source = t /\ f.reserved = Offer(t)
        /\ f.cargo = worker[w].cargo
    BY <1>4 DEF WorkerType
  <2>4. f \in WorkerType
    <3> DEFINE S == 0 .. SourceIds
               C == 0 .. Carry
               P == 0 .. Patience
               M == 0 .. MaxCells
    <3>1. worker[w] \in [state : States, source : S, reserved : C, patience : P,
                        cargo : Loads, cell : M]
      BY <1>4 DEF WorkerType
    <3>2. "ToSource" \in States /\ t \in S /\ Offer(t) \in C /\ Patience \in P
      BY <2>2, ConstantTypes DEF States
    <3> HIDE DEF S, C, P, M
    <3>3. f \in [state : States, source : S, reserved : C, patience : P,
                 cargo : Loads, cell : M]
      BY ONLY <3>1, <3>2
    <3> QED BY <3>3 DEF WorkerType, S, C, P, M
  <2>5. Sound(f)
    BY <1>4, <2>2, <2>3 DEF Sound
  <2>6. \A s \in DOMAIN sites : ClaimOf(f, s) = IF s = t THEN Offer(t) ELSE 0
    BY <2>3 DEF ClaimOf
  <2> HIDE DEF f
  <2>7. /\ sites' \in [DOMAIN sites -> SiteType]
        /\ \A s \in DOMAIN sites :
             /\ sites'[s].amount = left[s].amount /\ sites'[s].known = left[s].known
             /\ sites'[s].reserved = left[s].reserved + IF s = t THEN Offer(t) ELSE 0
    <3>1. sites' = [left EXCEPT ![t] =
                      [left[t] EXCEPT !.reserved = left[t].reserved + Offer(t)]]
      BY <2>1
    <3>2. left[t] \in SiteType /\ t \in DOMAIN sites /\ left[t].reserved \in Nat
      BY <1>2, <1>3, <2>1
    <3>3. [left[t] EXCEPT !.reserved = left[t].reserved + Offer(t)] \in SiteType
      BY <2>2, <3>2 DEF SiteType
    <3>4. \A s \in DOMAIN sites : left[s] \in SiteType /\ left[s].reserved \in Nat
      BY <1>2, <1>3
    <3>5. left \in [DOMAIN sites -> SiteType]
      BY <1>3
    <3> HIDE DEF left
    <3> QED BY <3>1, <3>2, <3>3, <3>4, <3>5 DEF SiteType
  <2>8. \A s \in DOMAIN sites :
          /\ sites'[s].amount = (IF s \in lost THEN 0 ELSE sites[s].amount)
          /\ sites[s].known => sites'[s].known
          /\ sites'[s].reserved = sites[s].reserved + ClaimOf(f, s)
          /\ sites'[s].reserved <= sites'[s].amount
    <3>1. \A s \in DOMAIN sites : s = t => s \notin lost
      BY <2>1
    <3> HIDE DEF left
    <3> QED BY <1>2, <1>3, <2>2, <2>6, <2>7, <3>1
  <2>9. t \in DOMAIN sites /\ sites'[t].known
    <3>1. t \in DOMAIN sites /\ sites[t].known
      BY <2>1 DEF Available
    <3>2. sites[t].known => sites'[t].known
      BY <2>8, <3>1
    <3> QED BY <3>1, <3>2
  <2>10. Becomes(w, f)
    BY <2>1 DEF f
  <2>11. f.state = "ToSource" /\ f.source \in DOMAIN sites /\ sites'[f.source].known
    BY <2>3, <2>9
  <2>12. f.cargo = worker[w].cargo /\ sites' \in [DOMAIN sites -> SiteType]
    BY <2>3, <2>7
  <2> QED BY <1>7, <2>4, <2>5, <2>8, <2>10, <2>11, <2>12
<1> QED BY <1>1, <1>8, <1>9

\* One site's amount moves the sum of all.
LEMMA OneSiteChanges ==
  ASSUME TypeOK, NEW t \in DOMAIN sites, DOMAIN sites' = DOMAIN sites,
         sites'[t].amount \in Int,
         \A s \in DOMAIN sites : s # t => sites'[s].amount = sites[s].amount
  PROVE  InSites' = InSites - sites[t].amount + sites'[t].amount
<1> DEFINE D == DOMAIN sites
           old == Amounts(sites)
           new == [s \in D |-> sites'[s].amount]
<1>1. IsFiniteSet(D) /\ InSites = SumOf(old, D) /\ t \in D
  BY SitesSum
<1>2. InSites' = SumOf(new, D)
  <2>1. InSites' = Total(new) /\ DOMAIN new = D
    BY DEF InSites
  <2> HIDE DEF new
  <2> QED BY <2>1, TotalIsSum
<1>3. \A s \in D : sites[s].amount \in Int
  BY StateTypes
<1>4. old \in [D -> Int]
  BY <1>3 DEF Amounts
<1>5. new \in [D -> Int]
  BY <1>3
<1>6. SameBut(old, new, D, t)
  BY DEF Amounts, SameBut
<1>7. old[t] = sites[t].amount /\ new[t] = sites'[t].amount
  BY DEF Amounts
<1> HIDE DEF D, old, new
<1>8. SumOf(new, D) = SumOf(old, D) - old[t] + new[t]
  BY <1>1, <1>4, <1>5, <1>6, SumChange
<1> QED BY <1>1, <1>2, <1>7, <1>8

\* What leaves the site is in the grip, and the claim goes with it.
LEMMA PickUpKeeps ==
  ASSUME FoodInv, NEW w \in Ids, PickUp(w)
  PROVE  FoodInv' /\ Balanced
<1> USE DEF FoodInv
<1> DEFINE t == worker[w].source
           n == sites[t].nutrient
           load == worker[w].reserved
           f == [worker[w] EXCEPT !.state = "Returning", !.reserved = 0, !.patience = 0,
                                  !.cargo = [nutrient |-> n, amount |-> load]]
<1>1. /\ worker[w].state = "ToSource" /\ worker[w].reserved > 0
      /\ worker[w].cargo.amount = 0 /\ t \in DOMAIN sites /\ sites[t].known
  <2>1. worker[w].state = "ToSource" /\ Sound(worker[w])
    BY DEF PickUp, WorkersOK
  <2>2. worker[w].reserved > 0 /\ worker[w].cargo.amount = 0
    BY <2>1 DEF Sound
  <2> QED BY <2>1, <2>2 DEF ReservationsAreClaims
<1>2. /\ sites[t] \in SiteType /\ n \in Nutrients /\ load \in Nat /\ load <= Carry
      /\ sites[t].amount \in Nat /\ sites[t].reserved \in Nat /\ sites[t].amount <= Largest
      /\ worker[w] \in WorkerType
  <2>1. worker[w] \in WorkerType /\ load \in Nat
    BY StateTypes
  <2>2. load <= Carry
    BY <2>1, ConstantTypes DEF WorkerType
  <2>3. sites[t] \in SiteType
    BY <1>1, StateTypes
  <2>4. sites[t].amount \in 0 .. Largest
    BY <2>3 DEF SiteType
  <2> QED BY <1>1, <2>1, <2>2, <2>3, <2>4, StateTypes, LargestFacts
<1>3. load <= sites[t].reserved /\ sites[t].reserved <= sites[t].amount
  <2>1. /\ Released(w)[t].reserved = sites[t].reserved - ClaimOf(worker[w], t)
        /\ Released(w) \in [DOMAIN sites -> SiteType]
    BY <1>1, ReleasedFacts
  <2>2. ClaimOf(worker[w], t) = load
    BY DEF ClaimOf
  <2>3. Released(w)[t].reserved \in Nat
    BY <1>1, <2>1 DEF SiteType
  <2>4. sites[t].reserved <= sites[t].amount
    BY <1>1 DEF ReservationsAreClaims
  <2> HIDE DEF load
  <2> QED BY <1>2, <2>1, <2>2, <2>3, <2>4
<1>4. /\ Min({sites[t].amount, load}) = load
      /\ Max({0, sites[t].reserved - load}) = sites[t].reserved - load
  BY <1>2, <1>3, MinOfTwo, MaxOfTwo
<1> DEFINE e == [sites[t] EXCEPT !.amount = @ - load, !.reserved = sites[t].reserved - load]
<1>5. /\ sites' = [sites EXCEPT ![t] = e]
      /\ carried' = [carried EXCEPT ![n] = @ + load]
      /\ Becomes(w, f)
  <2> DEFINE l == Min({sites[t].amount, load})
             r == Max({0, sites[t].reserved - load})
  <2>1. /\ sites' = [sites EXCEPT ![t].amount = @ - l, ![t].reserved = Max({0, @ - load})]
        /\ carried' = [carried EXCEPT ![n] = @ + l]
        /\ Becomes(w, IF l <= 0 THEN Waits(w)
                      ELSE [worker[w] EXCEPT !.state = "Returning", !.reserved = 0, !.patience = 0,
                                             !.cargo = [nutrient |-> n, amount |-> l]])
    BY <1>1 DEF PickUp
  <2>2. [sites EXCEPT ![t].amount = @ - l, ![t].reserved = Max({0, @ - load})]
          = [sites EXCEPT ![t] = [sites[t] EXCEPT !.amount = @ - l, !.reserved = r]]
    BY <1>1, <1>2 DEF SiteType
  <2>3. l = load /\ r = sites[t].reserved - load /\ ~(l <= 0)
    BY <1>1, <1>2, <1>4
  <2> HIDE DEF l, r
  <2> QED BY <2>1, <2>2, <2>3
<1>6. /\ turn' = w + 1 /\ counted' = 0
      /\ UNCHANGED <<scouts, granary, stores, dropped, lastSite, cells>>
  BY DEF PickUp, Turn, Kept
<1>7. /\ sites' \in [DOMAIN sites -> SiteType]
      /\ sites'[t].amount = sites[t].amount - load
      /\ sites'[t].reserved = sites[t].reserved - load
      /\ sites'[t].known = sites[t].known
      /\ \A s \in DOMAIN sites : s # t => sites'[s] = sites[s]
  <2>1. sites' = [sites EXCEPT ![t] = e]
    BY <1>5
  <2>2. e \in SiteType
    <3> DEFINE A == 0 .. Largest
               a == sites[t].amount - load
               r == sites[t].reserved - load
    <3>1. a \in A /\ r \in Nat
      BY <1>2, <1>3, LargestFacts
    <3>2. sites[t] \in [nutrient : Nutrients, amount : A, reserved : Nat, known : BOOLEAN]
      BY <1>2 DEF SiteType
    <3> HIDE DEF A, a, r
    <3>3. [sites[t] EXCEPT !.amount = a, !.reserved = r]
            \in [nutrient : Nutrients, amount : A, reserved : Nat, known : BOOLEAN]
      BY ONLY <3>1, <3>2
    <3> QED BY <3>3 DEF A, a, r, SiteType
  <2>4. /\ e.amount = sites[t].amount - load
        /\ e.reserved = sites[t].reserved - load /\ e.known = sites[t].known
    BY <1>2 DEF SiteType
  <2>3. sites \in [DOMAIN sites -> SiteType]
    BY DEF TypeOK
  <2> HIDE DEF e
  <2> QED BY <1>1, <2>1, <2>2, <2>3, <2>4
<1>8. /\ f \in WorkerType /\ f.state = "Returning" /\ f.reserved = 0
      /\ f.cargo = [nutrient |-> n, amount |-> load]
  <2> DEFINE S == 0 .. SourceIds
             C == 0 .. Carry
             P == 0 .. Patience
             M == 0 .. MaxCells
             load1 == [nutrient |-> n, amount |-> load]
  <2>1. worker[w] \in [state : States, source : S, reserved : C, patience : P,
                      cargo : Loads, cell : M]
    BY <1>2 DEF WorkerType
  <2>2. "Returning" \in States /\ 0 \in C /\ 0 \in P /\ load1 \in Loads
    BY <1>2, ConstantTypes DEF States, Loads
  <2> HIDE DEF S, C, P, M, load1
  <2>3. [worker[w] EXCEPT !.state = "Returning", !.reserved = 0, !.patience = 0,
                          !.cargo = load1]
          \in [state : States, source : S, reserved : C, patience : P, cargo : Loads, cell : M]
    BY ONLY <2>1, <2>2
  <2>4. f \in WorkerType
    BY <2>3 DEF WorkerType, S, C, P, M, load1
  <2> QED BY <1>2, <2>4 DEF WorkerType
<1>9. Sound(f) /\ \A s : ClaimOf(f, s) = 0
  BY <1>1, <1>8 DEF Sound, ClaimOf
<1>10. \A m \in Nutrients : LoadOf(worker[w], m) = 0 /\ LoadOf(f, m) = IF m = n THEN load ELSE 0
  BY <1>1, <1>8 DEF LoadOf
<1>11. /\ carried' \in [Nutrients -> Nat] /\ carried \in [Nutrients -> Nat]
       /\ \A m \in Nutrients : carried'[m] = carried[m] + IF m = n THEN load ELSE 0
  <2>1. carried \in [Nutrients -> Nat]
    BY DEF TypeOK
  <2> HIDE DEF n, load
  <2> QED BY <1>2, <1>5, <2>1
<1> HIDE DEF f, t, n, load
<1>12. TypeOK'
  <2>1. scouts' \in 0 .. Max({ScoutCap, Workers})
    BY <1>6, ScoutsType
  <2>2. /\ granary' \in Seq(HeapType) /\ dropped' \in Seq(Loads)
        /\ stores' \in [Nutrients -> Nat] /\ counted' \in Int
    BY <1>6 DEF TypeOK
  <2> QED BY <1>5, <1>6, <1>7, <1>8, <1>11, <2>1, <2>2, TypeKept DEF Becomes
<1>13. CargoOK'
  <2>1. \A m \in Nutrients : carried'[m] = carried[m] - LoadOf(worker[w], m) + LoadOf(f, m)
    BY <1>2, <1>10, <1>11
  <2> QED BY <1>5, <1>8, <2>1, CargoKept DEF Becomes
<1>14. StockOK' /\ HeapsApart'
  BY <1>6, StockKept
<1>15. ReservationsAreClaims'
  <2>1. \A s \in DOMAIN sites : ClaimOf(worker[w], s) = IF s = t THEN load ELSE 0
    BY DEF ClaimOf, t, load
  <2>2. \A s \in DOMAIN sites :
          /\ sites'[s].reserved = sites[s].reserved - ClaimOf(worker[w], s) + ClaimOf(f, s)
          /\ sites'[s].reserved <= sites'[s].amount
          /\ sites[s].known => sites'[s].known
    <3> SUFFICES ASSUME NEW s \in DOMAIN sites
                 PROVE  /\ sites'[s].reserved
                             = sites[s].reserved - ClaimOf(worker[w], s) + ClaimOf(f, s)
                        /\ sites'[s].reserved <= sites'[s].amount
                        /\ sites[s].known => sites'[s].known
      OBVIOUS
    <3>1. sites[s].reserved \in Nat /\ sites[s].amount \in Nat /\ sites[s].reserved <= sites[s].amount
      BY StateTypes DEF ReservationsAreClaims
    <3>2. CASE s = t
      BY <1>2, <1>3, <1>7, <1>9, <2>1, <3>1, <3>2
    <3>3. CASE s # t
      BY <1>7, <1>9, <2>1, <3>1, <3>3
    <3> QED BY <3>2, <3>3
  <2>3. DOMAIN sites' = DOMAIN sites /\ ~(f.reserved > 0)
    BY <1>7, <1>8
  <2> QED BY <1>5, <1>8, <2>2, <2>3, ClaimsKept DEF Becomes
<1>16. WorkersOK'
  BY <1>5, <1>8, <1>9, SoundKept DEF Becomes
<1>17. Balanced
  <2>1. InSites' = InSites - load
    <3>1. InSites' = InSites - sites[t].amount + sites'[t].amount
      <4>1. DOMAIN sites' = DOMAIN sites /\ sites'[t].amount \in Int
        BY <1>2, <1>3, <1>7
      <4>2. \A s \in DOMAIN sites : s # t => sites'[s].amount = sites[s].amount
        BY <1>7
      <4> QED BY <1>1, <4>1, <4>2, OneSiteChanges DEF t
    <3> QED BY <1>2, <1>7, <3>1, SitesSum
  <2>2. Both(carried') = Both(carried) + load
    BY <1>2, <1>11 DEF Both, Nutrients
  <2>3. dropped' = dropped /\ stores' = stores /\ counted' = 0
    BY <1>6
  <2> QED BY <1>2, <2>1, <2>2, <2>3, FoodIsNumber, SitesSum, DroppedSum
          DEF Balanced, Food, InDropped
<1> QED BY <1>12, <1>13, <1>14, <1>15, <1>16, <1>17

-----------------------------------------------------------------------------
(* Heaps and the room for them *)

\* Products with one positive factor keep order.
LEMMA TimesLess ==
  ASSUME NEW a \in Nat, NEW b \in Nat, NEW c \in Nat, 0 < c
  PROVE  (a < b => a * c < b * c) /\ (a <= b => a * c <= b * c)
OBVIOUS

\* The heaps of each nutrient, counted and added up.
LEMMA HeapCounts ==
  ASSUME TypeOK
  PROVE  /\ DOMAIN granary = 1 .. Len(granary) /\ Len(granary) \in Nat
         /\ IsFiniteSet(DOMAIN granary)
         /\ \A n \in Nutrients :
              /\ Heaps(granary, n) \in SUBSET DOMAIN granary
              /\ IsFiniteSet(Heaps(granary, n)) /\ Cardinality(Heaps(granary, n)) \in Nat
              /\ Total([i \in Heaps(granary, n) |-> granary[i].amount])
                   = SumOf(Stock(granary, n), DOMAIN granary)
<1>1. DOMAIN granary = 1 .. Len(granary) /\ Len(granary) \in Nat
  BY DEF TypeOK
<1>2. IsFiniteSet(DOMAIN granary)
  BY <1>1, FS_Interval
<1>3. \A i \in DOMAIN granary : granary[i].amount \in Nat
  BY StateTypes
<1>4. ASSUME NEW n \in Nutrients
      PROVE  /\ Heaps(granary, n) \in SUBSET DOMAIN granary
             /\ IsFiniteSet(Heaps(granary, n)) /\ Cardinality(Heaps(granary, n)) \in Nat
             /\ Total([i \in Heaps(granary, n) |-> granary[i].amount])
                  = SumOf(Stock(granary, n), DOMAIN granary)
  <2>1. Heaps(granary, n) \in SUBSET DOMAIN granary
    BY DEF Heaps
  <2>2. IsFiniteSet(Heaps(granary, n))
    BY <1>2, <2>1, FS_Subset
  <2>3. Cardinality(Heaps(granary, n)) \in Nat
    BY <2>2, FS_CardinalityType
  <2>4. Total([i \in Heaps(granary, n) |-> granary[i].amount])
          = SumOf(Stock(granary, n), DOMAIN granary)
    BY <1>2, <1>3, HeapsSum
  <2> QED BY <2>1, <2>2, <2>3, <2>4
<1> QED BY <1>1, <1>2, <1>4

\* What lies at a cell.
Here(c) == Total([i \in HeapAt(c) |-> granary[i].amount])

\* The heap at a cell, if there is one.
LEMMA HeapAtOne ==
  ASSUME TypeOK, HeapsApart, NEW c
  PROVE  \/ HeapAt(c) = {} /\ Here(c) = 0
         \/ \E i \in DOMAIN granary :
              HeapAt(c) = {i} /\ granary[i].cell = c /\ Here(c) = granary[i].amount
<1> DEFINE f == [i \in HeapAt(c) |-> granary[i].amount]
<1>1. Total(f) = SumOf(f, HeapAt(c))
  <2>1. DOMAIN f = HeapAt(c)
    OBVIOUS
  <2> HIDE DEF f
  <2> QED BY <2>1, TotalIsSum
<1>2. CASE HeapAt(c) = {}
  <2> HIDE DEF f
  <2>1. SumOf(f, {}) = 0
    BY SumEmpty
  <2> QED BY <1>1, <1>2, <2>1 DEF f, Here
<1>3. CASE HeapAt(c) # {}
  <2>1. PICK i : i \in HeapAt(c)
    BY <1>3
  <2>2. i \in DOMAIN granary /\ granary[i].cell = c
    BY <2>1 DEF HeapAt
  <2>3. HeapAt(c) = {i}
    BY <2>1, <2>2 DEF HeapAt, HeapsApart
  <2>4. f[i] = granary[i].amount /\ f[i] \in Int
    BY <2>1, <2>2, StateTypes
  <2> HIDE DEF f
  <2>5. SumOf(f, {i}) = f[i]
    <3>1. IsFiniteSet({i}) /\ i \in {i} /\ {i} \ {i} = {} /\ \A x \in {i} : f[x] \in Int
      BY <2>4, FS_Singleton
    <3>2. SumOf(f, {i}) = f[i] + SumOf(f, {i} \ {i})
      BY ONLY <3>1, SumTake
    <3> QED BY <2>4, <3>1, <3>2, SumEmpty
  <2> QED BY <1>1, <2>2, <2>3, <2>4, <2>5 DEF f, Here
<1> QED BY <1>2, <1>3

\* A cell that accepts a nutrient holds at most a heap of it, with room left.
LEMMA AcceptsFacts ==
  ASSUME TypeOK, HeapsApart, NEW n \in Nutrients, NEW c, Accepts(c, n)
  PROVE  \/ /\ ~Taken(c) /\ c \in 1 .. cells
            /\ Cardinality(Heaps(granary, n)) < Allowed(n)
         \/ \E i \in Heaps(granary, n) :
              HeapAt(c) = {i} /\ granary[i].cell = c /\ granary[i].amount < GrainsPerCell
<1>1. CASE ~Taken(c)
  BY <1>1 DEF Accepts, CellsLeft
<1>2. CASE Taken(c)
  <2>1. PICK i \in HeapAt(c) : granary[i].nutrient = n /\ granary[i].amount < GrainsPerCell
    BY <1>2 DEF Accepts
  <2>2. PICK j \in HeapAt(c) : granary[j].amount > 0
    BY <1>2 DEF Taken
  <2>3. i \in DOMAIN granary /\ j \in DOMAIN granary /\ granary[i].cell = c /\ granary[j].cell = c
    BY DEF HeapAt
  <2>4. i = j
    BY <2>3 DEF HeapsApart
  <2>5. i \in Heaps(granary, n)
    BY <2>1, <2>2, <2>3, <2>4 DEF Heaps
  <2>6. HeapAt(c) = {i}
    BY <2>3 DEF HeapAt, HeapsApart
  <2> QED BY <2>1, <2>3, <2>5, <2>6
<1> QED BY <1>1, <1>2

\* While a cell accepts a nutrient, its share of the cells is not full.
LEMMA RoomLeft ==
  ASSUME FoodInv, NEW n \in Nutrients, NEW c, Accepts(c, n)
  PROVE  stores[n] < CapacityFor(n)
<1> DEFINE D == Heaps(granary, n)
           f == [i \in D |-> granary[i].amount]
           k == Cardinality(D)
<1>1. /\ IsFiniteSet(D) /\ k \in Nat /\ k <= Allowed(n) /\ Allowed(n) \in Nat
      /\ GrainsPerCell \in Int /\ GrainsPerCell \in Nat /\ 0 < GrainsPerCell
  <2>1. k <= Allowed(n)
    BY DEF FoodInv, StockOK
  <2>2. IsFiniteSet(D) /\ k \in Nat
    BY HeapCounts DEF FoodInv
  <2>3. Allowed(n) \in Nat
    BY Capacity DEF FoodInv
  <2> QED BY <2>1, <2>2, <2>3, ConstantTypes
<1>2. \A i \in D : f[i] \in Int /\ f[i] <= GrainsPerCell
  BY StateTypes DEF FoodInv, Heaps
<1>3. stores[n] = SumOf(f, D)
  <2>1. stores[n] = Total(f) /\ DOMAIN f = D
    BY DEF FoodInv, StockOK
  <2> HIDE DEF f, D
  <2> QED BY <2>1, TotalIsSum
<1>4. \/ k < Allowed(n)
      \/ \E i \in D : f[i] < GrainsPerCell
  BY AcceptsFacts DEF FoodInv
<1>5. CapacityFor(n) = Allowed(n) * GrainsPerCell
  BY DEF CapacityFor
<1> HIDE DEF D, f
<1>6. SumOf(f, D) <= k * GrainsPerCell /\ \A i \in D : f[i] < GrainsPerCell => SumOf(f, D) < k * GrainsPerCell
  BY <1>1, <1>2, SumAtMost
<1>7. SumOf(f, D) \in Int
  <2>1. \A i \in D : f[i] \in Int
    BY <1>2
  <2> QED BY <1>1, <2>1, SumType
<1>8. k * GrainsPerCell <= Allowed(n) * GrainsPerCell
      /\ (k < Allowed(n) => k * GrainsPerCell < Allowed(n) * GrainsPerCell)
      /\ k * GrainsPerCell \in Int /\ Allowed(n) * GrainsPerCell \in Int
  BY <1>1, TimesLess
<1> HIDE DEF k
<1> QED BY <1>3, <1>4, <1>5, <1>6, <1>7, <1>8

\* When no cell is offered, every cell of the share holds a full heap.
LEMMA NoRoomLeft ==
  ASSUME FoodInv, NEW n \in Nutrients, StoreTargets(n) = {}
  PROVE  stores[n] = CapacityFor(n)
<1> USE DEF FoodInv
<1> DEFINE D == Heaps(granary, n)
           f == [i \in D |-> granary[i].amount]
<1>1. ASSUME NEW i \in D PROVE f[i] = GrainsPerCell
  <2> DEFINE c == granary[i].cell
  <2>1. /\ i \in DOMAIN granary /\ granary[i].nutrient = n /\ granary[i].amount > 0
        /\ granary[i].amount \in Nat /\ granary[i].amount <= GrainsPerCell
    BY StateTypes DEF Heaps
  <2>2. c \in 1 .. cells
    BY <2>1, StateTypes DEF HeapType
  <2>3. i \in HeapAt(c) /\ Taken(c)
    BY <2>1 DEF HeapAt, Taken
  <2>4. ~Accepts(c, n)
    BY <2>2, <2>3 DEF StoreTargets
  <2>5. ~(granary[i].amount < GrainsPerCell)
    BY <2>1, <2>3, <2>4 DEF Accepts
  <2> QED BY <2>1, <2>5, ConstantTypes
<1>2. IsFiniteSet(D) /\ Cardinality(D) \in Nat /\ Cardinality(D) <= Allowed(n) /\ Allowed(n) \in Nat
  BY HeapCounts, Capacity DEF StockOK
<1>3. Cardinality(D) = Allowed(n)
  <2> SUFFICES ASSUME Cardinality(D) < Allowed(n) PROVE FALSE
    BY <1>2
  <2>1. CellsLeft(n)
    BY DEF CellsLeft
  <2>2. \A c \in 1 .. cells : Taken(c)
    BY <2>1 DEF StoreTargets
  <2> DEFINE H == Heaps(granary, "sugar") \cup Heaps(granary, "protein")
             at == [i \in H |-> granary[i].cell]
  <2>3. IsFiniteSet(H)
        /\ Cardinality(H) <= Cardinality(Heaps(granary, "sugar")) + Cardinality(Heaps(granary, "protein"))
    <3>1. IsFiniteSet(Heaps(granary, "sugar")) /\ IsFiniteSet(Heaps(granary, "protein"))
      BY HeapCounts DEF Nutrients
    <3> DEFINE S == Heaps(granary, "sugar")
               T == Heaps(granary, "protein")
    <3> HIDE DEF S, T
    <3>2. IsFiniteSet(S) /\ IsFiniteSet(T)
      BY <3>1 DEF S, T
    <3>3. /\ IsFiniteSet(S \cup T)
          /\ Cardinality(S \cup T) = Cardinality(S) + Cardinality(T) - Cardinality(S \cap T)
      BY <3>2, FS_Union
    <3>4. IsFiniteSet(S \cap T)
      BY <3>2, FS_Intersection
    <3>5. /\ Cardinality(S) \in Nat /\ Cardinality(T) \in Nat
          /\ Cardinality(S \cap T) \in Nat
      BY <3>2, <3>4, FS_CardinalityType
    <3> QED BY <3>3, <3>5 DEF S, T
  <2>4. at \in Surjection(H, 1 .. cells)
    <3>1. \A i \in H : i \in DOMAIN granary /\ granary[i].cell \in 1 .. cells
      BY StateTypes DEF Heaps, HeapType
    <3>2. ASSUME NEW c \in 1 .. cells PROVE \E i \in H : at[i] = c
      <4>1. PICK i \in HeapAt(c) : granary[i].amount > 0
        BY <2>2 DEF Taken
      <4>2. i \in DOMAIN granary /\ granary[i].cell = c
        BY DEF HeapAt
      <4>3. granary[i].nutrient \in Nutrients
        BY <4>2, StateTypes
      <4>4. i \in H
        BY <4>1, <4>2, <4>3 DEF Heaps, Nutrients
      <4> QED BY <4>2, <4>4
    <3> QED BY <3>1, <3>2 DEF Surjection
  <2>5. cells \in Nat /\ Cardinality(1 .. cells) = cells
    <3>1. cells \in Nat
      BY StateTypes
    <3> QED BY <3>1, FS_Interval
  <2>6. Cardinality(1 .. cells) <= Cardinality(H)
    BY <2>3, <2>4, FS_Surjection
  <2>7. /\ Cardinality(Heaps(granary, "sugar")) <= Allowed("sugar")
        /\ Cardinality(Heaps(granary, "protein")) <= Allowed("protein")
        /\ Allowed("sugar") + Allowed("protein") = cells
        /\ Cardinality(Heaps(granary, "sugar")) \in Nat
        /\ Cardinality(Heaps(granary, "protein")) \in Nat
        /\ Allowed("sugar") \in Nat /\ Allowed("protein") \in Nat
    BY HeapCounts, Capacity DEF StockOK, Nutrients
  <2>8. n = "sugar" \/ n = "protein"
    BY DEF Nutrients
  <2>9. Cardinality(H) \in Nat
    BY <2>3, FS_CardinalityType
  <2> HIDE DEF H, at
  <2> QED BY <2>3, <2>5, <2>6, <2>7, <2>8, <2>9
<1>4. stores[n] = SumOf(f, D)
  <2>1. stores[n] = Total(f) /\ DOMAIN f = D
    BY DEF StockOK
  <2> HIDE DEF f, D
  <2> QED BY <2>1, TotalIsSum
<1>5. \A i \in D : f[i] = GrainsPerCell
  BY <1>1
<1>6. GrainsPerCell \in Int
  BY ConstantTypes
<1> HIDE DEF f, D
<1>7. SumOf(f, D) = Cardinality(D) * GrainsPerCell
  BY <1>2, <1>5, <1>6, SumConstant
<1> QED BY <1>3, <1>4, <1>7 DEF CapacityFor

\* A cell that a load is offered, or keeps, accepts it.
LEMMA BoundAccepts ==
  ASSUME NEW w \in Ids, NEW c \in Bound(w)
  PROVE  Accepts(c, worker[w].cargo.nutrient)
BY DEF Bound, StoreTargets, Accepts

\* A cell that accepts a nutrient gives room for some of it.
LEMMA PlacedFacts ==
  ASSUME FoodInv, NEW n \in Nutrients, NEW c, Accepts(c, n), NEW amount \in Nat
  PROVE  /\ Placed(c, n, amount) \in Nat /\ Placed(c, n, amount) <= amount
         /\ Here(c) + Placed(c, n, amount) <= GrainsPerCell
         /\ stores[n] + Placed(c, n, amount) <= CapacityFor(n)
         /\ amount > 0 => Placed(c, n, amount) > 0
<1> DEFINE here == Here(c)
           room == GrainsPerCell - here
           left == CapacityFor(n) - stores[n]
<1>1. here \in Nat /\ here < GrainsPerCell
      /\ ~\E i \in HeapAt(c) : granary[i].amount > 0 /\ granary[i].nutrient # n
  <2>1. CASE ~Taken(c)
    <3>1. here = 0 \/ \E i \in DOMAIN granary : HeapAt(c) = {i} /\ here = granary[i].amount
      BY HeapAtOne DEF FoodInv
    <3>2. \A i \in HeapAt(c) : i \in DOMAIN granary /\ ~(granary[i].amount > 0)
      BY <2>1 DEF Taken, HeapAt
    <3>3. here = 0
      BY <3>1, <3>2, StateTypes DEF FoodInv
    <3> QED BY <3>2, <3>3, ConstantTypes
  <2>2. CASE Taken(c)
    <3>1. PICK i \in Heaps(granary, n) :
            HeapAt(c) = {i} /\ granary[i].cell = c /\ granary[i].amount < GrainsPerCell
      BY <2>2, AcceptsFacts DEF FoodInv
    <3>2. here = granary[i].amount
      BY <3>1, HeapAtOne DEF FoodInv
    <3>3. granary[i].nutrient = n /\ granary[i].amount \in Nat
      BY <3>1, StateTypes DEF Heaps, FoodInv
    <3> QED BY <3>1, <3>2, <3>3
  <2> QED BY <2>1, <2>2
<1>2. left \in Int /\ left > 0
  <2>1. CapacityFor(n) \in Nat /\ stores[n] \in Nat
    BY Capacity, StateTypes DEF FoodInv
  <2> QED BY <2>1, RoomLeft
<1>3. room \in Int /\ room > 0
  BY <1>1, ConstantTypes
<1>4. Placed(c, n, amount) = Min({amount, room, left})
  BY <1>1 DEF Placed, Here
<1>5. CapacityFor(n) \in Nat /\ stores[n] \in Nat /\ GrainsPerCell \in Nat
  BY Capacity, StateTypes, ConstantTypes DEF FoodInv
<1> DEFINE put == Placed(c, n, amount)
<1>6. put \in {amount, room, left} /\ put <= amount /\ put <= room /\ put <= left
  <2> HIDE DEF room, left, put
  <2>1. amount \in Int
    OBVIOUS
  <2>2. Min({amount, room, left}) \in {amount, room, left} /\ Min({amount, room, left}) <= amount
        /\ Min({amount, room, left}) <= room /\ Min({amount, room, left}) <= left
    BY <1>2, <1>3, <2>1, MinOfThree
  <2> QED BY <1>4, <2>2 DEF put
<1> HIDE DEF here, put
<1> QED BY <1>1, <1>2, <1>3, <1>5, <1>6 DEF here, put

\* The amounts of heaps.
LEMMA HeapAmounts ==
  \A x \in HeapType : x.amount \in Nat /\ x.amount <= GrainsPerCell /\ x.nutrient \in Nutrients
BY ConstantTypes DEF HeapType

\* No two heaps of g lie at one cell.
Apart(g) == \A i, j \in DOMAIN g : g[i].cell = g[j].cell => i = j

\* h holds put more of n than g does, all of it at k.
Grown(g, h, k, n, put, m) ==
  /\ SumOf(Stock(h, m), DOMAIN h) = SumOf(Stock(g, m), DOMAIN g) + IF m = n THEN put ELSE 0
  /\ Heaps(h, m) \subseteq Heaps(g, m) \cup IF m = n THEN {k} ELSE {}

\* h is g with put of n on the heap at k.
Topped(g, h, k, n, put) ==
  /\ Len(h) = Len(g) /\ (g[k].nutrient = n \/ g[k].amount = 0)
  /\ h[k].cell = g[k].cell /\ h[k].nutrient = n /\ h[k].amount = g[k].amount + put
  /\ \A i \in 1 .. Len(g) : i # k => h[i] = g[i]

\* h is g with a heap of put of n after the last, at a cell of its own.
Started(g, h, l, n, put) ==
  /\ l = Len(g) + 1 /\ Len(h) = l /\ h[l].nutrient = n /\ h[l].amount = put
  /\ \A i \in 1 .. Len(g) : h[i] = g[i] /\ g[i].cell # h[l].cell

\* A load on a free cell starts a heap.
LEMMA HeapStarted ==
  ASSUME NEW g \in Seq(HeapType), NEW h \in Seq(HeapType), NEW l, NEW n \in Nutrients,
         NEW put \in Nat, Started(g, h, l, n, put), Apart(g)
  PROVE  Apart(h) /\ \A m \in Nutrients : Grown(g, h, l, n, put, m)
<1>0. /\ l = Len(g) + 1 /\ Len(h) = l /\ h[l].nutrient = n /\ h[l].amount = put
      /\ \A i \in 1 .. Len(g) : h[i] = g[i] /\ g[i].cell # h[l].cell
  BY DEF Started
<1> DEFINE D == 1 .. Len(g)
<1>1. DOMAIN g = D /\ DOMAIN h = D \cup {l} /\ l \notin D /\ Len(g) \in Nat
  BY <1>0
<1>2. \A i \in D : g[i].amount \in Nat
  <2>1. \A i \in D : g[i] \in HeapType
    BY ElementOfSeq
  <2> HIDE DEF D
  <2> QED BY <2>1, HeapAmounts
<1>3. IsFiniteSet(D)
  <2>1. 1 \in Int /\ Len(g) \in Int
    BY <1>1
  <2> QED BY ONLY <2>1, FS_Interval
<1>4. Apart(h)
  BY <1>0, <1>1 DEF Apart
<1>5. \A i \in D : h[i] = g[i]
  BY <1>0
<1> HIDE DEF D
<1>6. ASSUME NEW m \in Nutrients
      PROVE  /\ SumOf(Stock(h, m), D \cup {l})
                  = SumOf(Stock(g, m), D) + IF m = n THEN put ELSE 0
             /\ Heaps(h, m) \subseteq Heaps(g, m) \cup IF m = n THEN {l} ELSE {}
  <2> DEFINE a == Stock(g, m)
             b == Stock(h, m)
             p == IF m = n THEN put ELSE 0
  <2>1. \A i \in D : a[i] \in Int /\ a[i] = b[i]
    BY <1>1, <1>2, <1>5 DEF Stock, HeapOf
  <2>2. b[l] = p /\ p \in Int
    BY <1>0, <1>1 DEF Stock, HeapOf
  <2>3. Heaps(h, m) \subseteq Heaps(g, m) \cup IF m = n THEN {l} ELSE {}
    BY <1>0, <1>1, <1>5 DEF Heaps
  <2> HIDE DEF a, b, p
  <2>4. SumOf(a, D) = SumOf(b, D)
    BY <1>3, <2>1, SumAgree
  <2>5. SumOf(b, D \cup {l}) = SumOf(b, D) + b[l]
    <3>1. \A i \in D : b[i] \in Int
      BY <2>1
    <3>2. b[l] \in Int /\ l \notin D
      BY <1>1, <2>2
    <3> QED BY ONLY <1>3, <3>1, <3>2, SumAdd
  <2> QED BY <2>2, <2>3, <2>4, <2>5 DEF a, b, p
<1> QED BY <1>1, <1>4, <1>6 DEF Grown

\* A load on a heap of its nutrient, or on one that was eaten up, adds to it.
LEMMA HeapTopped ==
  ASSUME NEW g \in Seq(HeapType), NEW h \in Seq(HeapType), NEW n \in Nutrients,
         NEW put \in Nat, NEW k \in 1 .. Len(g), Topped(g, h, k, n, put), Apart(g)
  PROVE  Apart(h) /\ \A m \in Nutrients : Grown(g, h, k, n, put, m)
<1>0. /\ Len(h) = Len(g) /\ (g[k].nutrient = n \/ g[k].amount = 0)
      /\ h[k].cell = g[k].cell /\ h[k].nutrient = n /\ h[k].amount = g[k].amount + put
      /\ \A i \in 1 .. Len(g) : i # k => h[i] = g[i]
  BY DEF Topped
<1> DEFINE D == 1 .. Len(g)
<1>1. DOMAIN g = D /\ DOMAIN h = D /\ Len(g) \in Nat
  <2>1. Len(h) = Len(g)
    BY <1>0
  <2> QED BY <2>1
<1>2. \A i \in D : g[i].amount \in Nat /\ h[i].amount \in Nat
  <2>1. \A i \in D : g[i] \in HeapType /\ h[i] \in HeapType
    BY <1>1, ElementOfSeq
  <2> HIDE DEF D
  <2> QED BY <2>1, HeapAmounts
<1>3. IsFiniteSet(D)
  <2>1. 1 \in Int /\ Len(g) \in Int
    BY <1>1
  <2> QED BY ONLY <2>1, FS_Interval
<1> HIDE DEF D
<1>4. Apart(h)
  BY <1>0, <1>1 DEF D, Apart
<1>5. ASSUME NEW m \in Nutrients
      PROVE  /\ SumOf(Stock(h, m), D) = SumOf(Stock(g, m), D) + IF m = n THEN put ELSE 0
             /\ Heaps(h, m) \subseteq Heaps(g, m) \cup IF m = n THEN {k} ELSE {}
  <2> DEFINE a == Stock(g, m)
             b == Stock(h, m)
             p == IF m = n THEN put ELSE 0
  <2>1. SameBut(a, b, D, k)
    BY <1>0, <1>1 DEF Stock, HeapOf, D, SameBut
  <2>5. k \in D /\ p \in Int
    BY DEF D
  <2>2. b[k] = a[k] + p
    BY <1>1, <1>2, <1>0, <2>5 DEF Stock, HeapOf
  <2>3. a \in [D -> Int] /\ b \in [D -> Int]
    BY <1>1, <1>2 DEF Stock, HeapOf
  <2>4. \A i \in D : a[i] \in Int
    BY <2>3
  <2>6. Heaps(h, m) \subseteq Heaps(g, m) \cup IF m = n THEN {k} ELSE {}
    BY <1>0, <1>1 DEF Heaps, D
  <2> HIDE DEF a, b, p
  <2>7. SumOf(b, D) = SumOf(a, D) - a[k] + b[k]
    BY <1>3, <2>1, <2>3, <2>5, SumChange
  <2>8. SumOf(a, D) \in Int /\ a[k] \in Int
    BY <1>3, <2>4, <2>5, SumType
  <2>9. SumOf(b, D) = SumOf(a, D) + p
    BY <2>2, <2>5, <2>7, <2>8
  <2> QED BY <2>6, <2>9 DEF a, b, p
<1> QED BY <1>1, <1>4, <1>5 DEF Grown

\* deposit_food: what is set down is in the heaps, and no cell is taken from the other nutrient.
LEMMA HeapedFacts ==
  ASSUME FoodInv, NEW n \in Nutrients, NEW c, Accepts(c, n), NEW put \in Nat,
         Here(c) + put <= GrainsPerCell,
         NEW h, h = Heaped(c, n, put)
  PROVE  /\ h \in Seq(HeapType) /\ Apart(h)
         /\ \A m \in Nutrients :
              /\ SumOf(Stock(h, m), DOMAIN h)
                   = SumOf(Stock(granary, m), DOMAIN granary) + IF m = n THEN put ELSE 0
              /\ Cardinality(Heaps(h, m)) <= Allowed(m)
<1> USE DEF FoodInv
<1>1. granary \in Seq(HeapType) /\ Apart(granary)
  BY DEF TypeOK, HeapsApart, Apart
\* The number of heaps grows by at most the one at c, and then c was the nutrient's to take.
<1>2. ASSUME NEW k,
             \A m \in Nutrients :
               Heaps(h, m) \subseteq Heaps(granary, m) \cup IF m = n THEN {k} ELSE {},
             Cardinality(Heaps(granary, n)) < Allowed(n) \/ k \in Heaps(granary, n)
      PROVE  \A m \in Nutrients : Cardinality(Heaps(h, m)) <= Allowed(m)
  <2> SUFFICES ASSUME NEW m \in Nutrients PROVE Cardinality(Heaps(h, m)) <= Allowed(m)
    OBVIOUS
  <2> DEFINE S == Heaps(granary, m)
             T == Heaps(h, m)
  <2>1. /\ IsFiniteSet(S) /\ Cardinality(S) \in Nat /\ Allowed(m) \in Nat
        /\ Cardinality(S) <= Allowed(m)
    <3>1. Cardinality(S) <= Allowed(m)
      BY DEF StockOK
    <3> QED BY <3>1, HeapCounts, Capacity
  <2>2. T \subseteq S \cup IF m = n THEN {k} ELSE {}
    BY <1>2
  <2>3. m = n => Cardinality(S) < Allowed(m) \/ k \in S
    BY <1>2
  <2> HIDE DEF S, T
  <2>4. /\ IsFiniteSet(S \cup {k})
        /\ Cardinality(S \cup {k}) = IF k \in S THEN Cardinality(S) ELSE Cardinality(S) + 1
    BY <2>1, FS_AddElement
  <2>5. CASE m = n
    <3>1. T \in SUBSET (S \cup {k})
      BY <2>2, <2>5
    <3>2. Cardinality(T) <= Cardinality(S \cup {k}) /\ Cardinality(T) \in Nat
      BY <2>4, <3>1, FS_Subset, FS_CardinalityType
    <3> QED BY <2>1, <2>3, <2>4, <2>5, <3>2 DEF T
  <2>6. CASE m # n
    <3>1. T \in SUBSET S
      BY <2>2, <2>6
    <3>2. Cardinality(T) <= Cardinality(S) /\ Cardinality(T) \in Nat
      BY <2>1, <3>1, FS_Subset, FS_CardinalityType
    <3> QED BY <2>1, <3>2 DEF T
  <2> QED BY <2>5, <2>6
<1>3. CASE HeapAt(c) = {}
  <2>1. Here(c) = 0 /\ \A i \in DOMAIN granary : granary[i].cell # c
    BY <1>3, HeapAtOne DEF HeapAt
  <2>2. c \in 1 .. cells /\ Cardinality(Heaps(granary, n)) < Allowed(n)
    BY <1>3 DEF Accepts, Taken, CellsLeft
  <2>3. put \in 0 .. GrainsPerCell
    BY <2>1, ConstantTypes
  <2> DEFINE l == Len(granary) + 1
             e == [cell |-> c, nutrient |-> n, amount |-> put]
  <2>4. /\ h \in Seq(HeapType) /\ Len(h) = l /\ h[l].nutrient = n /\ h[l].amount = put
        /\ \A i \in 1 .. Len(granary) : h[i] = granary[i] /\ granary[i].cell # h[l].cell
    <3>1. h = Append(granary, e)
      BY <1>3 DEF Heaped
    <3>2. e \in HeapType /\ e.cell = c /\ e.nutrient = n /\ e.amount = put
      BY <2>2, <2>3 DEF HeapType
    <3> HIDE DEF e
    <3>3. /\ h \in Seq(HeapType) /\ Len(h) = l /\ h[l] = e
          /\ \A i \in 1 .. Len(granary) : h[i] = granary[i]
      BY <1>1, <3>1, <3>2
    <3> QED BY <2>1, <3>2, <3>3, HeapCounts
  <2>5. Apart(h) /\ \A m \in Nutrients : Grown(granary, h, l, n, put, m)
    <3>1. h \in Seq(HeapType) /\ Started(granary, h, l, n, put)
      BY <2>4 DEF Started
    <3> HIDE DEF l
    <3> QED BY ONLY <1>1, <3>1, n \in Nutrients, put \in Nat, HeapStarted
  <2>6. \A m \in Nutrients : Cardinality(Heaps(h, m)) <= Allowed(m)
    <3> HIDE DEF l
    <3> QED BY <1>2, <2>2, <2>5 DEF Grown
  <2> QED BY <2>4, <2>5, <2>6 DEF Grown
<1>4. CASE HeapAt(c) # {}
  <2>1. PICK k \in DOMAIN granary : HeapAt(c) = {k} /\ Here(c) = granary[k].amount
    BY <1>4, HeapAtOne
  <2>2. granary[k].amount \in Nat /\ granary[k].amount + put <= GrainsPerCell
    BY <2>1, StateTypes
  <2>3. /\ granary[k].nutrient = n \/ granary[k].amount = 0
        /\ Cardinality(Heaps(granary, n)) < Allowed(n) \/ k \in Heaps(granary, n)
    <3>1. CASE ~Taken(c)
      <4>1. granary[k].amount = 0
        BY <2>1, <2>2, <3>1 DEF Taken
      <4> QED BY <3>1, <4>1 DEF Accepts, CellsLeft
    <3>2. CASE Taken(c)
      <4>1. k \in Heaps(granary, n)
        BY <2>1, <3>2, AcceptsFacts
      <4> QED BY <4>1 DEF Heaps
    <3> QED BY <3>1, <3>2
  <2>4. /\ h \in Seq(HeapType) /\ Len(h) = Len(granary) /\ k \in 1 .. Len(granary)
        /\ h[k].cell = granary[k].cell /\ h[k].nutrient = n
        /\ h[k].amount = granary[k].amount + put
        /\ \A i \in 1 .. Len(granary) : i # k => h[i] = granary[i]
    <3> DEFINE e == [granary[k] EXCEPT !.nutrient = n, !.amount = @ + put]
    <3>1. h = [i \in DOMAIN granary |->
                 IF i = k THEN [granary[i] EXCEPT !.nutrient = n, !.amount = @ + put]
                 ELSE granary[i]]
      BY <1>4, <2>1 DEF Heaped
    <3>2. h = [granary EXCEPT ![k] = e]
      BY <3>1
    <3>3. granary[k] \in HeapType
      BY StateTypes
    <3>4. /\ e \in HeapType /\ e.cell = granary[k].cell /\ e.nutrient = n
          /\ e.amount = granary[k].amount + put
      <4> DEFINE C == 1 .. cells
                 G == 0 .. GrainsPerCell
                 a == granary[k].amount + put
      <4>1. granary[k] \in [cell : C, nutrient : Nutrients, amount : G]
        BY <3>3 DEF HeapType
      <4>2. a \in G
        BY <2>2, ConstantTypes
      <4> HIDE DEF C, G, a
      <4>3. [granary[k] EXCEPT !.nutrient = n, !.amount = a]
              \in [cell : C, nutrient : Nutrients, amount : G]
        BY ONLY <4>1, <4>2, n \in Nutrients
      <4>4. e \in HeapType
        BY <4>3 DEF HeapType, C, G, a
      <4>5. e.cell = granary[k].cell /\ e.nutrient = n /\ e.amount = a
        BY <4>1 DEF a
      <4> QED BY <4>4, <4>5 DEF a
    <3>5. k \in 1 .. Len(granary)
      BY HeapCounts
    <3> HIDE DEF e
    <3>6. /\ [granary EXCEPT ![k] = e] \in Seq(HeapType)
          /\ Len([granary EXCEPT ![k] = e]) = Len(granary)
          /\ \A j \in 1 .. Len(granary) :
               [granary EXCEPT ![k] = e][j] = IF j = k THEN e ELSE granary[j]
      BY ONLY <1>1, <3>4, <3>5, ExceptSeq
    <3> QED BY <3>2, <3>4, <3>5, <3>6
  <2>5. Apart(h) /\ \A m \in Nutrients : Grown(granary, h, k, n, put, m)
    <3>1. granary[k].nutrient = n \/ granary[k].amount = 0
      BY <2>3
    <3>2. h \in Seq(HeapType) /\ k \in 1 .. Len(granary) /\ Topped(granary, h, k, n, put)
      BY <2>4, <3>1 DEF Topped
    <3> QED BY ONLY <1>1, <3>2, n \in Nutrients, put \in Nat, HeapTopped
  <2>6. \A m \in Nutrients : Cardinality(Heaps(h, m)) <= Allowed(m)
    BY <1>2, <2>3, <2>5 DEF Grown
  <2> QED BY <2>4, <2>5, <2>6 DEF Grown
<1> QED BY <1>3, <1>4

\* What leaves the grip is in a heap and in the counter of its nutrient.
LEMMA SetDownKeeps ==
  ASSUME FoodInv, NEW w \in Ids, SetDown(w)
  PROVE  FoodInv' /\ Balanced
<1> USE DEF FoodInv
<1> DEFINE n == worker[w].cargo.nutrient
           amount == worker[w].cargo.amount
<1>1. PICK c \in Bound(w) :
        LET put == Placed(c, n, amount)
            left == amount - put
        IN  /\ granary' = Heaped(c, n, put)
            /\ stores' = [stores EXCEPT ![n] = @ + put]
            /\ carried' = [carried EXCEPT ![n] = @ - put]
            /\ Becomes(w, IF left = 0 THEN [Idle EXCEPT !.cell = c]
                          ELSE [worker[w] EXCEPT !.state = "Storing", !.cell = c,
                                                 !.cargo.amount = left])
  BY DEF SetDown
<1> DEFINE put == Placed(c, n, amount)
           left == amount - put
           f == IF left = 0 THEN [Idle EXCEPT !.cell = c]
                ELSE [worker[w] EXCEPT !.state = "Storing", !.cell = c, !.cargo.amount = left]
<1>2. /\ granary' = Heaped(c, n, put) /\ stores' = [stores EXCEPT ![n] = @ + put]
      /\ carried' = [carried EXCEPT ![n] = @ - put] /\ Becomes(w, f)
  BY <1>1
<1>3. /\ turn' = w + 1 /\ counted' = 0
      /\ UNCHANGED <<sites, scouts, dropped, lastSite, cells>>
  BY DEF SetDown, Turn, Kept
<1>4. /\ worker[w] \in WorkerType /\ n \in Nutrients /\ amount \in Nat
      /\ Accepts(c, n) /\ c \in 0 .. MaxCells /\ worker[w].cargo \in Loads
      /\ worker[w].state \in {"Storing", "Waiting"}
  BY StateTypes, BoundAccepts, BoundType DEF SetDown, ReadyToStore
<1>5. worker[w].reserved = 0
  <2>1. worker[w].reserved > 0 => worker[w].state = "ToSource"
    BY DEF ReservationsAreClaims
  <2> QED BY <1>4, <2>1, StateTypes
<1>6. /\ put \in Nat /\ put <= amount /\ left \in Nat
      /\ Here(c) + put <= GrainsPerCell
      /\ stores[n] + put <= CapacityFor(n)
  BY <1>4, PlacedFacts
<1>7. /\ f \in WorkerType /\ Sound(f) /\ f.reserved = 0
      /\ \A m : LoadOf(f, m) = IF m = n THEN left ELSE 0
  <2>1. CASE left = 0
    <3>1. f = [Idle EXCEPT !.cell = c]
      BY <2>1
    <3>2. /\ f \in WorkerType /\ f.state = "AtHome" /\ f.reserved = 0
          /\ f.cargo.amount = 0
      <4> DEFINE S == 0 .. SourceIds
                 C == 0 .. Carry
                 P == 0 .. Patience
                 M == 0 .. MaxCells
      <4>1. f = [state |-> "AtHome", source |-> 0, reserved |-> 0, patience |-> 0,
                 cargo |-> NoLoad, cell |-> c]
        BY <3>1 DEF Idle
      <4>2. /\ "AtHome" \in States /\ 0 \in S /\ 0 \in C /\ 0 \in P /\ c \in M
            /\ NoLoad \in Loads /\ NoLoad.amount = 0
        BY <1>4, ConstantTypes DEF States, NoLoad, Loads, Nutrients
      <4> HIDE DEF f, S, C, P, M
      <4> QED BY <4>1, <4>2 DEF WorkerType, S, C, P, M
    <3> HIDE DEF f
    <3> QED BY <2>1, <3>2 DEF Sound, LoadOf
  <2>2. CASE left # 0
    <3> DEFINE load1 == [worker[w].cargo EXCEPT !.amount = left]
    <3>1. f = [worker[w] EXCEPT !.state = "Storing", !.cell = c, !.cargo = load1]
      BY <1>4, <2>2 DEF WorkerType
    <3>2. load1 \in Loads /\ load1.amount = left /\ load1.nutrient = n
      BY <1>4, <1>6 DEF Loads
    <3> HIDE DEF load1, f
    <3>3. /\ f \in WorkerType /\ f.state = "Storing" /\ f.cargo = load1
          /\ f.reserved = worker[w].reserved
      <4> DEFINE S == 0 .. SourceIds
                 C == 0 .. Carry
                 P == 0 .. Patience
                 M == 0 .. MaxCells
      <4>1. worker[w] \in [state : States, source : S, reserved : C, patience : P,
                          cargo : Loads, cell : M]
        BY <1>4 DEF WorkerType
      <4>2. "Storing" \in States /\ c \in M
        BY <1>4 DEF States
      <4> HIDE DEF S, C, P, M
      <4>3. f \in [state : States, source : S, reserved : C, patience : P,
                   cargo : Loads, cell : M]
        BY ONLY <3>1, <3>2, <4>1, <4>2
      <4>4. f.state = "Storing" /\ f.cargo = load1 /\ f.reserved = worker[w].reserved
        BY ONLY <3>1, <3>2, <4>1, <4>2
      <4> QED BY <4>3, <4>4 DEF WorkerType, S, C, P, M
    <3> QED BY <1>5, <1>6, <2>2, <3>2, <3>3 DEF Sound, LoadOf
  <2> QED BY <2>1, <2>2
<1>8. \A m : LoadOf(worker[w], m) = IF m = n THEN amount ELSE 0
  BY DEF LoadOf
<1>9. \A s : ClaimOf(worker[w], s) = 0 /\ ClaimOf(f, s) = 0
  BY <1>5, <1>7 DEF ClaimOf
<1>10. amount <= carried[n]
  <2>1. worker \in [Ids -> WorkerType]
    BY DEF TypeOK
  <2>2. carried[n] = SumOf(Burdens(worker, n), Ids)
    BY <1>4, CargoIsSum DEF CargoOK, InCargo
  <2>3. LoadOf(worker[w], n) <= SumOf(Burdens(worker, n), Ids)
    BY <2>1, BurdensMove
  <2> QED BY <1>8, <2>2, <2>3
<1> DEFINE h == granary'
<1>11. /\ h \in Seq(HeapType) /\ Apart(h)
       /\ \A m \in Nutrients :
            /\ SumOf(Stock(h, m), DOMAIN h)
                 = SumOf(Stock(granary, m), DOMAIN granary) + IF m = n THEN put ELSE 0
            /\ Cardinality(Heaps(h, m)) <= Allowed(m)
  <2>1. /\ n \in Nutrients /\ Accepts(c, n) /\ put \in Nat
        /\ Here(c) + put <= GrainsPerCell /\ h = Heaped(c, n, put)
    BY <1>2, <1>4, <1>6
  <2> HIDE DEF FoodInv, n, put, h
  <2> QED BY ONLY <2>1, FoodInv, HeapedFacts
<1> HIDE DEF f, put, left, n, amount
<1>12. /\ carried \in [Nutrients -> Nat] /\ carried' \in [Nutrients -> Nat]
       /\ stores \in [Nutrients -> Nat] /\ stores' \in [Nutrients -> Nat]
       /\ \A m \in Nutrients :
            /\ carried'[m] = carried[m] - IF m = n THEN put ELSE 0
            /\ stores'[m] = stores[m] + IF m = n THEN put ELSE 0
  <2>1. carried \in [Nutrients -> Nat] /\ stores \in [Nutrients -> Nat]
    BY DEF TypeOK
  <2>2. put \in Nat /\ put <= carried[n]
    BY <1>4, <1>6, <1>10, <2>1
  <2> QED BY <1>2, <1>4, <2>1, <2>2
<1>13. TypeOK'
  <2>1. scouts' \in 0 .. Max({ScoutCap, Workers})
    BY <1>3, ScoutsType
  <2>2. dropped' \in Seq(Loads) /\ counted' \in Int /\ sites' \in [DOMAIN sites -> SiteType]
    BY <1>3 DEF TypeOK
  <2> QED BY <1>2, <1>3, <1>7, <1>11, <1>12, <2>1, <2>2, TypeKept DEF Becomes
<1>14. CargoOK'
  <2>1. \A m \in Nutrients : carried'[m] = carried[m] - LoadOf(worker[w], m) + LoadOf(f, m)
    BY <1>4, <1>6, <1>7, <1>8, <1>12 DEF left
  <2> QED BY <1>2, <1>7, <2>1, CargoKept DEF Becomes
<1>15. HeapsApart' /\ StockOK'
  <2>1. HeapsApart'
    BY <1>11 DEF HeapsApart, Apart
  <2>2. ASSUME NEW m \in Nutrients
        PROVE  /\ stores'[m] = Total([i \in Heaps(granary', m) |-> granary'[i].amount])
               /\ stores'[m] <= CapacityFor(m)'
               /\ Cardinality(Heaps(granary', m)) <= Allowed(m)'
    <3>1. Allowed(m)' = Allowed(m) /\ CapacityFor(m)' = CapacityFor(m)
      BY <1>3 DEF Allowed, CapacityFor
    <3>2. stores[m] = SumOf(Stock(granary, m), DOMAIN granary)
      BY HeapCounts DEF StockOK
    <3>3. IsFiniteSet(DOMAIN h) /\ \A i \in DOMAIN h : h[i].amount \in Nat
      <4>1. DOMAIN h = 1 .. Len(h) /\ Len(h) \in Nat /\ \A i \in DOMAIN h : h[i] \in HeapType
        BY <1>11
      <4>2. IsFiniteSet(DOMAIN h)
        BY <4>1, FS_Interval
      <4> QED BY <4>1, <4>2, ConstantTypes DEF HeapType
    <3>4. Total([i \in Heaps(h, m) |-> h[i].amount]) = SumOf(Stock(h, m), DOMAIN h)
      BY <3>3, HeapsSum
    <3>5. stores[m] <= CapacityFor(m)
      BY DEF StockOK
    <3>6. stores'[m] <= CapacityFor(m)
      BY <1>6, <1>12, <3>5
    <3>7. /\ SumOf(Stock(h, m), DOMAIN h)
               = SumOf(Stock(granary, m), DOMAIN granary) + IF m = n THEN put ELSE 0
          /\ Cardinality(Heaps(h, m)) <= Allowed(m)
      BY <1>11
    <3> QED BY <1>12, <3>1, <3>2, <3>4, <3>6, <3>7
  <2> QED BY <2>1, <2>2 DEF StockOK
<1>16. ReservationsAreClaims'
  <2>1. \A s \in DOMAIN sites :
          /\ sites'[s].reserved = sites[s].reserved - ClaimOf(worker[w], s) + ClaimOf(f, s)
          /\ sites'[s].reserved <= sites'[s].amount
          /\ sites[s].known => sites'[s].known
    BY <1>3, <1>9, StateTypes DEF ReservationsAreClaims
  <2>2. DOMAIN sites' = DOMAIN sites /\ ~(f.reserved > 0)
    BY <1>3, <1>7
  <2> QED BY <1>2, <1>7, <2>1, <2>2, ClaimsKept DEF Becomes
<1>17. WorkersOK'
  BY <1>2, <1>7, SoundKept DEF Becomes
<1>18. Balanced
  <2>1. InSites' = InSites /\ dropped' = dropped /\ counted' = 0
    BY <1>3 DEF InSites
  <2>2. Both(carried') = Both(carried) - put /\ Both(stores') = Both(stores) + put
    BY <1>4, <1>6, <1>12 DEF Both, Nutrients
  <2> QED BY <1>6, <2>1, <2>2, FoodIsNumber, SitesSum, DroppedSum DEF Balanced, Food, InDropped
<1> QED BY <1>13, <1>14, <1>15, <1>16, <1>17, <1>18

-----------------------------------------------------------------------------
(* Loads picked up, decayed and dropped *)

\* What lies in a sequence of loads.
Lying(d) == SumOf(Amounts(d), DOMAIN d)

\* The loads of a sequence, as numbers.
LEMMA LyingFacts ==
  ASSUME NEW d \in Seq(Loads)
  PROVE  /\ Len(d) \in Nat /\ DOMAIN d = 1 .. Len(d) /\ IsFiniteSet(DOMAIN d)
         /\ Amounts(d) \in [1 .. Len(d) -> Nat]
         /\ \A i \in 1 .. Len(d) : d[i] \in Loads /\ Amounts(d)[i] = d[i].amount
         /\ Lying(d) \in Nat
<1>1. Len(d) \in Nat /\ DOMAIN d = 1 .. Len(d)
  OBVIOUS
<1>2. IsFiniteSet(DOMAIN d)
  BY <1>1, FS_Interval
<1>3. \A i \in 1 .. Len(d) : d[i] \in Loads
  OBVIOUS
<1>4. \A u \in Loads : u.amount \in Nat
  BY DEF Loads
<1>5. Amounts(d) \in [1 .. Len(d) -> Nat]
  BY <1>1, <1>3, <1>4 DEF Amounts
<1>6. \A i \in 1 .. Len(d) : Amounts(d)[i] = d[i].amount
  BY <1>1 DEF Amounts
<1>7. Lying(d) \in Nat
  <2> DEFINE f == Amounts(d)
             D == DOMAIN d
  <2>1. \A i \in D : f[i] \in Nat
    BY <1>1, <1>5
  <2>2. IsFiniteSet(D)
    BY <1>2
  <2> HIDE DEF f, D
  <2>3. SumOf(f, D) \in Nat
    BY ONLY <2>1, <2>2, SumNat
  <2> QED BY <2>3 DEF f, D, Lying
<1> QED BY <1>1, <1>2, <1>3, <1>5, <1>6, <1>7

\* The oldest loads taken off take what they held out of the sum.
LEMMA DropFirst ==
  ASSUME NEW d \in Seq(Loads), NEW k \in 0 .. Len(d)
  PROVE  /\ SubSeq(d, k + 1, Len(d)) \in Seq(Loads)
         /\ Total([i \in 1 .. k |-> d[i].amount]) \in Nat
         /\ Lying(SubSeq(d, k + 1, Len(d))) = Lying(d) - Total([i \in 1 .. k |-> d[i].amount])
<1> DEFINE n == Len(d)
           t == SubSeq(d, k + 1, n)
           f == Amounts(d)
           D == 1 .. k
           E == k + 1 .. n
           T == 1 .. n - k
           g == Amounts(t)
           h == [i \in D |-> d[i].amount]
           e == [i \in E |-> f[i]]
           p == [i \in T |-> i + k]
<1>1. n \in Nat /\ k \in Nat /\ k <= n /\ DOMAIN d = 1 .. n /\ f \in [1 .. n -> Nat]
      /\ \A i \in 1 .. n : d[i] \in Loads /\ f[i] = d[i].amount
  BY LyingFacts
<1>2. /\ t \in Seq(Loads) /\ Len(t) = n - k /\ \A i \in T : t[i] = d[i + k]
  <2>1. k + 1 \in Int /\ n \in Int /\ \A i \in k + 1 .. n : d[i] \in Loads
    BY <1>1
  <2>2. /\ t \in Seq(Loads) /\ Len(t) = IF k + 1 <= n THEN n - (k + 1) + 1 ELSE 0
        /\ \A i \in 1 .. n - (k + 1) + 1 : t[i] = d[k + 1 + i - 1]
    <3> HIDE DEF n
    <3> QED BY <2>1, SubSeqProperties
  <2>3. Len(t) = n - k
    <3> HIDE DEF t, n
    <3> QED BY ONLY <1>1, <2>2
  <2>4. \A i \in T : i \in 1 .. n - (k + 1) + 1 /\ k + 1 + i - 1 = i + k
    BY <1>1
  <2> QED BY <2>2, <2>3, <2>4
<1>3. DOMAIN t = T /\ g \in [T -> Nat] /\ \A i \in T : g[i] = t[i].amount
  <2>1. DOMAIN t = 1 .. Len(t) /\ g \in [1 .. Len(t) -> Nat]
        /\ \A i \in 1 .. Len(t) : g[i] = t[i].amount
    BY <1>2, LyingFacts
  <2> QED BY <1>2, <2>1
<1>4. IsFiniteSet(D) /\ IsFiniteSet(E) /\ IsFiniteSet(T)
  BY <1>1, FS_Interval
<1>5. D \cap E = {} /\ D \cup E = 1 .. n
  BY <1>1
<1>6. SumOf(f, 1 .. n) = SumOf(f, D) + SumOf(f, E)
  <2>1. \A x \in D \cup E : f[x] \in Int
    BY <1>1, <1>5
  <2>2. D \cap E = {} /\ IsFiniteSet(D) /\ IsFiniteSet(E)
    BY <1>4, <1>5
  <2> HIDE DEF D, E, f
  <2>3. SumOf(f, D \cup E) = SumOf(f, D) + SumOf(f, E)
    BY ONLY <2>1, <2>2, SumSplit
  <2> QED BY <1>5, <2>3
<1>7. Total(h) = SumOf(f, D) /\ SumOf(f, D) \in Nat
  <2>1. \A x \in D : h[x] \in Nat /\ h[x] \in Int /\ h[x] = f[x] /\ f[x] \in Nat
    BY <1>1
  <2>2. DOMAIN h = D /\ IsFiniteSet(D)
    BY <1>4
  <2> HIDE DEF D, h, f
  <2>3. SumOf(h, D) = SumOf(f, D)
    BY ONLY <2>1, <2>2, SumAgree
  <2>4. SumOf(f, D) \in Nat
    BY ONLY <2>1, <2>2, SumNat
  <2> QED BY <2>2, <2>3, <2>4, TotalIsSum
<1>8. SumOf(g, T) = SumOf(e, E)
  <2>1. p \in Bijection(T, E)
    <3>1. p \in [T -> E]
      BY <1>1
    <3>2. \A x, y \in T : p[x] = p[y] => x = y
      BY <1>1
    <3>3. \A y \in E : \E x \in T : p[x] = y
      <4> SUFFICES ASSUME NEW y \in E PROVE \E x \in T : p[x] = y
        OBVIOUS
      <4>1. y - k \in T /\ p[y - k] = y
        BY <1>1
      <4> QED BY <4>1
    <3> HIDE DEF p, T, E
    <3> QED BY <3>1, <3>2, <3>3 DEF Bijection, Injection, Surjection, IsInjective
  <2>2. e \in [E -> Int]
    BY <1>1
  <2>3. Named(g, e, p, T)
    <3> SUFFICES ASSUME NEW i \in T PROVE g[i] = e[p[i]]
      BY DEF Named
    <3>1. g[i] = d[i + k].amount
      BY <1>2, <1>3
    <3>2. p[i] = i + k /\ i + k \in E /\ i + k \in 1 .. n
      BY <1>1
    <3>3. e[i + k] = f[i + k] /\ f[i + k] = d[i + k].amount
      BY <1>1, <3>2
    <3> QED BY <3>1, <3>2, <3>3
  <2>4. IsFiniteSet(T)
    BY <1>4
  <2> HIDE DEF p, T, E, e, g
  <2> QED BY <2>1, <2>2, <2>3, <2>4, SumBijection
<1>9. SumOf(e, E) = SumOf(f, E) /\ SumOf(f, E) \in Int
  <2>1. \A x \in E : e[x] \in Int /\ e[x] = f[x] /\ f[x] \in Int
    BY <1>1
  <2>2. IsFiniteSet(E)
    BY <1>4
  <2> HIDE DEF E, e, f
  <2> QED BY ONLY <2>1, <2>2, SumAgree, SumType
<1>10. Lying(d) = SumOf(f, 1 .. n) /\ Lying(t) = SumOf(g, T)
  BY <1>1, <1>3 DEF Lying
<1> HIDE DEF f, g, h, D, E, T, e, t
<1>11. t \in Seq(Loads) /\ Total(h) \in Nat /\ Lying(t) = Lying(d) - Total(h)
  BY ONLY <1>2, <1>6, <1>7, <1>8, <1>9, <1>10
<1> QED BY <1>11 DEF t, h, D, n

\* A load dropped adds what it holds.
LEMMA DropOne ==
  ASSUME NEW d \in Seq(Loads), NEW u \in Loads
  PROVE  Append(d, u) \in Seq(Loads) /\ Lying(Append(d, u)) = Lying(d) + u.amount
<1> DEFINE t == Append(d, u)
           n == Len(d)
           D == 1 .. n
           x == n + 1
           f == Amounts(t)
           g == Amounts(d)
<1>1. /\ t \in Seq(Loads) /\ Len(t) = n + 1 /\ n \in Nat
      /\ \A i \in D : t[i] = d[i]
      /\ t[x] = u
  BY AppendProperties
<1>2. /\ DOMAIN d = D /\ IsFiniteSet(D) /\ g \in [D -> Nat] /\ \A i \in D : g[i] = d[i].amount
  BY LyingFacts
<1>3. /\ DOMAIN t = 1 .. n + 1 /\ f \in [1 .. n + 1 -> Nat]
      /\ \A i \in 1 .. n + 1 : f[i] = t[i].amount
  <2>1. /\ DOMAIN t = 1 .. Len(t) /\ f \in [1 .. Len(t) -> Nat]
        /\ \A i \in 1 .. Len(t) : f[i] = t[i].amount
    BY <1>1, LyingFacts
  <2> QED BY <1>1, <2>1
<1>4. x \notin D /\ 1 .. n + 1 = D \cup {x}
  BY <1>1
<1>5. f[x] \in Int /\ f[x] = u.amount
  BY <1>1, <1>3
<1>6. \A i \in D : f[i] \in Int /\ g[i] \in Int /\ f[i] = g[i]
  BY <1>1, <1>2, <1>3
<1> HIDE DEF x, D, f, g
<1>7. SumOf(f, D \cup {x}) = SumOf(f, D) + f[x]
  BY ONLY <1>2, <1>4, <1>5, <1>6, SumAdd
<1>8. SumOf(f, D) = SumOf(g, D)
  BY ONLY <1>2, <1>6, SumAgree
<1>9. Lying(t) = SumOf(f, D \cup {x}) /\ Lying(d) = SumOf(g, D)
  BY <1>2, <1>3, <1>4 DEF Lying, f, g
<1> QED BY <1>1, <1>5, <1>7, <1>8, <1>9

\* A dropped load comes into a heap, in part or whole, or stays.
LEMMA CleanKeeps ==
  ASSUME FoodInv, NEW w \in Ids, Clean(w)
  PROVE  FoodInv' /\ Balanced
<1> DEFINE u == Head(dropped)
           g == Waits(w)
           f == [g EXCEPT !.cargo = u]
           D == dropped
<1>1. TypeOK /\ CargoOK /\ StockOK /\ ReservationsAreClaims /\ WorkersOK /\ HeapsApart
  BY DEF FoodInv
<1>2. /\ turn' = w + 1 /\ sites' = Released(w) /\ worker' = [worker EXCEPT ![w] = f]
      /\ dropped' = Tail(D) /\ carried' = [carried EXCEPT ![u.nutrient] = @ + u.amount]
      /\ counted' = 0 /\ UNCHANGED <<scouts, granary, stores, lastSite, cells>>
      /\ worker[w].state \in {"AtHome", "ToSource"} /\ D # <<>>
      /\ ~(worker[w].cargo.amount > 0)
  BY DEF Clean, Turn, Becomes, Kept, Loaded
<1>3. /\ worker[w].cargo.amount = 0 /\ \A n : LoadOf(worker[w], n) = 0
  BY <1>1, <1>2, StateTypes DEF LoadOf
<1>4. D \in Seq(Loads) /\ u \in Loads /\ u.nutrient \in Nutrients /\ u.amount \in Nat
  <2>1. D \in Seq(Loads)
    BY <1>1 DEF TypeOK
  <2>2. u \in Loads
    BY <1>2, <2>1, HeadTailProperties
  <2> QED BY <2>1, <2>2 DEF Loads
<1>5. /\ f \in WorkerType /\ f.cargo = u /\ f.reserved = 0 /\ f.state = "AtHome" /\ Sound(f)
      /\ \A s : ClaimOf(f, s) = 0
  <2>1. g \in WorkerType /\ g.reserved = 0 /\ g.state = "AtHome"
    <3>1. g \in WorkerType /\ g.reserved = 0
      BY WaitsType
    <3>2. g.state = "AtHome"
      BY <1>1, StateTypes DEF Waits, WorkerType
    <3> QED BY <3>1, <3>2
  <2>2. f \in WorkerType /\ f.cargo = u /\ f.reserved = 0 /\ f.state = "AtHome"
    <3> HIDE DEF g, u
    <3> QED BY <1>4, <2>1 DEF WorkerType
  <2> HIDE DEF f
  <2> QED BY <2>2 DEF Sound, ClaimOf
<1>6. /\ sites' \in [DOMAIN sites -> SiteType] /\ DOMAIN sites' = DOMAIN sites
      /\ \A s \in DOMAIN sites :
           /\ sites'[s].amount = sites[s].amount
           /\ sites'[s].known = sites[s].known
           /\ sites'[s].reserved = sites[s].reserved - ClaimOf(worker[w], s)
  BY <1>1, <1>2, ReleasedFacts
<1>7. Tail(D) \in Seq(Loads) /\ Lying(Tail(D)) = Lying(D) - u.amount
  <2>1. Len(D) \in Nat /\ Len(D) # 0
    BY <1>2, <1>4, EmptySeq
  <2>2. 1 \in 0 .. Len(D)
    BY <2>1
  <2>3. /\ SubSeq(D, 1 + 1, Len(D)) \in Seq(Loads)
        /\ Lying(SubSeq(D, 1 + 1, Len(D))) = Lying(D) - Total([i \in 1 .. 1 |-> D[i].amount])
    BY <1>4, <2>2, DropFirst
  <2>4. Tail(D) = SubSeq(D, 1 + 1, Len(D))
    <3>1. Tail(D) = SubSeq(D, 2, Len(D)) /\ 1 + 1 = 2
      BY <1>2, <1>4, TailIsSubSeq
    <3> QED BY <3>1
  <2>5. Total([i \in 1 .. 1 |-> D[i].amount]) = u.amount
    <3> DEFINE h == [i \in 1 .. 1 |-> D[i].amount]
    <3>1. DOMAIN h = {} \cup {1} /\ h[1] = u.amount /\ u = D[1] /\ h[1] \in Int
      BY <1>2, <1>4
    <3>2. IsFiniteSet({}) /\ 1 \notin {} /\ \A y \in {} : h[y] \in Int
      BY FS_EmptySet
    <3> HIDE DEF h
    <3>3. SumOf(h, {} \cup {1}) = SumOf(h, {}) + h[1]
      BY <3>1, <3>2, SumAdd
    <3>4. SumOf(h, {}) = 0
      BY SumEmpty
    <3>5. Total(h) = u.amount
      BY <1>4, <3>1, <3>3, <3>4, TotalIsSum
    <3> QED BY <3>5 DEF h
  <2> QED BY <2>3, <2>4, <2>5
<1>8. carried' \in [Nutrients -> Nat]
      /\ \A n \in Nutrients : carried'[n] = carried[n] - LoadOf(worker[w], n) + LoadOf(f, n)
  <2>1. carried \in [Nutrients -> Nat]
    BY <1>1 DEF TypeOK
  <2>2. \A n \in Nutrients : LoadOf(f, n) = IF u.nutrient = n THEN u.amount ELSE 0
    BY <1>5 DEF LoadOf
  <2> HIDE DEF f, u
  <2> QED BY <1>2, <1>3, <1>4, <2>1, <2>2
<1>9. TypeOK'
  <2>1. scouts' \in 0 .. Max({ScoutCap, Workers}) /\ granary' \in Seq(HeapType)
        /\ stores' \in [Nutrients -> Nat] /\ counted' \in Int
    BY <1>1, <1>2 DEF TypeOK
  <2>2. UNCHANGED <<lastSite, cells>> /\ dropped' \in Seq(Loads)
    BY <1>2, <1>7
  <2> HIDE DEF f, u, g, D
  <2> QED BY <1>1, <1>2, <1>5, <1>6, <1>8, <2>1, <2>2, TypeKept
<1>10. CargoOK'
  <2> HIDE DEF f, u, g, D
  <2> QED BY <1>1, <1>2, <1>5, <1>8, CargoKept
<1>11. StockOK' /\ HeapsApart'
  BY <1>1, <1>2, StockKept
<1>12. ReservationsAreClaims'
  <2>1. \A s \in DOMAIN sites :
          /\ ClaimOf(worker[w], s) \in Nat
          /\ sites[s].reserved \in Int /\ sites[s].amount \in Int
          /\ sites[s].reserved <= sites[s].amount
    BY <1>1, StateTypes DEF ClaimOf, ReservationsAreClaims
  <2>2. \A s \in DOMAIN sites :
          /\ sites'[s].reserved = sites[s].reserved - ClaimOf(worker[w], s) + ClaimOf(f, s)
          /\ sites'[s].reserved <= sites'[s].amount
          /\ sites[s].known => sites'[s].known
    <3> HIDE DEF f
    <3> QED BY <1>5, <1>6, <2>1
  <2>3. ~(f.reserved > 0)
    BY <1>5
  <2> HIDE DEF f
  <2> QED BY <1>1, <1>2, <1>5, <1>6, <2>2, <2>3, ClaimsKept
<1>13. WorkersOK'
  <2> HIDE DEF f
  <2> QED BY <1>1, <1>2, <1>5, SoundKept
<1>14. Balanced
  <2>1. InSites' = InSites /\ InSites \in Int
    BY <1>1, <1>6, SitesKept, SitesSum
  <2>2. InDropped' = InDropped - u.amount /\ InDropped \in Int
    <3>1. InDropped = Lying(D)
      BY <1>1, DroppedSum DEF Lying
    <3>2. InDropped' = Lying(dropped')
      BY <1>9, TotalIsSum DEF InDropped, Amounts, Lying
    <3> QED BY <1>1, <1>2, <1>7, <3>1, <3>2, DroppedSum
  <2>3. Both(carried)' = Both(carried) + u.amount /\ Both(carried) \in Int
    <3>1. carried["sugar"] \in Int /\ carried["protein"] \in Int
          /\ "sugar" \in Nutrients /\ "protein" \in Nutrients
      BY <1>1, StateTypes DEF Nutrients
    <3>2. LoadOf(f, "sugar") + LoadOf(f, "protein") = u.amount /\ LoadOf(f, "sugar") \in Int
          /\ LoadOf(f, "protein") \in Int
      <4> HIDE DEF f, u
      <4> QED BY <1>4, <1>5 DEF LoadOf, Nutrients
    <3> HIDE DEF f, u
    <3> QED BY <1>3, <1>8, <3>1, <3>2 DEF Both
  <2>4. Both(stores)' = Both(stores) /\ Both(stores) \in Int
    BY <1>1, <1>2, FoodIsNumber DEF Both
  <2> QED BY <1>2, <1>4, <2>1, <2>2, <2>3, <2>4 DEF Balanced, Food
<1> QED BY <1>9, <1>10, <1>11, <1>12, <1>13, <1>14 DEF FoodInv

-----------------------------------------------------------------------------
(* The opening of a tick *)

\* What a site opening adds: nothing, or one site under a new number that is
\* unreserved, unknown and not empty.
Opened(opened, new) ==
  /\ DOMAIN opened = DOMAIN sites \cup new /\ new \cap DOMAIN sites = {}
  /\ \A s \in DOMAIN sites : opened[s] = sites[s]
  /\ \A s \in new :
       /\ s = lastSite + 1 /\ opened[s] \in SiteType
       /\ opened[s].reserved = 0 /\ opened[s].known = FALSE /\ opened[s].amount \in Nat

\* spawn_food_sources as it leaves the sites, their number and what they hold.
LEMMA SpawnedFacts ==
  ASSUME TypeOK, NEW opened \in Spawned, NEW last, NEW grown,
         last = IF opened = sites THEN lastSite ELSE lastSite + 1,
         grown = IF opened = sites THEN 0 ELSE opened[lastSite + 1].amount
  PROVE  /\ last \in 0 .. SourceIds /\ DOMAIN opened \subseteq 1 .. last
         /\ IsFiniteSet(DOMAIN opened) /\ Cardinality(DOMAIN opened) <= MaxSources
         /\ \E new : Opened(opened, new)
         /\ grown \in Nat /\ SumOf(Amounts(opened), DOMAIN opened) = InSites + grown
<1> DEFINE D == DOMAIN sites
           x == lastSite + 1
<1>1. /\ lastSite \in Nat /\ lastSite \in 0 .. SourceIds /\ D \subseteq 1 .. lastSite
      /\ Cardinality(D) <= MaxSources /\ SourceIds \in Nat /\ MaxSources \in Nat
  BY ConstantTypes DEF TypeOK
<1>2. IsFiniteSet(D) /\ InSites = SumOf(Amounts(sites), D) /\ InSites \in Nat
  BY SitesSum
<1>3. \A s \in D : sites[s] \in SiteType /\ sites[s].amount \in Nat
  BY StateTypes
<1>4. x \notin D
  BY <1>1
<1>5. CASE opened = sites
  <2>1. last = lastSite /\ grown = 0
    BY <1>5
  <2>2. Opened(opened, {})
    BY <1>5 DEF Opened
  <2> QED BY <1>1, <1>2, <1>5, <2>1, <2>2
<1>6. CASE opened # sites
  <2>1. last = x /\ grown = opened[x].amount
    BY <1>6
  <2>2. PICK n \in NextNutrients, a \in SiteAmounts :
          opened = [s \in D \cup {x} |->
                      IF s \in D THEN sites[s]
                      ELSE [nutrient |-> n, amount |-> a, reserved |-> 0, known |-> FALSE]]
    BY <1>6 DEF Spawned
  <2>3. lastSite < SourceIds /\ Cardinality(D) < MaxSources
    BY <1>6 DEF Spawned
  <2>4. n \in Nutrients /\ a \in Nat /\ a <= Largest /\ Largest \in Nat
    BY LargestFacts DEF NextNutrients, Nutrients
  <2>5. /\ DOMAIN opened = D \cup {x} /\ \A s \in D : opened[s] = sites[s]
        /\ opened[x] = [nutrient |-> n, amount |-> a, reserved |-> 0, known |-> FALSE]
    BY <1>4, <2>2
  <2>6. /\ opened[x] \in SiteType /\ opened[x].amount \in Nat /\ opened[x].reserved = 0
        /\ opened[x].known = FALSE
    BY <2>4, <2>5 DEF SiteType
  <2>7. Opened(opened, {x})
    BY <1>4, <2>5, <2>6 DEF Opened
  <2>8. IsFiniteSet(D \cup {x}) /\ Cardinality(D \cup {x}) = Cardinality(D) + 1
        /\ Cardinality(D) \in Nat
    BY <1>2, <1>4, FS_AddElement, FS_CardinalityType
  <2>9. Cardinality(D \cup {x}) <= MaxSources
    BY <1>1, <2>3, <2>8
  <2>10. last \in 0 .. SourceIds /\ D \cup {x} \subseteq 1 .. last
    BY <1>1, <2>1, <2>3
  <2>11. SumOf(Amounts(opened), D \cup {x}) = InSites + grown
    <3> DEFINE f == Amounts(opened)
               g == Amounts(sites)
    <3>1. \A s \in D : f[s] \in Int /\ g[s] \in Int /\ f[s] = g[s]
      BY <1>3, <2>5 DEF Amounts
    <3>2. f[x] = grown /\ f[x] \in Int
      BY <2>1, <2>5, <2>6 DEF Amounts
    <3> HIDE DEF f, g, D, x
    <3>3. SumOf(f, D \cup {x}) = SumOf(f, D) + f[x]
      BY ONLY <1>2, <1>4, <3>1, <3>2, SumAdd
    <3>4. SumOf(f, D) = SumOf(g, D)
      BY ONLY <1>2, <3>1, SumAgree
    <3> QED BY <1>2, <3>2, <3>3, <3>4 DEF f, g
  <2> HIDE DEF D, x
  <2> QED BY <2>1, <2>5, <2>6, <2>7, <2>8, <2>9, <2>10, <2>11
<1> QED BY <1>5, <1>6

\* Retired sites take what they held out of the sum; spent ones held nothing.
LEMMA RetiredSum ==
  ASSUME NEW opened, NEW left, IsFiniteSet(DOMAIN opened),
         \A s \in DOMAIN opened : opened[s].amount \in Nat,
         NEW rotten \in SUBSET DOMAIN opened,
         left = {s \in DOMAIN opened : ~Spent(opened[s]) /\ s \notin rotten}
  PROVE  /\ Total([s \in rotten |-> opened[s].amount]) \in Int
         /\ Total([s \in left |-> opened[s].amount])
              = SumOf(Amounts(opened), DOMAIN opened) - Total([s \in rotten |-> opened[s].amount])
<1> DEFINE D == DOMAIN opened
           f == Amounts(opened)
           g == [s \in D |-> IF s \in left THEN opened[s].amount ELSE 0]
           a == [s \in left |-> opened[s].amount]
           b == [s \in rotten |-> opened[s].amount]
<1>1. f \in [D -> Int] /\ \A s \in D : f[s] = opened[s].amount /\ f[s] \in Nat
  BY DEF Amounts
<1>2. Without(g, f, D, rotten)
  <2> SUFFICES ASSUME NEW s \in D PROVE g[s] = IF s \in rotten THEN 0 ELSE f[s]
    BY DEF Without
  <2>1. CASE s \in left
    BY <1>1, <2>1
  <2>2. CASE s \notin left /\ s \notin rotten
    <3>1. opened[s].amount = 0
      BY <1>1, <2>2 DEF Spent
    <3> QED BY <1>1, <2>2, <3>1
  <2>3. CASE s \in rotten
    BY <2>3
  <2> QED BY <2>1, <2>2, <2>3
<1>3. left \in SUBSET D /\ rotten \in SUBSET D /\ IsFiniteSet(D)
  OBVIOUS
<1>4. IsFiniteSet(left) /\ IsFiniteSet(rotten)
  BY <1>3, FS_Subset
<1>5. DOMAIN a = left /\ DOMAIN b = rotten
  OBVIOUS
<1>6. \A s \in left : a[s] \in Int /\ g[s] = a[s]
  BY <1>1
<1>7. \A s \in D \ left : g[s] = 0
  OBVIOUS
<1>8. \A s \in rotten : b[s] \in Int /\ b[s] = f[s]
  BY <1>1
<1> HIDE DEF D, f, g, a, b
<1>9. /\ SumOf(f, D) \in Int /\ SumOf(f, rotten) \in Int
      /\ SumOf(g, D) = SumOf(f, D) - SumOf(f, rotten)
  BY ONLY <1>1, <1>2, <1>3, SumWithout
<1>10. SumOf(a, left) = SumOf(g, D)
  BY ONLY <1>3, <1>6, <1>7, SumPart
<1>11. SumOf(b, rotten) = SumOf(f, rotten)
  BY ONLY <1>4, <1>8, SumAgree
<1>12. Total(b) \in Int /\ Total(a) = SumOf(f, D) - Total(b)
  BY <1>5, <1>9, <1>10, <1>11, TotalIsSum
<1> QED BY <1>12 DEF a, b, f, D

\* A claim is counted at its site.
LEMMA ClaimCounted ==
  ASSUME TypeOK, ReservationsAreClaims, NEW w \in Ids, worker[w].reserved > 0
  PROVE  sites[worker[w].source].reserved > 0
<1> DEFINE s == worker[w].source
<1>1. worker \in [Ids -> WorkerType] /\ s \in DOMAIN sites
  BY DEF TypeOK, ReservationsAreClaims
<1>2. ClaimOf(worker[w], s) <= SumOf(Claims(worker, s), Ids)
      /\ SumOf(Claims(worker, s), Ids) \in Nat /\ ClaimOf(worker[w], s) \in Nat
  BY <1>1, ClaimsMove
<1>3. sites[s].reserved = SumOf(Claims(worker, s), Ids)
  BY <1>1, ClaimsAreSums DEF ReservationsAreClaims
<1>4. ClaimOf(worker[w], s) > 0
  BY StateTypes DEF ClaimOf
<1> QED BY <1>2, <1>3, <1>4

\* Nobody claims a site that is not there.
LEMMA NoClaims ==
  ASSUME TypeOK, ReservationsAreClaims, NEW s, s \notin DOMAIN sites
  PROVE  ClaimsOn(s, Ids) = 0
<1> DEFINE f == Claims(worker, s)
<1>1. \A w \in Ids : f[w] = 0
  BY StateTypes DEF Claims, ClaimOf, ReservationsAreClaims
<1>2. ClaimsOn(s, Ids) = SumOf(f, Ids)
  BY ClaimsAreSums
<1>3. IsFiniteSet(Ids) /\ Cardinality(Ids) = Workers /\ Workers \in Nat /\ 0 \in Int
  BY IdsFinite
<1> HIDE DEF f
<1>4. SumOf(f, Ids) = Cardinality(Ids) * 0
  BY ONLY <1>1, <1>3, SumConstant
<1> QED BY <1>2, <1>3, <1>4

\* More cells leave both nutrients at least what they had.
LEMMA CellsGrow ==
  ASSUME TypeOK, StockOK, HeapsApart, UNCHANGED <<granary, stores>>, cells' \in cells .. MaxCells
  PROVE  /\ cells' \in FirstCells .. MaxCells /\ granary' \in Seq(HeapType')
         /\ StockOK' /\ HeapsApart'
<1>1. /\ cells \in Nat /\ cells' \in Nat /\ cells <= cells' /\ cells' \in FirstCells .. MaxCells
      /\ GrainsPerCell \in Nat /\ 0 < GrainsPerCell
  BY StateTypes, ConstantTypes
<1>2. /\ SugarCells(cells) \in Nat /\ SugarCells(cells') \in Nat
      /\ SugarCells(cells) <= SugarCells(cells')
      /\ SugarCells(cells) <= cells /\ SugarCells(cells') <= cells'
      /\ cells - SugarCells(cells) <= cells' - SugarCells(cells')
  BY <1>1, SharesGrow
<1>3. ASSUME NEW n \in Nutrients
      PROVE  /\ Allowed(n) \in Nat /\ Allowed(n)' \in Nat /\ Allowed(n) <= Allowed(n)'
             /\ CapacityFor(n) <= CapacityFor(n)' /\ CapacityFor(n) \in Nat /\ CapacityFor(n)' \in Nat
  <2>1. Allowed(n) \in Nat /\ Allowed(n)' \in Nat /\ Allowed(n) <= Allowed(n)'
    BY <1>1, <1>2 DEF Allowed
  <2> DEFINE a == Allowed(n)
             b == Allowed(n)'
  <2>2. CapacityFor(n) = a * GrainsPerCell /\ CapacityFor(n)' = b * GrainsPerCell
    BY DEF CapacityFor
  <2>3. a \in Nat /\ b \in Nat /\ a <= b
    BY <2>1
  <2> HIDE DEF a, b
  <2>4. a * GrainsPerCell <= b * GrainsPerCell /\ a * GrainsPerCell \in Nat
        /\ b * GrainsPerCell \in Nat
    BY <1>1, <2>3, TimesLess
  <2> QED BY <2>1, <2>2, <2>4
<1>4. StockOK' /\ HeapsApart'
  <2>1. HeapsApart'
    BY DEF HeapsApart
  <2> SUFFICES ASSUME NEW n \in Nutrients
               PROVE  /\ stores'[n] = Total([i \in Heaps(granary', n) |-> granary'[i].amount])
                      /\ stores'[n] <= CapacityFor(n)'
                      /\ Cardinality(Heaps(granary', n)) <= Allowed(n)'
    BY <2>1 DEF StockOK
  <2>2. /\ stores[n] = Total([i \in Heaps(granary, n) |-> granary[i].amount])
        /\ stores[n] <= CapacityFor(n)
        /\ Cardinality(Heaps(granary, n)) <= Allowed(n)
    BY DEF StockOK
  <2>3. stores[n] \in Nat /\ Cardinality(Heaps(granary, n)) \in Nat
    BY StateTypes, HeapCounts
  <2> QED BY <1>3, <2>2, <2>3
<1>5. granary' \in Seq(HeapType')
  <2>1. HeapType \subseteq HeapType'
    BY <1>1 DEF HeapType
  <2>2. granary \in Seq(HeapType)
    BY DEF TypeOK
  <2>3. granary \in Seq(HeapType')
    BY ONLY <2>1, <2>2, SeqMonotonic
  <2> QED BY <2>3
<1> QED BY <1>1, <1>4, <1>5

\* The opening: new cells, sites that rot and appear, and the meals, births and deaths of a second.
LEMMA BeginTickKeeps ==
  ASSUME FoodInv, BeginTick
  PROVE  FoodInv' /\ Balanced
<1>1. TypeOK /\ CargoOK /\ StockOK /\ ReservationsAreClaims /\ WorkersOK /\ HeapsApart
  BY DEF FoodInv
<1>2. PICK opened \in Spawned :
        /\ lastSite' = IF opened = sites THEN lastSite ELSE lastSite + 1
        /\ \E rotten \in SUBSET {s \in DOMAIN sites : ~sites[s].known /\ ~Spent(sites[s])} :
             LET left == {s \in DOMAIN opened : ~Spent(opened[s]) /\ s \notin rotten}
             IN  /\ sites' = [s \in left |-> opened[s]]
                 /\ counted' = (IF opened = sites THEN 0 ELSE opened[lastSite + 1].amount)
                               - Total([s \in rotten |-> sites[s].amount])
  BY DEF BeginTick
<1>3. PICK rotten \in SUBSET {s \in DOMAIN sites : ~sites[s].known /\ ~Spent(sites[s])} :
        /\ sites' = [s \in {s \in DOMAIN opened : ~Spent(opened[s]) /\ s \notin rotten} |-> opened[s]]
        /\ counted' = (IF opened = sites THEN 0 ELSE opened[lastSite + 1].amount)
                      - Total([s \in rotten |-> sites[s].amount])
  BY <1>2
<1> DEFINE left == {s \in DOMAIN opened : ~Spent(opened[s]) /\ s \notin rotten}
           grown == IF opened = sites THEN 0 ELSE opened[lastSite + 1].amount
           rot == Total([s \in rotten |-> opened[s].amount])
           last == IF opened = sites THEN lastSite ELSE lastSite + 1
<1>4. /\ last \in 0 .. SourceIds /\ DOMAIN opened \subseteq 1 .. last
      /\ IsFiniteSet(DOMAIN opened) /\ Cardinality(DOMAIN opened) <= MaxSources
      /\ \E new : Opened(opened, new)
      /\ grown \in Nat /\ SumOf(Amounts(opened), DOMAIN opened) = InSites + grown
  <2>1. /\ last = IF opened = sites THEN lastSite ELSE lastSite + 1
        /\ grown = IF opened = sites THEN 0 ELSE opened[lastSite + 1].amount
    OBVIOUS
  <2> HIDE DEF last, grown
  <2> QED BY ONLY <1>1, <2>1, opened \in Spawned, SpawnedFacts
<1>5. PICK new : Opened(opened, new)
  BY <1>4
<1>6. /\ DOMAIN opened = DOMAIN sites \cup new /\ new \cap DOMAIN sites = {}
      /\ \A s \in DOMAIN sites : opened[s] = sites[s]
      /\ \A s \in new : opened[s] \in SiteType /\ opened[s].reserved = 0
                        /\ opened[s].amount \in Nat
      /\ \A s \in DOMAIN opened : opened[s] \in SiteType /\ opened[s].amount \in Nat
  BY <1>1, <1>5, StateTypes DEF Opened
<1>7. /\ DOMAIN sites' = left /\ left \subseteq DOMAIN opened
      /\ \A s \in left : sites'[s] = opened[s] /\ sites'[s] \in SiteType
      /\ sites' \in [left -> SiteType]
  BY <1>3, <1>6
<1>8. /\ turn' = 1 /\ lastSite' = last /\ counted' = grown - rot
      /\ scouts' = Cardinality({w \in Ids : worker[w].state = "Scouting"})
      /\ cells' \in cells .. MaxCells
      /\ UNCHANGED <<worker, granary, stores, dropped, carried>>
  <2>1. [s \in rotten |-> opened[s].amount] = [s \in rotten |-> sites[s].amount]
    BY <1>6
  <2> QED BY <1>2, <1>3, <2>1 DEF BeginTick
<1>9. /\ cells' \in FirstCells .. MaxCells /\ granary' \in Seq(HeapType')
      /\ StockOK' /\ HeapsApart'
  BY <1>1, <1>8, CellsGrow
<1>10. rot \in Int /\ InSites' = InSites + grown - rot /\ InSites \in Int /\ grown \in Int
  <2>1. rotten \in SUBSET DOMAIN opened
    BY <1>6
  <2>2. /\ rot \in Int
        /\ Total([s \in left |-> opened[s].amount])
             = SumOf(Amounts(opened), DOMAIN opened) - rot
    <3>1. left = {s \in DOMAIN opened : ~Spent(opened[s]) /\ s \notin rotten}
      OBVIOUS
    <3>2. /\ IsFiniteSet(DOMAIN opened) /\ \A s \in DOMAIN opened : opened[s].amount \in Nat
      BY <1>4, <1>6
    <3> HIDE DEF left
    <3> QED BY ONLY <2>1, <3>1, <3>2, RetiredSum
  <2>3. InSites' = Total([s \in left |-> opened[s].amount])
    <3>1. [s \in DOMAIN sites' |-> sites'[s].amount] = [s \in left |-> opened[s].amount]
      BY <1>7
    <3> QED BY <3>1 DEF InSites
  <2>4. InSites \in Int
    BY <1>1, SitesSum
  <2> HIDE DEF rot, grown, left
  <2> QED BY <1>4, <2>2, <2>3, <2>4
<1>11. scouts' \in 0 .. Max({ScoutCap, Workers})
  <2>1. {w \in Ids : worker[w].state = "Scouting"} \in SUBSET Ids
    OBVIOUS
  <2>2. scouts' \in Nat /\ scouts' <= Workers
    BY <1>8, <2>1, IdsFinite, FS_Subset, FS_CardinalityType
  <2>3. Max({ScoutCap, Workers}) \in Int /\ Workers <= Max({ScoutCap, Workers})
    BY ConstantTypes, MaxOfTwo
  <2> QED BY <2>2, <2>3, ConstantTypes
<1>12. TypeOK'
  <2>1. turn' \in 0 .. Workers + 1
    BY <1>8, ConstantTypes
  <2>2. /\ DOMAIN sites' \subseteq 1 .. lastSite' /\ lastSite' \in 0 .. SourceIds
        /\ Cardinality(DOMAIN sites') <= MaxSources /\ sites' \in [DOMAIN sites' -> SiteType]
    <3>1. left \in SUBSET DOMAIN opened /\ Cardinality(left) <= Cardinality(DOMAIN opened)
          /\ IsFiniteSet(left)
      BY <1>4, FS_Subset
    <3>2. Cardinality(left) \in Nat /\ Cardinality(DOMAIN opened) \in Nat
      BY <1>4, <3>1, FS_CardinalityType
    <3> HIDE DEF left, last
    <3> QED BY <1>4, <1>7, <1>8, <3>1, <3>2, ConstantTypes
  <2>3. worker' \in [Ids -> WorkerType] /\ dropped' \in Seq(Loads)
        /\ {stores', carried'} \subseteq [Nutrients -> Nat]
    BY <1>1, <1>8 DEF TypeOK
  <2>4. counted' \in Int
    <3> HIDE DEF grown, rot
    <3> QED BY <1>8, <1>10
  <2> QED BY <1>9, <1>11, <2>1, <2>2, <2>3, <2>4 DEF TypeOK
<1>13. CargoOK' /\ WorkersOK'
  BY <1>1, <1>8 DEF CargoOK, InCargo, CargoOf, WorkersOK
<1>14. ReservationsAreClaims'
  <2>1. ASSUME NEW w \in Ids, worker'[w].reserved > 0
        PROVE  /\ worker'[w].state = "ToSource"
               /\ worker'[w].source \in DOMAIN sites' /\ sites'[worker'[w].source].known
    <3> DEFINE s == worker[w].source
    <3>1. worker[w].reserved > 0 /\ worker' = worker
      BY <1>8, <2>1
    <3>2. worker[w].state = "ToSource" /\ s \in DOMAIN sites /\ sites[s].known
      BY <1>1, <3>1 DEF ReservationsAreClaims
    <3>3. sites[s].reserved > 0 /\ sites[s].reserved \in Nat
      BY <1>1, <3>1, <3>2, ClaimCounted, StateTypes
    <3>4. s \in DOMAIN opened /\ opened[s] = sites[s] /\ s \notin rotten /\ ~Spent(sites[s])
      BY <1>6, <3>2, <3>3 DEF Spent
    <3> QED BY <1>7, <3>1, <3>2, <3>4
  <2>2. ASSUME NEW s \in DOMAIN sites'
        PROVE  sites'[s].reserved <= sites'[s].amount /\ sites'[s].reserved = ClaimsOn(s, Ids)'
    <3>1. s \in left /\ sites'[s] = opened[s] /\ ClaimsOn(s, Ids)' = ClaimsOn(s, Ids)
      BY <1>7, <1>8 DEF ClaimsOn
    <3>2. CASE s \in DOMAIN sites
      BY <1>1, <1>6, <3>1, <3>2 DEF ReservationsAreClaims
    <3>3. CASE s \notin DOMAIN sites
      <4>1. s \in new /\ ClaimsOn(s, Ids) = 0
        BY <1>1, <1>6, <1>7, <3>3, NoClaims
      <4> QED BY <1>6, <3>1, <4>1
    <3> QED BY <3>2, <3>3
  <2> QED BY <2>1, <2>2 DEF ReservationsAreClaims
<1>15. Balanced
  <2>1. InDropped' = InDropped /\ Both(carried)' = Both(carried) /\ Both(stores)' = Both(stores)
    BY <1>8 DEF InDropped, Both
  <2>2. InDropped \in Int /\ Both(carried) \in Int /\ Both(stores) \in Int
    BY <1>1, FoodIsNumber, DroppedSum
  <2> HIDE DEF grown, rot
  <2> QED BY <1>8, <1>10, <2>1, <2>2 DEF Balanced, Food
<1> QED BY <1>9, <1>12, <1>13, <1>14, <1>15 DEF FoodInv

-----------------------------------------------------------------------------
(* Meals *)

\* What place i of the heaps gives to a meal.
GivenBy(i, meal) ==
  Max({0, Min({granary[i].amount,
               meal[granary[i].nutrient]
                 - Total([j \in {j \in Heaps(granary, granary[i].nutrient) : j < i} |->
                            granary[j].amount])})})

\* The older heaps of a nutrient, as a sum over the places before.
LEMMA OlderHeaps ==
  ASSUME TypeOK, NEW n \in Nutrients, NEW i \in 1 .. Len(granary)
  PROVE  Total([j \in {j \in Heaps(granary, n) : j < i} |-> granary[j].amount])
           = SumOf(Stock(granary, n), 1 .. (i - 1))
<1> DEFINE S == {j \in Heaps(granary, n) : j < i}
           D == 1 .. (i - 1)
           f == [j \in S |-> granary[j].amount]
           a == Stock(granary, n)
<1>1. DOMAIN granary = 1 .. Len(granary) /\ Len(granary) \in Nat
      /\ \A j \in DOMAIN granary : granary[j].amount \in Nat
  BY HeapCounts, StateTypes
<1>2. S \in SUBSET D /\ D \subseteq DOMAIN granary /\ DOMAIN f = S
  BY <1>1 DEF Heaps
<1>3. \A x \in S : f[x] \in Int /\ a[x] = f[x]
  BY <1>1, <1>2 DEF Stock, HeapOf, Heaps
<1>4. \A x \in D \ S : a[x] = 0
  BY <1>1, <1>2 DEF Stock, HeapOf, Heaps
<1>5. IsFiniteSet(D)
  <2>1. 1 \in Int /\ i - 1 \in Int
    BY <1>1
  <2> QED BY ONLY <2>1, FS_Interval
<1> HIDE DEF S, D, f, a
<1>6. SumOf(f, S) = SumOf(a, D)
  BY ONLY <1>2, <1>3, <1>4, <1>5, SumPart
<1>7. Total(f) = SumOf(f, S)
  BY <1>2, TotalIsSum
<1> QED BY <1>6, <1>7 DEF S, D, f, a

\* A meal that the stores hold is eaten in full, and nothing else is.
LEMMA EatenFacts ==
  ASSUME TypeOK, StockOK, NEW meal, NEW h, h = EatenFrom(granary, meal),
         \A n \in Nutrients : meal[n] \in Nat /\ meal[n] <= stores[n]
  PROVE  /\ DOMAIN h = DOMAIN granary /\ h \in Seq(HeapType)
         /\ \A i \in DOMAIN granary :
              /\ h[i].cell = granary[i].cell /\ h[i].nutrient = granary[i].nutrient
              /\ h[i].amount \in Nat /\ h[i].amount <= granary[i].amount
         /\ \A n \in Nutrients :
              SumOf(Stock(h, n), DOMAIN h) = SumOf(Stock(granary, n), DOMAIN granary) - meal[n]
<1> DEFINE N == Len(granary)
           D == 1 .. N
<1>1. /\ DOMAIN granary = D /\ N \in Nat /\ IsFiniteSet(D)
      /\ \A i \in D : /\ granary[i] \in HeapType /\ granary[i].nutrient \in Nutrients
                      /\ granary[i].amount \in Nat /\ granary[i].amount <= GrainsPerCell
      /\ GrainsPerCell \in Nat
  BY HeapCounts, StateTypes, ConstantTypes
<1>2. /\ DOMAIN h = D
      /\ \A i \in D : h[i] = [granary[i] EXCEPT !.amount = granary[i].amount - GivenBy(i, meal)]
  BY <1>1 DEF EatenFrom, GivenBy
<1>3. ASSUME NEW n \in Nutrients
      PROVE  \E e : /\ Served(e, Stock(granary, n), meal[n], N)
                    /\ \A i \in D : e[i] = IF granary[i].nutrient = n THEN GivenBy(i, meal) ELSE 0
  <2> DEFINE a == Stock(granary, n)
             e == [i \in D |-> IF granary[i].nutrient = n THEN GivenBy(i, meal) ELSE 0]
  <2>1. a \in [D -> Nat]
    BY <1>1 DEF Stock, HeapOf
  <2>2. meal[n] \in Nat
    OBVIOUS
  <2>3. ASSUME NEW i \in D
        PROVE  e[i] = Max({0, Min({a[i], meal[n] - SumOf(a, 1 .. (i - 1))})})
    <3>1. CASE granary[i].nutrient = n
      <4>1. a[i] = granary[i].amount
        BY <1>1, <3>1 DEF Stock, HeapOf
      <4>2. Total([j \in {j \in Heaps(granary, n) : j < i} |-> granary[j].amount])
              = SumOf(a, 1 .. (i - 1))
        BY OlderHeaps
      <4>3. e[i] = GivenBy(i, meal)
        BY <3>1
      <4>4. GivenBy(i, meal) = Max({0, Min({a[i], meal[n] - SumOf(a, 1 .. (i - 1))})})
        <5> HIDE DEF a
        <5> QED BY <3>1, <4>1, <4>2 DEF GivenBy
      <4> QED BY <4>3, <4>4
    <3>2. CASE granary[i].nutrient # n
      <4>1. a[i] = 0 /\ e[i] = 0
        BY <1>1, <3>2 DEF Stock, HeapOf
      <4> DEFINE r == meal[n] - SumOf(a, 1 .. (i - 1))
                 m == Min({0, r})
      <4>2. r \in Int
        <5>1. a \in [1 .. N -> Int] /\ i \in 1 .. N
          BY <2>1
        <5>2. SumOf(a, 1 .. (i - 1)) \in Int
          BY ONLY <1>1, <5>1, SumUpTo
        <5> QED BY <2>2, <5>2
      <4>3. m \in Int /\ m <= 0
        <5> HIDE DEF r
        <5> QED BY <4>2, MinOfTwo
      <4>4. Max({0, m}) = 0
        <5> HIDE DEF m
        <5> QED BY <4>3, MaxOfTwo
      <4> QED BY <4>1, <4>4
    <3> QED BY <3>1, <3>2
  <2>4. Served(e, a, meal[n], N)
    <3> HIDE DEF e, a
    <3> QED BY <2>3 DEF Served
  <2>5. \A i \in D : e[i] = IF granary[i].nutrient = n THEN GivenBy(i, meal) ELSE 0
    OBVIOUS
  <2> HIDE DEF e, a
  <2> QED BY <2>4, <2>5 DEF a
<1>4. ASSUME NEW n \in Nutrients
      PROVE  \E e : /\ \A i \in D : /\ e[i] \in Nat /\ e[i] <= Stock(granary, n)[i]
                                    /\ e[i] = IF granary[i].nutrient = n
                                              THEN GivenBy(i, meal) ELSE 0
                    /\ SumOf(e, D) = meal[n]
  <2> DEFINE a == Stock(granary, n)
             m == meal[n]
  <2>1. PICK e : /\ Served(e, a, m, N)
                 /\ \A i \in D : e[i] = IF granary[i].nutrient = n THEN GivenBy(i, meal) ELSE 0
    BY <1>3
  <2>2. a \in [1 .. N -> Nat] /\ m \in Nat
    BY <1>1 DEF Stock, HeapOf
  <2>3. m <= SumOf(a, 1 .. N)
    BY <1>1, HeapCounts DEF StockOK
  <2> HIDE DEF a, m, N
  <2>4. /\ \A i \in 1 .. N : e[i] \in Nat /\ e[i] <= a[i]
        /\ SumOf(e, 1 .. N) = m
    BY ONLY <1>1, <2>1, <2>2, <2>3, SumServed
  <2> QED BY <2>1, <2>4 DEF a, m
<1>5. ASSUME NEW i \in D
      PROVE  GivenBy(i, meal) \in Nat /\ GivenBy(i, meal) <= granary[i].amount
  <2> DEFINE n == granary[i].nutrient
  <2>1. n \in Nutrients
    BY <1>1
  <2>2. Stock(granary, n)[i] = granary[i].amount /\ granary[i].nutrient = n
    BY <1>1 DEF Stock, HeapOf
  <2> HIDE DEF n
  <2>3. PICK e : /\ \A k \in D : /\ e[k] \in Nat /\ e[k] <= Stock(granary, n)[k]
                                 /\ e[k] = IF granary[k].nutrient = n
                                           THEN GivenBy(k, meal) ELSE 0
                 /\ SumOf(e, D) = meal[n]
    BY <1>4, <2>1
  <2>4. e[i] = GivenBy(i, meal) /\ e[i] \in Nat /\ e[i] <= Stock(granary, n)[i]
    BY <2>2, <2>3
  <2> QED BY <2>2, <2>4
<1>6. ASSUME NEW i \in D
      PROVE  /\ h[i].cell = granary[i].cell /\ h[i].nutrient = granary[i].nutrient
             /\ h[i].amount = granary[i].amount - GivenBy(i, meal)
             /\ h[i].amount \in Nat /\ h[i].amount <= granary[i].amount
             /\ h[i] \in HeapType
  <2> DEFINE b == granary[i].amount - GivenBy(i, meal)
  <2>1. b \in 0 .. GrainsPerCell /\ b <= granary[i].amount /\ b \in Nat
    BY <1>1, <1>5
  <2>2. h[i] = [granary[i] EXCEPT !.amount = b] /\ granary[i] \in HeapType
    BY <1>1, <1>2
  <2>3. b = granary[i].amount - GivenBy(i, meal)
    OBVIOUS
  <2> HIDE DEF b
  <2> QED BY <2>1, <2>2, <2>3 DEF HeapType
<1>7. h \in Seq(HeapType)
  <2>1. h = [i \in D |-> h[i]]
    BY <1>2 DEF EatenFrom
  <2>2. h \in [1 .. N -> HeapType]
    BY <1>2, <1>6, <2>1
  <2> QED BY <1>1, <2>2, SeqDef
<1>8. ASSUME NEW n \in Nutrients
      PROVE  SumOf(Stock(h, n), D) = SumOf(Stock(granary, n), D) - meal[n]
  <2> DEFINE a == Stock(granary, n)
             b == Stock(h, n)
  <2>1. PICK e : /\ \A i \in D : /\ e[i] \in Nat /\ e[i] <= a[i]
                                 /\ e[i] = IF granary[i].nutrient = n
                                           THEN GivenBy(i, meal) ELSE 0
                 /\ SumOf(e, D) = meal[n]
    BY <1>4
  <2>2. \A i \in D : b[i] \in Int /\ e[i] \in Int /\ a[i] = b[i] + e[i]
    <3> SUFFICES ASSUME NEW i \in D PROVE b[i] \in Int /\ e[i] \in Int /\ a[i] = b[i] + e[i]
      OBVIOUS
    <3>1. /\ a[i] = IF granary[i].nutrient = n THEN granary[i].amount ELSE 0
          /\ b[i] = IF h[i].nutrient = n THEN h[i].amount ELSE 0
      BY <1>1, <1>2 DEF Stock, HeapOf
    <3> HIDE DEF a, b
    <3> QED BY <1>1, <1>5, <1>6, <2>1, <3>1
  <2>3. \A i \in D : b[i] \in Int
    BY <2>2
  <2> HIDE DEF a, b, D
  <2>4. SumOf(a, D) = SumOf(b, D) + SumOf(e, D)
    BY ONLY <1>1, <2>2, SumPlus
  <2>5. SumOf(b, D) \in Int
    BY ONLY <1>1, <2>3, SumType
  <2>6. SumOf(b, D) = SumOf(a, D) - meal[n]
    BY <2>1, <2>4, <2>5
  <2> QED BY <2>6 DEF a, b
<1> HIDE DEF D
<1> QED BY <1>1, <1>2, <1>6, <1>7, <1>8

-----------------------------------------------------------------------------
(* Deaths *)

\* The dead hold no claim and carry nothing; the others stay as they are.
Mourned(dead) == [w \in Ids |-> IF w \in dead THEN [Idle EXCEPT !.state = "Dead"] ELSE worker[w]]

\* A dead worker's record.
LEMMA MournedFacts ==
  ASSUME TypeOK, NEW dead \in SUBSET Ids
  PROVE  /\ Mourned(dead) \in [Ids -> WorkerType]
         /\ \A w \in Ids : w \notin dead => Mourned(dead)[w] = worker[w]
         /\ \A w \in dead : /\ Mourned(dead)[w].reserved = 0
                            /\ Mourned(dead)[w].state = "Dead"
                            /\ Mourned(dead)[w].cargo.amount = 0
<1> DEFINE f == [Idle EXCEPT !.state = "Dead"]
<1>1. f \in WorkerType /\ f.reserved = 0 /\ f.state = "Dead" /\ f.cargo.amount = 0
  <2>1. NoLoad \in Loads /\ NoLoad.amount = 0
    BY DEF NoLoad, Loads, Nutrients
  <2>2. 0 \in 0 .. SourceIds /\ 0 \in 0 .. Carry /\ 0 \in 0 .. Patience /\ 0 \in 0 .. MaxCells
    BY ConstantTypes
  <2>3. f = [state |-> "Dead", source |-> 0, reserved |-> 0, patience |-> 0,
             cargo |-> NoLoad, cell |-> 0]
    BY DEF Idle
  <2> HIDE DEF f
  <2> QED BY <2>1, <2>2, <2>3 DEF WorkerType, States
<1>2. \A w \in Ids : worker[w] \in WorkerType
  BY StateTypes
<1> HIDE DEF f
<1> QED BY <1>1, <1>2 DEF Mourned, f

\* Without the dead, claims and loads are what the others hold.
LEMMA MournedSums ==
  ASSUME TypeOK, NEW dead \in SUBSET Ids
  PROVE  /\ \A s : /\ SumOf(Claims(worker, s), Ids) \in Nat
                   /\ SumOf(Claims(worker, s), dead) \in Nat
                   /\ SumOf(Claims(worker, s), dead) <= SumOf(Claims(worker, s), Ids)
                   /\ SumOf(Claims(Mourned(dead), s), Ids)
                        = SumOf(Claims(worker, s), Ids) - SumOf(Claims(worker, s), dead)
         /\ \A n : /\ SumOf(Burdens(worker, n), Ids) \in Nat
                   /\ SumOf(Burdens(worker, n), dead) \in Nat
                   /\ SumOf(Burdens(worker, n), dead) <= SumOf(Burdens(worker, n), Ids)
                   /\ SumOf(Burdens(Mourned(dead), n), Ids)
                        = SumOf(Burdens(worker, n), Ids) - SumOf(Burdens(worker, n), dead)
<1>1. IsFiniteSet(Ids) /\ IsFiniteSet(dead) /\ dead \in SUBSET Ids
  BY IdsFinite, FS_Subset
<1>2. ASSUME NEW f \in [Ids -> Nat], NEW g \in [Ids -> Nat], Without(g, f, Ids, dead)
      PROVE  /\ SumOf(f, Ids) \in Nat /\ SumOf(f, dead) \in Nat
             /\ SumOf(f, dead) <= SumOf(f, Ids)
             /\ SumOf(g, Ids) = SumOf(f, Ids) - SumOf(f, dead)
  <2>1. f \in [Ids -> Int] /\ (\A w \in Ids : f[w] \in Nat) /\ (\A w \in Ids : g[w] \in Nat)
        /\ (\A w \in dead : f[w] \in Nat)
    OBVIOUS
  <2>2. SumOf(g, Ids) = SumOf(f, Ids) - SumOf(f, dead)
    BY ONLY <1>1, <1>2, <2>1, SumWithout
  <2>3. SumOf(f, Ids) \in Nat /\ SumOf(g, Ids) \in Nat /\ SumOf(f, dead) \in Nat
    BY ONLY <1>1, <2>1, SumNat
  <2> QED BY <2>2, <2>3
<1>3. \A w \in Ids : worker[w] \in WorkerType /\ Mourned(dead)[w] \in WorkerType
  BY StateTypes, MournedFacts
<1>4. \A u \in WorkerType : u.reserved \in Nat /\ u.cargo.amount \in Nat
  BY ConstantTypes DEF WorkerType, Loads
<1>5. ASSUME NEW s
      PROVE  /\ SumOf(Claims(worker, s), Ids) \in Nat
             /\ SumOf(Claims(worker, s), dead) \in Nat
             /\ SumOf(Claims(worker, s), dead) <= SumOf(Claims(worker, s), Ids)
             /\ SumOf(Claims(Mourned(dead), s), Ids)
                  = SumOf(Claims(worker, s), Ids) - SumOf(Claims(worker, s), dead)
  <2> DEFINE f == Claims(worker, s)
             g == Claims(Mourned(dead), s)
  <2>1. f \in [Ids -> Nat] /\ g \in [Ids -> Nat]
    BY <1>3, <1>4 DEF Claims, ClaimOf
  <2>2. Without(g, f, Ids, dead)
    <3> SUFFICES ASSUME NEW w \in Ids PROVE g[w] = IF w \in dead THEN 0 ELSE f[w]
      BY DEF Without
    <3>1. CASE w \in dead
      BY <3>1, MournedFacts DEF Claims, ClaimOf
    <3>2. CASE w \notin dead
      BY <3>2, MournedFacts DEF Claims
    <3> QED BY <3>1, <3>2
  <2> HIDE DEF f, g
  <2>3. /\ SumOf(f, Ids) \in Nat /\ SumOf(f, dead) \in Nat
        /\ SumOf(f, dead) <= SumOf(f, Ids)
        /\ SumOf(g, Ids) = SumOf(f, Ids) - SumOf(f, dead)
    BY <1>2, <2>1, <2>2
  <2> QED BY <2>3 DEF f, g
<1>6. ASSUME NEW n
      PROVE  /\ SumOf(Burdens(worker, n), Ids) \in Nat
             /\ SumOf(Burdens(worker, n), dead) \in Nat
             /\ SumOf(Burdens(worker, n), dead) <= SumOf(Burdens(worker, n), Ids)
             /\ SumOf(Burdens(Mourned(dead), n), Ids)
                  = SumOf(Burdens(worker, n), Ids) - SumOf(Burdens(worker, n), dead)
  <2> DEFINE f == Burdens(worker, n)
             g == Burdens(Mourned(dead), n)
  <2>1. f \in [Ids -> Nat] /\ g \in [Ids -> Nat]
    BY <1>3, <1>4 DEF Burdens, LoadOf
  <2>2. Without(g, f, Ids, dead)
    <3> SUFFICES ASSUME NEW w \in Ids PROVE g[w] = IF w \in dead THEN 0 ELSE f[w]
      BY DEF Without
    <3>1. CASE w \in dead
      BY <3>1, MournedFacts DEF Burdens, LoadOf
    <3>2. CASE w \notin dead
      BY <3>2, MournedFacts DEF Burdens
    <3> QED BY <3>1, <3>2
  <2> HIDE DEF f, g
  <2>3. /\ SumOf(f, Ids) \in Nat /\ SumOf(f, dead) \in Nat
        /\ SumOf(f, dead) <= SumOf(f, Ids)
        /\ SumOf(g, Ids) = SumOf(f, Ids) - SumOf(f, dead)
    BY <1>2, <2>1, <2>2
  <2> QED BY <2>3 DEF f, g
<1> QED BY <1>5, <1>6

\* What the dying carry, taken as one sum.
LEMMA DeadCargo ==
  ASSUME TypeOK, NEW dead \in SUBSET Ids, NEW b,
         b = [w \in Ids |-> IF w \in dead THEN worker[w].cargo.amount ELSE 0]
  PROVE  /\ b \in [Ids -> Nat]
         /\ SumOf(b, Ids) = CargoOf("sugar", dead) + CargoOf("protein", dead)
<1> DEFINE part(n) == [w \in Ids |-> IF w \in dead THEN LoadOf(worker[w], n) ELSE 0]
           bs == part("sugar")
           bp == part("protein")
<1>1. IsFiniteSet(Ids) /\ dead \in SUBSET Ids
  BY IdsFinite
<1>2. \A w \in Ids : worker[w].cargo.nutrient \in Nutrients /\ worker[w].cargo.amount \in Nat
  BY StateTypes
<1>3. b \in [Ids -> Nat] /\ \A w \in Ids : bs[w] \in Int /\ bp[w] \in Int /\ b[w] = bs[w] + bp[w]
  BY <1>2 DEF LoadOf, Nutrients
<1>4. ASSUME NEW n PROVE SumOf(part(n), Ids) = CargoOf(n, dead)
  <2> DEFINE f == Burdens(worker, n)
             g == part(n)
  <2>1. \A w \in dead : f[w] \in Int /\ g[w] = f[w]
    BY <1>2 DEF Burdens, LoadOf
  <2>2. \A w \in Ids \ dead : g[w] = 0
    OBVIOUS
  <2> HIDE DEF f, g
  <2>3. SumOf(f, dead) = SumOf(g, Ids)
    BY ONLY <1>1, <2>1, <2>2, SumPart
  <2>4. CargoOf(n, dead) = SumOf(f, dead)
    BY CargoIsSum DEF f
  <2> QED BY <2>3, <2>4 DEF g
<1>5. SumOf(bs, Ids) = CargoOf("sugar", dead) /\ SumOf(bp, Ids) = CargoOf("protein", dead)
  BY <1>4
<1> HIDE DEF bs, bp
<1>6. SumOf(b, Ids) = SumOf(bs, Ids) + SumOf(bp, Ids)
  BY ONLY <1>1, <1>3, SumPlus
<1> QED BY <1>3, <1>5, <1>6

\* The dying drop what they carry on top of what lay there.
LEMMA DroppedByFacts ==
  ASSUME TypeOK, NEW dead \in SUBSET Ids, NEW kept \in Seq(Loads)
  PROVE  /\ DroppedBy(dead, kept) \in Seq(Loads)
         /\ Lying(DroppedBy(dead, kept))
              = Lying(kept) + CargoOf("sugar", dead) + CargoOf("protein", dead)
<1> DEFINE Next1(w, d) == IF w \in dead /\ Loaded(w) THEN Append(d, worker[w].cargo) ELSE d
           Body(g) == [w \in 0 .. Workers |->
                         IF w = 0 THEN kept
                         ELSE IF w \in dead /\ Loaded(w) THEN Append(g[w - 1], worker[w].cargo)
                         ELSE g[w - 1]]
           heap == CHOOSE g : g = Body(g)
           S == Seq(Loads)
           next == [p \in (1 .. Workers) \X S |-> Next1(p[1], p[2])]
           b == [w \in Ids |-> IF w \in dead THEN worker[w].cargo.amount ELSE 0]
<1>1. DroppedBy(dead, kept) = heap[Workers]
  BY DEF DroppedBy
<1>2. Workers \in Nat /\ 0 < Workers /\ Ids = 1 .. Workers /\ IsFiniteSet(Ids)
  BY ConstantTypes, IdsFinite DEF Ids
<1>3. \A w \in Ids : worker[w].cargo \in Loads /\ worker[w].cargo.amount \in Nat
  BY StateTypes
<1>4. ASSUME NEW w \in 1 .. Workers, NEW d \in S
      PROVE  /\ Next1(w, d) \in S /\ Lying(Next1(w, d)) = Lying(d) + b[w]
             /\ Lying(d) \in Nat /\ b[w] \in Nat
  <2>1. Lying(d) \in Nat
    BY LyingFacts
  <2>2. CASE w \in dead /\ Loaded(w)
    <3>1. Append(d, worker[w].cargo) \in S
          /\ Lying(Append(d, worker[w].cargo)) = Lying(d) + worker[w].cargo.amount
      BY <1>2, <1>3, DropOne
    <3> QED BY <1>2, <1>3, <2>1, <2>2, <3>1
  <2>3. CASE ~(w \in dead /\ Loaded(w))
    <3>1. b[w] = 0
      BY <1>2, <1>3, <2>3 DEF Loaded
    <3> QED BY <2>1, <2>3, <3>1
  <2> QED BY <2>2, <2>3
<1>5. heap = Body(heap)
  <2>1. next \in [(1 .. Workers) \X S -> S]
    <3>1. \A p \in (1 .. Workers) \X S : Next1(p[1], p[2]) \in S
      BY <1>4
    <3> QED BY <3>1
  <2>2. kept \in S
    OBVIOUS
  <2> HIDE DEF next, S
  <2> DEFINE n == Workers
  <2>10. PICK g \in [0 .. n -> S] : Passed(g, kept, next, n)
    <3>1. n \in Nat /\ next \in [Steps(n, S) -> S]
      BY <1>2, <2>1 DEF Steps
    <3> HIDE DEF n
    <3> QED BY ONLY <2>2, <3>1, Iterated
  <2>3. g[0] = kept /\ \A k \in 1 .. n : g[k] = next[<<k, g[k - 1]>>]
    BY <2>10 DEF Passed
  <2>4. \A k \in 1 .. Workers : g[k] = Next1(k, g[k - 1])
    <3> SUFFICES ASSUME NEW k \in 1 .. Workers PROVE g[k] = Next1(k, g[k - 1])
      OBVIOUS
    <3>1. k - 1 \in 0 .. Workers
      BY <1>2
    <3>2. g[k - 1] \in S
      BY <2>3, <3>1
    <3>3. next[<<k, g[k - 1]>>] = Next1(k, g[k - 1])
      BY <3>2 DEF next
    <3> QED BY <2>3, <3>3
  <2>5. g = Body(g)
    <3>1. ASSUME NEW k \in 0 .. Workers PROVE g[k] = Body(g)[k]
      <4>1. CASE k = 0
        BY <2>3, <4>1
      <4>2. CASE k # 0
        <5>1. k \in 1 .. Workers
          BY <1>2, <4>2
        <5> QED BY <2>4, <4>2, <5>1
      <4> QED BY <4>1, <4>2
    <3>2. g = [k \in 0 .. Workers |-> g[k]]
      BY <2>3
    <3>3. Body(g) = [k \in 0 .. Workers |-> Body(g)[k]]
      OBVIOUS
    <3> HIDE DEF Body
    <3> QED BY ONLY <3>1, <3>2, <3>3
  <2> HIDE DEF Body
  <2> QED BY <2>5
<1>6. heap[0] = kept /\ \A k \in 1 .. Workers : heap[k] = Next1(k, heap[k - 1])
  <2> HIDE DEF heap
  <2>1. \A k \in 0 .. Workers : heap[k] = Body(heap)[k]
    BY <1>5
  <2> QED BY <1>2, <2>1
<1>7. b \in [1 .. Workers -> Int] /\ SumOf(b, {}) = 0
  BY <1>2, <1>3, SumEmpty
<1> DEFINE Good(k) == heap[k] \in S /\ Lying(heap[k]) = Lying(kept) + SumOf(b, 1 .. k)
           Bad == {k \in 0 .. Workers : ~Good(k)}
<1>8. Good(0)
  <2>1. 1 .. 0 = {}
    OBVIOUS
  <2>2. Lying(kept) \in Nat
    BY LyingFacts
  <2> HIDE DEF heap, b
  <2> QED BY <1>6, <1>7, <2>1, <2>2
<1>9. ASSUME NEW k \in Bad PROVE \E j \in Bad : j < k
  <2>1. k \in 1 .. Workers /\ k - 1 \in 0 .. Workers
    BY <1>2, <1>8
  <2>2. SUFFICES ASSUME Good(k - 1) PROVE Good(k)
    <3> HIDE DEF Good
    <3> QED BY <2>1, <2>2
  <2>3. heap[k] = Next1(k, heap[k - 1]) /\ heap[k - 1] \in S
    BY <1>6, <2>1, <2>2
  <2> HIDE DEF heap
  <2>4. /\ heap[k] \in S /\ Lying(heap[k]) = Lying(heap[k - 1]) + b[k]
        /\ Lying(heap[k - 1]) \in Nat /\ b[k] \in Nat
    <3> HIDE DEF Next1, b
    <3> QED BY <1>4, <2>1, <2>3
  <2> HIDE DEF b
  <2>5. /\ SumOf(b, 1 .. k) = SumOf(b, 1 .. (k - 1)) + b[k]
        /\ SumOf(b, 1 .. k) \in Int /\ SumOf(b, 1 .. (k - 1)) \in Int
    BY ONLY <1>2, <1>7, <2>1, SumUpTo
  <2>6. Lying(kept) \in Nat
    BY LyingFacts
  <2> QED BY <2>2, <2>4, <2>5, <2>6
<1>10. Bad = {}
  <2>1. Bad \in SUBSET (0 .. Workers)
    OBVIOUS
  <2> HIDE DEF Bad
  <2> QED BY ONLY <1>2, <1>9, <2>1, NoneBadUpTo
<1>11. Good(Workers)
  <2>1. Workers \in 0 .. Workers
    BY <1>2
  <2> HIDE DEF Good
  <2> QED BY <1>10, <2>1
<1>12. SumOf(b, Ids) = CargoOf("sugar", dead) + CargoOf("protein", dead)
  <2>1. b = [w \in Ids |-> IF w \in dead THEN worker[w].cargo.amount ELSE 0]
    OBVIOUS
  <2> HIDE DEF b
  <2> QED BY <2>1, DeadCargo
<1>13. \A n : CargoOf(n, dead) \in Nat
  BY ZenonT(40), CargoIsSum, MournedSums
<1> HIDE DEF heap, b
<1> QED BY <1>1, <1>2, <1>11, <1>12, <1>13, LyingFacts

\* A second: the meals, the deaths and the decay.
LEMMA BiologyKeeps ==
  ASSUME FoodInv, Biology
  PROVE  FoodInv' /\ Balanced
<1>1. TypeOK /\ CargoOK /\ StockOK /\ ReservationsAreClaims /\ WorkersOK /\ HeapsApart
  BY DEF FoodInv
<1>2. PICK sugar \in 0 .. stores["sugar"], protein \in 0 .. stores["protein"],
           dead \in SUBSET {w \in Ids : worker[w].state # "Dead"}, old \in 0 .. Len(dropped) :
        LET meal == [n \in Nutrients |-> IF n = "sugar" THEN sugar ELSE protein]
        IN  /\ stores' = [n \in Nutrients |-> stores[n] - meal[n]]
            /\ granary' = EatenFrom(granary, meal)
            /\ worker' = Mourned(dead)
            /\ sites' = ReleasedBy(dead)
            /\ carried' = [n \in Nutrients |-> carried[n] - CargoOf(n, dead)]
            /\ dropped' = DroppedBy(dead, SubSeq(dropped, old + 1, Len(dropped)))
            /\ counted' = -sugar - protein - Total([i \in 1 .. old |-> dropped[i].amount])
  BY DEF Biology, Mourned
<1> DEFINE meal == [n \in Nutrients |-> IF n = "sugar" THEN sugar ELSE protein]
           rest == SubSeq(dropped, old + 1, Len(dropped))
           gone == Total([i \in 1 .. old |-> dropped[i].amount])
<1>3. /\ turn' = 0 /\ UNCHANGED <<scouts, lastSite, cells>>
      /\ stores' = [n \in Nutrients |-> stores[n] - meal[n]]
      /\ granary' = EatenFrom(granary, meal) /\ worker' = Mourned(dead)
      /\ sites' = ReleasedBy(dead) /\ dropped' = DroppedBy(dead, rest)
      /\ carried' = [n \in Nutrients |-> carried[n] - CargoOf(n, dead)]
      /\ counted' = -sugar - protein - gone /\ dead \in SUBSET Ids
  BY <1>2 DEF Biology
<1>4. /\ sugar \in Nat /\ sugar <= stores["sugar"] /\ protein \in Nat
      /\ protein <= stores["protein"]
      /\ \A n \in Nutrients : stores[n] \in Nat /\ carried[n] \in Nat
      /\ "sugar" \in Nutrients /\ "protein" \in Nutrients
  BY <1>1, StateTypes DEF Nutrients
<1>5. /\ \A n \in Nutrients : meal[n] \in Nat /\ meal[n] <= stores[n]
      /\ meal["sugar"] = sugar /\ meal["protein"] = protein
  BY <1>4 DEF Nutrients
<1>6. /\ DOMAIN granary' = DOMAIN granary /\ granary' \in Seq(HeapType)
      /\ \A i \in DOMAIN granary :
           /\ granary'[i].cell = granary[i].cell /\ granary'[i].nutrient = granary[i].nutrient
           /\ granary'[i].amount \in Nat /\ granary'[i].amount <= granary[i].amount
      /\ \A n \in Nutrients :
           SumOf(Stock(granary', n), DOMAIN granary')
             = SumOf(Stock(granary, n), DOMAIN granary) - meal[n]
  <2>1. granary' = EatenFrom(granary, meal)
    BY <1>3
  <2>2. \A n \in Nutrients : meal[n] \in Nat /\ meal[n] <= stores[n]
    BY <1>5
  <2> HIDE DEF meal
  <2> QED BY ONLY <1>1, <2>1, <2>2, EatenFacts
<1> HIDE DEF meal
<1>7. stores' \in [Nutrients -> Nat] /\ \A n \in Nutrients : stores'[n] = stores[n] - meal[n]
  BY <1>3, <1>4, <1>5
<1>8. StockOK' /\ HeapsApart'
  <2>1. HeapsApart'
    BY <1>1, <1>6 DEF HeapsApart
  <2> SUFFICES ASSUME NEW n \in Nutrients
               PROVE  /\ stores'[n] = Total([i \in Heaps(granary', n) |-> granary'[i].amount])
                      /\ stores'[n] <= CapacityFor(n)'
                      /\ Cardinality(Heaps(granary', n)) <= Allowed(n)'
    BY <2>1 DEF StockOK
  <2>2. /\ stores[n] = SumOf(Stock(granary, n), DOMAIN granary)
        /\ stores[n] <= CapacityFor(n)
        /\ Cardinality(Heaps(granary, n)) <= Allowed(n)
    BY <1>1, HeapCounts DEF StockOK
  <2>3. CapacityFor(n)' = CapacityFor(n) /\ Allowed(n)' = Allowed(n)
        /\ CapacityFor(n) \in Nat /\ Allowed(n) \in Nat
    BY <1>1, <1>3, Capacity DEF CapacityFor, Allowed
  <2>4. Heaps(granary', n) \in SUBSET Heaps(granary, n)
    <3>1. \A i \in DOMAIN granary : granary[i].amount \in Nat
      BY <1>1, StateTypes
    <3> QED BY <1>6, <3>1 DEF Heaps
  <2>5. /\ Cardinality(Heaps(granary', n)) <= Cardinality(Heaps(granary, n))
        /\ Cardinality(Heaps(granary', n)) \in Nat /\ Cardinality(Heaps(granary, n)) \in Nat
    <3>1. IsFiniteSet(Heaps(granary, n))
      BY <1>1, HeapCounts
    <3> QED BY <2>4, <3>1, FS_Subset, FS_CardinalityType
  <2>6. Total([i \in Heaps(granary', n) |-> granary'[i].amount])
          = SumOf(Stock(granary', n), DOMAIN granary')
    <3> DEFINE h == granary'
    <3>1. IsFiniteSet(DOMAIN h) /\ \A i \in DOMAIN h : h[i].amount \in Nat
      BY <1>1, <1>6, HeapCounts
    <3> HIDE DEF h
    <3>2. Total([i \in Heaps(h, n) |-> h[i].amount]) = SumOf(Stock(h, n), DOMAIN h)
      BY <3>1, HeapsSum
    <3> QED BY <3>2 DEF h
  <2>7. stores'[n] = stores[n] - meal[n] /\ stores[n] \in Nat /\ meal[n] \in Nat
        /\ meal[n] <= stores[n]
        /\ SumOf(Stock(granary', n), DOMAIN granary')
             = SumOf(Stock(granary, n), DOMAIN granary) - meal[n]
    BY <1>4, <1>5, <1>6, <1>7
  <2>8. stores'[n] = Total([i \in Heaps(granary', n) |-> granary'[i].amount])
    BY ONLY <2>2, <2>6, <2>7
  <2>9. stores'[n] <= CapacityFor(n)' /\ Cardinality(Heaps(granary', n)) <= Allowed(n)'
    BY ONLY <2>2, <2>3, <2>5, <2>7
  <2> QED BY ONLY <2>8, <2>9
<1>9. /\ worker' \in [Ids -> WorkerType]
      /\ \A w \in Ids : w \notin dead => worker'[w] = worker[w]
      /\ \A w \in dead : /\ worker'[w].reserved = 0 /\ worker'[w].state = "Dead"
                         /\ worker'[w].cargo.amount = 0
  BY <1>1, <1>3, MournedFacts
<1>10. \A n \in Nutrients :
         /\ CargoOf(n, dead) \in Nat /\ CargoOf(n, dead) <= carried[n]
         /\ carried'[n] = carried[n] - CargoOf(n, dead)
         /\ carried'[n] = InCargo(n)'
  <2> SUFFICES ASSUME NEW n \in Nutrients
               PROVE  /\ CargoOf(n, dead) \in Nat /\ CargoOf(n, dead) <= carried[n]
                      /\ carried'[n] = carried[n] - CargoOf(n, dead)
                      /\ carried'[n] = InCargo(n)'
    OBVIOUS
  <2>1. /\ carried[n] = SumOf(Burdens(worker, n), Ids)
        /\ CargoOf(n, dead) = SumOf(Burdens(worker, n), dead)
    BY <1>1, <1>3, CargoIsSum DEF CargoOK, InCargo
  <2>2. InCargo(n)' = SumOf(Burdens(worker', n), Ids)
    BY <1>9, BurdensSum DEF CargoOf, InCargo
  <2>3. /\ SumOf(Burdens(worker, n), dead) \in Nat
        /\ SumOf(Burdens(worker, n), dead) <= SumOf(Burdens(worker, n), Ids)
        /\ SumOf(Burdens(Mourned(dead), n), Ids)
             = SumOf(Burdens(worker, n), Ids) - SumOf(Burdens(worker, n), dead)
    BY <1>1, <1>3, MournedSums
  <2>4. carried'[n] = carried[n] - CargoOf(n, dead)
    BY <1>3
  <2> QED BY <1>3, <2>1, <2>2, <2>3, <2>4
<1>11. CargoOK' /\ carried' \in [Nutrients -> Nat]
  <2>1. CargoOK'
    BY <1>10 DEF CargoOK
  <2>2. \A n \in Nutrients : carried[n] - CargoOf(n, dead) \in Nat
    BY <1>4, <1>10
  <2> QED BY <1>3, <2>1, <2>2
<1>12. /\ DOMAIN sites' = DOMAIN sites /\ sites' \in [DOMAIN sites -> SiteType]
       /\ \A s \in DOMAIN sites :
            /\ sites'[s].amount = sites[s].amount /\ sites'[s].known = sites[s].known
            /\ sites'[s].reserved = ClaimsOn(s, Ids)'
            /\ sites'[s].reserved <= sites'[s].amount
  <2>1. ASSUME NEW s \in DOMAIN sites
        PROVE  /\ sites'[s] \in SiteType
               /\ sites'[s].amount = sites[s].amount /\ sites'[s].known = sites[s].known
               /\ sites'[s].reserved = ClaimsOn(s, Ids)'
               /\ sites'[s].reserved <= sites'[s].amount
    <3> DEFINE c == ClaimsOn(s, dead)
               r == sites[s].reserved - c
    <3>1. /\ sites[s].reserved = SumOf(Claims(worker, s), Ids)
          /\ c = SumOf(Claims(worker, s), dead)
      BY <1>1, <1>3, ClaimsAreSums DEF ReservationsAreClaims
    <3>2. ClaimsOn(s, Ids)' = SumOf(Claims(worker', s), Ids)
      BY <1>9, ClaimsSum DEF ClaimsOn
    <3>3. /\ SumOf(Claims(worker, s), Ids) \in Nat
          /\ SumOf(Claims(worker, s), dead) \in Nat
          /\ SumOf(Claims(worker, s), dead) <= SumOf(Claims(worker, s), Ids)
          /\ SumOf(Claims(Mourned(dead), s), Ids)
               = SumOf(Claims(worker, s), Ids) - SumOf(Claims(worker, s), dead)
      BY <1>1, <1>3, MournedSums
    <3>4. r \in Nat /\ c \in Nat /\ ClaimsOn(s, Ids)' = r
      BY <1>3, <3>1, <3>2, <3>3
    <3>5. sites'[s] = [sites[s] EXCEPT !.reserved = Max({0, r})]
      BY <1>3 DEF ReleasedBy
    <3> HIDE DEF r
    <3>6. Max({0, r}) = r
      BY <3>4, MaxOfTwo
    <3>7. /\ sites[s] \in SiteType /\ sites[s].amount \in Nat /\ sites[s].reserved \in Nat
          /\ sites[s].reserved <= sites[s].amount /\ r <= sites[s].reserved
      <4>1. sites[s].reserved \in Nat /\ r <= sites[s].reserved
        BY <1>1, <3>4, StateTypes DEF r
      <4> QED BY <1>1, <4>1, StateTypes DEF ReservationsAreClaims
    <3>8. sites'[s] = [sites[s] EXCEPT !.reserved = r]
      BY <3>5, <3>6
    <3> HIDE DEF c
    <3>9. /\ sites'[s] \in SiteType /\ sites'[s].amount = sites[s].amount
          /\ sites'[s].known = sites[s].known /\ sites'[s].reserved = r
      BY ONLY <3>4, <3>7, <3>8 DEF SiteType
    <3> QED BY <3>4, <3>7, <3>9
  <2>2. sites' = [s \in DOMAIN sites |-> sites'[s]]
    BY <1>3 DEF ReleasedBy
  <2>3. DOMAIN sites' = DOMAIN sites
    BY <1>3 DEF ReleasedBy
  <2> QED BY <2>1, <2>2, <2>3
<1>13. ReservationsAreClaims'
  <2>1. ASSUME NEW w \in Ids, worker'[w].reserved > 0
        PROVE  /\ worker'[w].state = "ToSource"
               /\ worker'[w].source \in DOMAIN sites' /\ sites'[worker'[w].source].known
    <3>1. w \notin dead /\ worker'[w] = worker[w]
      BY <1>9, <2>1
    <3>2. /\ worker[w].state = "ToSource" /\ worker[w].source \in DOMAIN sites
          /\ sites[worker[w].source].known
      BY <1>1, <2>1, <3>1 DEF ReservationsAreClaims
    <3> QED BY <1>12, <3>1, <3>2
  <2> QED BY <1>12, <2>1 DEF ReservationsAreClaims
<1>14. WorkersOK'
  BY <1>1, <1>9 DEF WorkersOK, Sound
<1>15. /\ rest \in Seq(Loads) /\ gone \in Nat /\ Lying(rest) = Lying(dropped) - gone
       /\ dropped \in Seq(Loads) /\ Lying(dropped) \in Nat
  <2>1. dropped \in Seq(Loads)
    BY <1>1 DEF TypeOK
  <2> QED BY <1>2, <2>1, DropFirst, LyingFacts
<1> HIDE DEF rest, gone
<1>16. /\ dropped' \in Seq(Loads)
       /\ Lying(dropped') = Lying(rest) + CargoOf("sugar", dead) + CargoOf("protein", dead)
  BY <1>1, <1>3, <1>15, DroppedByFacts
<1>17. TypeOK'
  <2>1. turn' \in 0 .. Workers + 1 /\ lastSite' \in 0 .. SourceIds
        /\ cells' \in FirstCells .. MaxCells /\ scouts' \in 0 .. Max({ScoutCap, Workers})
    BY SMTT(30), <1>1, <1>3, ConstantTypes DEF TypeOK
  <2>2. /\ sites' \in [DOMAIN sites' -> SiteType] /\ DOMAIN sites' \subseteq 1 .. lastSite'
        /\ Cardinality(DOMAIN sites') <= MaxSources
    BY <1>1, <1>3, <1>12 DEF TypeOK
  <2>3. granary' \in Seq(HeapType')
    <3>1. HeapType' = HeapType
      BY <1>3 DEF HeapType
    <3> QED BY <1>6, <3>1
  <2>4. counted' \in Int
    BY <1>3, <1>4, <1>15
  <2> QED BY <1>7, <1>9, <1>11, <1>16, <2>1, <2>2, <2>3, <2>4 DEF TypeOK
<1>18. Balanced
  <2>1. InSites' = InSites /\ InSites \in Int
    BY <1>1, <1>12, SitesKept, SitesSum
  <2>2. InDropped = Lying(dropped) /\ InDropped' = Lying(dropped')
    BY TotalIsSum DEF InDropped, Amounts, Lying
  <2>3. Both(stores)' = Both(stores) - sugar - protein /\ Both(stores) \in Int
    <3>1. /\ stores'["sugar"] = stores["sugar"] - sugar
          /\ stores'["protein"] = stores["protein"] - protein
          /\ stores["sugar"] \in Int /\ stores["protein"] \in Int
      BY <1>4, <1>5, <1>7
    <3> QED BY ONLY <1>4, <3>1 DEF Both
  <2>4. /\ Both(carried)' = Both(carried) - CargoOf("sugar", dead) - CargoOf("protein", dead)
        /\ Both(carried) \in Int
        /\ CargoOf("sugar", dead) \in Int /\ CargoOf("protein", dead) \in Int
    <3>1. /\ carried'["sugar"] = carried["sugar"] - CargoOf("sugar", dead)
          /\ carried'["protein"] = carried["protein"] - CargoOf("protein", dead)
          /\ carried["sugar"] \in Int /\ carried["protein"] \in Int
          /\ CargoOf("sugar", dead) \in Int /\ CargoOf("protein", dead) \in Int
      BY <1>4, <1>10
    <3> QED BY ONLY <3>1 DEF Both
  <2>5. counted' = -sugar - protein - gone /\ gone \in Int /\ sugar \in Int /\ protein \in Int
        /\ Lying(rest) \in Int /\ Lying(dropped) \in Int
        /\ Lying(rest) = Lying(dropped) - gone
    BY <1>3, <1>4, <1>15
  <2>6. Food' = InSites' + Both(carried)' + InDropped' + Both(stores)'
    BY DEF Food
  <2>7. Food = InSites + Both(carried) + InDropped + Both(stores)
    BY DEF Food
  <2> DEFINE cs == CargoOf("sugar", dead)
             cp == CargoOf("protein", dead)
  <2>8. InDropped' = Lying(rest) + cs + cp /\ cs \in Int /\ cp \in Int
        /\ Both(carried)' = Both(carried) - cs - cp
    BY <1>16, <2>2, <2>4
  <2> HIDE DEF cs, cp
  <2>9. InDropped' = InDropped - gone + cs + cp
    BY ONLY <2>2, <2>5, <2>8
  <2>10. Food' = Food + counted'
    <3>1. ASSUME NEW a \in Int, NEW b \in Int, NEW c \in Int, NEW d \in Int,
                 NEW u \in Int, NEW v \in Int, NEW x \in Int, NEW y \in Int, NEW z \in Int
          PROVE  a + (b - u - v) + (c - z + u + v) + (d - x - y) = a + b + c + d + (-x - y - z)
      OBVIOUS
    <3>2. /\ InSites \in Int /\ Both(carried) \in Int /\ InDropped \in Int
          /\ Both(stores) \in Int /\ gone \in Int /\ sugar \in Int /\ protein \in Int
          /\ cs \in Int /\ cp \in Int
      BY ONLY <2>1, <2>2, <2>3, <2>4, <2>5, <2>8
    <3>3. Food' = InSites + (Both(carried) - cs - cp) + (InDropped - gone + cs + cp)
                  + (Both(stores) - sugar - protein)
      BY ONLY <2>1, <2>3, <2>6, <2>8, <2>9
    <3>4. InSites + (Both(carried) - cs - cp) + (InDropped - gone + cs + cp)
            + (Both(stores) - sugar - protein)
          = InSites + Both(carried) + InDropped + Both(stores) + (-sugar - protein - gone)
      BY ONLY SMTT(30), <3>1, <3>2
    <3> QED BY ONLY <2>5, <2>7, <3>3, <3>4
  <2> QED BY <2>10 DEF Balanced
<1> QED BY <1>8, <1>11, <1>13, <1>14, <1>17, <1>18 DEF FoodInv

-----------------------------------------------------------------------------
(* The founding *)

\* The founding heaps of each nutrient fill its share of the cells.
LEMMA FoundingHeaps ==
  ASSUME Init, NEW n \in Nutrients
  PROVE  /\ CapacityFor(n) \in Nat /\ stores[n] = CapacityFor(n)
         /\ Cardinality(Heaps(granary, n)) = Allowed(n) /\ Allowed(n) \in Nat
         /\ stores[n] = Total([i \in Heaps(granary, n) |-> granary[i].amount])
<1> DEFINE k == SugarCells(FirstCells)
           H == Heaps(granary, n)
           f == [i \in H |-> granary[i].amount]
<1>1. /\ FirstCells \in Nat /\ GrainsPerCell \in Nat /\ 0 < GrainsPerCell /\ cells = FirstCells
      /\ k \in Nat /\ k <= FirstCells
  BY ConstantTypes, SharesGrow DEF Init
<1>2. granary = [c \in 1 .. FirstCells |->
                   [cell |-> c, amount |-> GrainsPerCell,
                    nutrient |-> IF c <= k THEN "sugar" ELSE "protein"]]
  BY DEF Init
<1>3. Allowed(n) \in Nat /\ Allowed(n) = IF n = "sugar" THEN k ELSE FirstCells - k
  BY <1>1 DEF Allowed
<1>4. CapacityFor(n) \in Nat /\ CapacityFor(n) = Allowed(n) * GrainsPerCell
  BY <1>1, <1>3 DEF CapacityFor
<1>5. IsFiniteSet(H) /\ Cardinality(H) = Allowed(n)
  <2> HIDE DEF k
  <2>1. CASE n = "sugar"
    <3>1. H = 1 .. k
      BY <1>1, <1>2, <2>1 DEF Heaps
    <3>2. 1 \in Int /\ k \in Int
      BY <1>1
    <3>3. IsFiniteSet(1 .. k) /\ Cardinality(1 .. k) = IF 1 > k THEN 0 ELSE k - 1 + 1
      BY ONLY <3>2, FS_Interval
    <3>4. Cardinality(1 .. k) = k
      BY <1>1, <3>3
    <3> QED BY <1>3, <2>1, <3>1, <3>3, <3>4
  <2>2. CASE n = "protein"
    <3>1. H = k + 1 .. FirstCells
      BY <1>1, <1>2, <2>2 DEF Heaps
    <3>2. k + 1 \in Int /\ FirstCells \in Int
      BY <1>1
    <3>3. /\ IsFiniteSet(k + 1 .. FirstCells)
          /\ Cardinality(k + 1 .. FirstCells)
               = IF k + 1 > FirstCells THEN 0 ELSE FirstCells - (k + 1) + 1
      BY ONLY <3>2, FS_Interval
    <3>4. Cardinality(k + 1 .. FirstCells) = FirstCells - k
      BY <1>1, <3>3
    <3> QED BY <1>3, <2>2, <3>1, <3>3, <3>4
  <2> QED BY <2>1, <2>2 DEF Nutrients
<1>6. DOMAIN f = H /\ \A i \in H : f[i] = GrainsPerCell
  BY <1>2 DEF Heaps
<1> HIDE DEF H, f
<1>7. SumOf(f, H) = Cardinality(H) * GrainsPerCell
  <2>1. GrainsPerCell \in Int
    BY <1>1
  <2> QED BY ONLY <1>5, <1>6, <2>1, SumConstant
<1>8. Total(f) = CapacityFor(n)
  BY <1>4, <1>5, <1>6, <1>7, TotalIsSum
<1>9. stores[n] = CapacityFor(n)
  BY DEF Init
<1> QED BY <1>3, <1>4, <1>5, <1>8, <1>9 DEF f, H

\* Nobody holds a claim or a load at the founding.
LEMMA FoundingSums ==
  ASSUME Init
  PROVE  /\ worker \in [Ids -> WorkerType] /\ WorkersOK
         /\ \A s : ClaimsOn(s, Ids) = 0
         /\ \A n : InCargo(n) = 0
<1>1. worker = [w \in Ids |-> Idle]
  BY DEF Init
<1>2. Idle \in WorkerType /\ Idle.reserved = 0 /\ Idle.state = "AtHome" /\ Idle.cargo.amount = 0
  <2>1. NoLoad \in Loads /\ NoLoad.amount = 0
    BY DEF NoLoad, Loads, Nutrients
  <2>2. 0 \in 0 .. SourceIds /\ 0 \in 0 .. Carry /\ 0 \in 0 .. Patience /\ 0 \in 0 .. MaxCells
    BY ConstantTypes
  <2> QED BY <2>1, <2>2 DEF WorkerType, States, Idle
<1> HIDE DEF Idle
<1>3. worker \in [Ids -> WorkerType] /\ WorkersOK
  BY <1>1, <1>2 DEF WorkersOK, Sound
<1>4. IsFiniteSet(Ids) /\ Cardinality(Ids) \in Nat /\ 0 \in Int /\ Ids \in SUBSET Ids
  BY IdsFinite
<1>5. ASSUME NEW s PROVE ClaimsOn(s, Ids) = 0
  <2> DEFINE f == Claims(worker, s)
  <2>1. \A w \in Ids : f[w] = 0
    BY <1>1, <1>2 DEF Claims, ClaimOf
  <2> HIDE DEF f
  <2>2. SumOf(f, Ids) = Cardinality(Ids) * 0
    BY ONLY <1>4, <2>1, SumConstant
  <2>3. ClaimsOn(s, Ids) = SumOf(f, Ids)
    BY <1>3, <1>4, ClaimsSum DEF ClaimsOn, f
  <2> QED BY <1>4, <2>2, <2>3
<1>6. ASSUME NEW n PROVE InCargo(n) = 0
  <2> DEFINE f == Burdens(worker, n)
  <2>1. \A w \in Ids : f[w] = 0
    BY <1>1, <1>2 DEF Burdens, LoadOf
  <2> HIDE DEF f
  <2>2. SumOf(f, Ids) = Cardinality(Ids) * 0
    BY ONLY <1>4, <2>1, SumConstant
  <2>3. InCargo(n) = SumOf(f, Ids)
    BY <1>3, <1>4, BurdensSum DEF InCargo, CargoOf, f
  <2> QED BY <1>4, <2>2, <2>3
<1> QED BY <1>3, <1>5, <1>6

\* A new colony is in order.
LEMMA InitFood == Init => FoodInv
<1> SUFFICES ASSUME Init PROVE FoodInv
  OBVIOUS
<1>1. PICK amount \in SiteAmounts :
        sites = [s \in 1 .. 2 |-> [nutrient |-> IF s = 1 THEN "sugar" ELSE "protein",
                                   amount |-> amount, reserved |-> 0, known |-> TRUE]]
  BY DEF Init
<1>2. amount \in Nat /\ amount \in 0 .. Largest
  BY LargestFacts
<1>3. /\ DOMAIN sites = 1 .. 2 /\ sites \in [DOMAIN sites -> SiteType]
      /\ \A s \in DOMAIN sites : sites[s].reserved = 0 /\ sites[s].amount \in Nat
  BY <1>1, <1>2 DEF SiteType, Nutrients
<1>4. Cardinality(DOMAIN sites) <= MaxSources /\ DOMAIN sites \subseteq 1 .. lastSite
      /\ lastSite \in 0 .. SourceIds
  <2>1. 1 \in Int /\ 2 \in Int
    OBVIOUS
  <2>2. Cardinality(1 .. 2) = IF 1 > 2 THEN 0 ELSE 2 - 1 + 1
    BY ONLY <2>1, FS_Interval
  <2> QED BY <1>3, <2>2, ConstantTypes DEF Init
<1>5. /\ worker \in [Ids -> WorkerType] /\ WorkersOK
      /\ \A s : ClaimsOn(s, Ids) = 0
      /\ \A n : InCargo(n) = 0
  BY FoundingSums
<1>6. cells = FirstCells /\ cells \in FirstCells .. MaxCells
  BY ConstantTypes DEF Init
<1>7. granary \in Seq(HeapType)
  <2> DEFINE h(c) == [cell |-> c, amount |-> GrainsPerCell,
                      nutrient |-> IF c <= SugarCells(FirstCells) THEN "sugar" ELSE "protein"]
  <2>1. granary = [c \in 1 .. FirstCells |-> h(c)]
    BY DEF Init
  <2>2. GrainsPerCell \in 0 .. GrainsPerCell
    BY ConstantTypes
  <2>3. \A c \in 1 .. FirstCells : h(c) \in HeapType
    BY <1>6, <2>2 DEF HeapType, Nutrients
  <2> HIDE DEF h
  <2>4. granary \in [1 .. FirstCells -> HeapType]
    BY <2>1, <2>3
  <2> QED BY <2>4, ConstantTypes, SeqDef
<1>8. stores \in [Nutrients -> Nat]
  BY FoundingHeaps DEF Init
<1>9. TypeOK
  <2>1. turn \in 0 .. Workers + 1 /\ scouts \in 0 .. Max({ScoutCap, Workers})
    <3>1. Max({ScoutCap, Workers}) \in Int /\ Workers <= Max({ScoutCap, Workers})
      BY ConstantTypes, MaxOfTwo
    <3> QED BY <3>1, ConstantTypes DEF Init
  <2>2. dropped \in Seq(Loads) /\ carried \in [Nutrients -> Nat] /\ counted \in Int
    BY DEF Init
  <2> QED BY <1>3, <1>4, <1>5, <1>6, <1>7, <1>8, <2>1, <2>2 DEF TypeOK
<1>10. CargoOK
  BY <1>5 DEF CargoOK, Init
<1>11. StockOK
  BY FoundingHeaps DEF StockOK
<1>12. ReservationsAreClaims
  <2>1. \A w \in Ids : worker[w].reserved = 0
    BY DEF Init, Idle
  <2> QED BY <1>3, <1>5, <2>1 DEF ReservationsAreClaims
<1>13. HeapsApart
  BY DEF HeapsApart, Init
<1> QED BY <1>5, <1>9, <1>10, <1>11, <1>12, <1>13 DEF FoodInv

-----------------------------------------------------------------------------
(* The theorems *)

\* Every step keeps the invariant, and accounts for the food it moves.
LEMMA FoodStep ==
  ASSUME FoodInv, Next
  PROVE  FoodInv' /\ Balanced
<1>1. CASE BeginTick
  BY <1>1, BeginTickKeeps
<1>2. CASE Biology
  BY <1>2, BiologyKeeps
<1>3. CASE EndTick
  BY <1>3, EndTickKeeps
<1>4. ASSUME NEW w \in Ids, ProcessWorker(w)
      PROVE  FoodInv' /\ Balanced
  <2>1. CASE Pass(w)
    BY <2>1, PassKeeps
  <2>2. CASE Walk(w)
    BY <2>2, WalkKeeps
  <2>3. CASE GiveUp(w)
    BY <2>3, GiveUpKeeps
  <2>4. CASE ChooseSource(w)
    BY <2>4, ChooseSourceKeeps
  <2>5. CASE PickUp(w)
    BY <2>5, PickUpKeeps
  <2>6. CASE ComeHome(w)
    BY <2>6, ComeHomeKeeps
  <2>7. CASE WaitForStorage(w)
    BY <2>7, WaitForStorageKeeps
  <2>8. CASE Approach(w)
    BY <2>8, ApproachKeeps
  <2>9. CASE SetDown(w)
    BY <2>9, SetDownKeeps
  <2>10. CASE TurnHome(w)
    BY <2>10, TurnHomeKeeps
  <2>11. CASE StartScouting(w)
    BY <2>11, StartScoutingKeeps
  <2>12. CASE Discover(w)
    BY <2>12, DiscoverKeeps
  <2>13. CASE Clean(w)
    BY <2>13, CleanKeeps
  <2> QED
    BY <1>4, <2>1, <2>2, <2>3, <2>4, <2>5, <2>6, <2>7, <2>8, <2>9, <2>10, <2>11, <2>12, <2>13
       DEF ProcessWorker
<1> QED BY <1>1, <1>2, <1>3, <1>4 DEF Next

\* Standing still keeps the invariant.
LEMMA FoodStutter ==
  ASSUME FoodInv, UNCHANGED vars
  PROVE  FoodInv'
<1>1. /\ UNCHANGED <<turn, sites, lastSite, worker, scouts, granary>>
      /\ UNCHANGED <<stores, cells, dropped, carried, counted>>
  BY DEF vars
<1>2. TypeOK'
  <2>1. HeapType' = HeapType
    BY <1>1 DEF HeapType
  <2> QED BY <1>1, <2>1 DEF TypeOK, FoodInv
<1>3. CargoOK' /\ WorkersOK' /\ ReservationsAreClaims'
  BY <1>1 DEF FoodInv, CargoOK, InCargo, CargoOf, WorkersOK, ReservationsAreClaims, ClaimsOn
<1>4. StockOK' /\ HeapsApart'
  BY <1>1, StockKept DEF FoodInv
<1> QED BY <1>2, <1>3, <1>4 DEF FoodInv

\* The invariant holds in every state the colony reaches.
THEOREM FoodInvariance == Spec => []FoodInv
<1>1. FoodInv /\ [Next]_vars => FoodInv'
  BY FoodStep, FoodStutter
<1> QED BY InitFood, <1>1, PTL DEF Spec

\* The counters that room is judged by are the food they stand for, and no nutrient outgrows its
\* share of the cells, for any number of workers, sites and cells.
THEOREM CountersAreFood == Spec => []CountersMatch
<1>1. FoodInv => CountersMatch
  BY DEF FoodInv, CargoOK, StockOK, CountersMatch
<1> QED BY FoodInvariance, <1>1, PTL

\* What a site counts as reserved is exactly what living foragers on their way to it will take.
THEOREM ClaimsAreKept == Spec => []ReservationsAreClaims
<1>1. FoodInv => ReservationsAreClaims
  BY DEF FoodInv
<1> QED BY FoodInvariance, <1>1, PTL

\* A load finds a cell exactly while its nutrient has capacity left.
THEOREM RoomIsOffered == Spec => []RoomMeansTarget
<1>1. FoodInv => RoomMeansTarget
  <2> SUFFICES ASSUME FoodInv, NEW n \in Nutrients
               PROVE  stores[n] < CapacityFor(n) <=> StoreTargets(n) # {}
    BY DEF RoomMeansTarget
  <2>1. TypeOK
    BY DEF FoodInv
  <2>2. stores[n] \in Nat /\ CapacityFor(n) \in Nat
    BY <2>1, StateTypes, Capacity
  <2>3. CASE StoreTargets(n) = {}
    BY <2>2, <2>3, NoRoomLeft
  <2>4. CASE StoreTargets(n) # {}
    <3>1. PICK c : c \in StoreTargets(n)
      BY <2>4
    <3>2. Accepts(c, n)
      BY <3>1 DEF StoreTargets, Accepts
    <3> QED BY <2>4, <3>2, RoomLeft
  <2> QED BY <2>3, <2>4
<1> QED BY FoodInvariance, <1>1, PTL

\* A forager at the heap it is bound for always sets something down.
THEOREM DepositsMove == Spec => []DepositsNeverStall
<1>1. FoodInv => DepositsNeverStall
  <2> SUFFICES ASSUME FoodInv, NEW w \in Ids, ReadyToStore(w), NEW c \in Bound(w)
               PROVE  Placed(c, worker[w].cargo.nutrient, worker[w].cargo.amount) > 0
    BY DEF DepositsNeverStall
  <2> DEFINE n == worker[w].cargo.nutrient
             amount == worker[w].cargo.amount
  <2>1. n \in Nutrients /\ amount \in Nat
    BY StateTypes DEF FoodInv
  <2>2. amount > 0
    BY DEF FoodInv, WorkersOK, Sound, ReadyToStore
  <2>3. Accepts(c, n)
    BY BoundAccepts
  <2> HIDE DEF n, amount
  <2>4. Placed(c, n, amount) > 0
    BY <2>1, <2>2, <2>3, PlacedFacts
  <2> QED BY <2>4 DEF n, amount
<1> QED BY FoodInvariance, <1>1, PTL

\* Food is neither made nor lost: what there is changes by what the counters record.
THEOREM FoodIsConserved == Spec => FoodConserved
<1>1. FoodInv =>
        Food = InSites + InCargo("sugar") + InCargo("protein") + InDropped + Both(stores)
  <2> SUFFICES ASSUME FoodInv
               PROVE  Food = InSites + InCargo("sugar") + InCargo("protein") + InDropped
                             + Both(stores)
    OBVIOUS
  <2>1. carried["sugar"] = InCargo("sugar") /\ carried["protein"] = InCargo("protein")
    BY DEF FoodInv, CargoOK, Nutrients
  <2>2. carried["sugar"] \in Int /\ carried["protein"] \in Int /\ InSites \in Int
        /\ InDropped \in Int /\ Both(stores) \in Int
    BY StateTypes, SitesSum, DroppedSum, FoodIsNumber DEF FoodInv, Nutrients
  <2>3. Food = InSites + (carried["sugar"] + carried["protein"]) + InDropped + Both(stores)
    BY DEF Food, Both
  <2> QED BY ONLY <2>1, <2>2, <2>3
<1>2. (FoodInv =>
         Food = InSites + InCargo("sugar") + InCargo("protein") + InDropped + Both(stores))'
  BY <1>1, PTL
<1>3. FoodInv /\ FoodInv' /\ [Next]_vars =>
        [(InSites + InCargo("sugar") + InCargo("protein") + InDropped + Both(stores))'
         = InSites + InCargo("sugar") + InCargo("protein") + InDropped + Both(stores)
           + counted']_vars
  <2> SUFFICES ASSUME FoodInv, FoodInv', Next
               PROVE  (InSites + InCargo("sugar") + InCargo("protein") + InDropped
                       + Both(stores))'
                      = InSites + InCargo("sugar") + InCargo("protein") + InDropped
                        + Both(stores) + counted'
    OBVIOUS
  <2>1. Food' = Food + counted'
    BY FoodStep DEF Balanced
  <2>2. FoodInv' =>
          Food' = (InSites + InCargo("sugar") + InCargo("protein") + InDropped
                   + Both(stores))'
    BY <1>2
  <2>3. Food = InSites + InCargo("sugar") + InCargo("protein") + InDropped + Both(stores)
    BY <1>1
  <2> QED BY ONLY <2>1, <2>2, <2>3, FoodInv'
<1> QED BY FoodInvariance, <1>3, PTL DEF Spec, FoodConserved
===============================================================================
