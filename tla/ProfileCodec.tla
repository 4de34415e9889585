----------------------------- MODULE ProfileCodec -----------------------------
(***************************************************************************)
(* src/src/persistence/profile_codec.cpp: what a profile document holds of *)
(* a run, the migrations of older documents, and the checks a document     *)
(* passes before its run is opened.  A document is a record; a profile     *)
(* between runs has no field "run".  The world is a small one: forage      *)
(* sites in a sequence, workers, heaps of one nutrient in rooms of cells.  *)
(***************************************************************************)
EXTENDS Integers, Sequences, FiniteSetsExt

CONSTANTS
  Grains,        \* kGrainsPerStoreCell
  FoundingRooms  \* the store cells of the room set this seed is founded with

Current == 4  \* kCurrentSchemaVersion

Untiered == [vigor |-> 0, industry |-> 0]
MaxTier == 4
MaxWinged == 10

TotalOf(f) == MapThenSumSet(LAMBDA i : f[i], DOMAIN f)
InRun(d, change(_)) == IF "run" \in DOMAIN d THEN [d EXCEPT !.run = change(@)] ELSE d

-----------------------------------------------------------------------------
(* Documents of older programs, as far as the migrations read them. *)

IndexOf(sources, id) ==
  LET held == {i \in DOMAIN sources : sources[i].id = id} IN IF held = {} THEN -1 ELSE Max(held) - 1

\* A record without some of its fields, or with other ones.
Lacking(r, names) == [n \in DOMAIN r \ names |-> r[n]]
Having(r, more) ==
  [n \in DOMAIN r \cup DOMAIN more |-> IF n \in DOMAIN more THEN more[n] ELSE r[n]]

\* A worker names its site by place in the list, from 0.
ByPlace(r, a) == Having(Lacking(a, {"source"}), [index |-> IndexOf(r.sources, a.source)])
BeforeRooms(r) ==
  [Lacking(r, {"rooms"}) EXCEPT
     !.sources = [i \in DOMAIN @ |-> Lacking(@[i], {"known"})],
     !.ants = [a \in DOMAIN @ |-> ByPlace(r, @[a])]]

BeforeTraits(r) ==
  [Lacking(r, {"traits", "mature", "eggs"}) EXCEPT
     !.brood = [b \in DOMAIN @ |-> Lacking(@[b], {"role"})]]

\* What the program that wrote version v would have written of the same run.
Older(v, r) ==
  LET v3 == Lacking(r, {"passages"})
  IN  CASE v = 4 -> r [] v = 3 -> v3 [] v = 2 -> BeforeRooms(v3)
        [] v \in {0, 1} -> BeforeTraits(BeforeRooms(v3))
AsVersion(v, d) ==
  LET head == [d EXCEPT !.version = v]
  IN  InRun(IF v < 2 THEN Lacking(head, {"receipt"}) ELSE head, LAMBDA r : Older(v, r))

-----------------------------------------------------------------------------
(* Migrations, in memory. *)

\* migrate_v1_to_v2: castes, traits, maturity, the flight receipt.
Traited(r) ==
  Having(r, [traits |-> Untiered, mature |-> FALSE, eggs |-> 0,
             brood |-> [b \in DOMAIN r.brood |-> Having(r.brood[b], [role |-> "Worker"])]])
MigrateV1(d) == InRun(Having(d, [version |-> 2, receipt |-> "None"]), Traited)

\* migrate_v2_to_v3: sites become known and finite, workers name theirs by id, and the colony
\* has the rooms a colony of its seed is founded with.
ById(r, a) ==
  Having(Lacking(a, {"index"}),
         [source |-> IF a.index \in 0 .. Len(r.sources) - 1 THEN r.sources[a.index + 1].id ELSE 0])
Known(s) == Having(s, [known |-> TRUE])
Roomed(r, workers) ==
  Having(r, [rooms |-> FoundingRooms, ants |-> workers,
             sources |-> [i \in DOMAIN r.sources |-> Known(r.sources[i])]])

\* Fault: a worker on its way keeps its claim and loses its site.
MigrateV2Unnamed(d) ==
  InRun([d EXCEPT !.version = 3],
        LAMBDA r : Roomed(r, [a \in DOMAIN r.ants |-> Having(r.ants[a], [source |-> 0])]))
MigrateV2(d) ==
  InRun([d EXCEPT !.version = 3],
        LAMBDA r : Roomed(r, [a \in DOMAIN r.ants |-> ById(r, r.ants[a])]))

\* Passages cannot be read off old ground: there are none.
MigrateV3(d) == InRun([d EXCEPT !.version = 4], LAMBDA r : Having(r, [passages |-> {}]))

\* decode_profile up to read_profile, which takes the current version only: a document of
\* version 0 goes through the second migration alone and is refused.
Migrated(d) ==
  LET second == IF d.version = 1 THEN MigrateV1(d) ELSE d
      third == IF second.version \in {0, 2} THEN MigrateV2(second) ELSE second
  IN  IF d.version \in 1 .. 3 THEN MigrateV3(third) ELSE third

-----------------------------------------------------------------------------
(* Validation. *)

Reserved(r, id) ==
  LET mine == {a \in DOMAIN r.ants : r.ants[a].source = id}
  IN  TotalOf([a \in mine |-> r.ants[a].reserved])

\* validate_world on sites and claims, which World::invariant_holds asks again.
SourcesHold(r) ==
  /\ \A i, j \in DOMAIN r.sources : r.sources[i].id = r.sources[j].id => i = j
  /\ \A i \in DOMAIN r.sources :
       /\ 0 <= r.sources[i].reserved /\ r.sources[i].reserved <= r.sources[i].amount
       /\ r.sources[i].reserved = Reserved(r, r.sources[i].id)
  /\ \A a \in DOMAIN r.ants :
       r.ants[a].reserved > 0 => IndexOf(r.sources, r.ants[a].source) >= 0

\* Heaps are what is stored; a document without any has its heaps laid out on restoring.
HeapsHold(r, stored) ==
  /\ \A c \in DOMAIN r.heaps : r.heaps[c] \in 0 .. Grains /\ c \in r.open
  /\ DOMAIN r.heaps # {} => TotalOf(r.heaps) = stored

ValidWorld(r) ==
  /\ SourcesHold(r) /\ HeapsHold(r, r.stored)
  /\ \A i \in DOMAIN r.sources : r.sources[i].at \in r.open
  /\ \A a \in DOMAIN r.ants :
       LET ant == r.ants[a]
       IN  ant.at \in r.open /\ (ant.valid => \A k \in DOMAIN ant.path : ant.path[k] \in r.open)
  /\ r.passages \subseteq r.open
  /\ r.traits.vigor <= MaxTier /\ r.traits.industry <= MaxTier
  /\ Cardinality({b \in DOMAIN r.brood : r.brood[b].role = "Gyne"}) <= MaxWinged
  /\ r.mature \/ r.eggs = 0

===============================================================================
