------------------------------- MODULE Prestige -------------------------------
(***************************************************************************)
(* The durable progression actions of src/src/game/prestige.cpp: what each one *)
(* requires of the profile it is offered, and the candidate it builds.     *)
(* They are pure; App.tla commits the candidates and applies them.         *)
(*                                                                         *)
(* A session is abstracted to the facts the flight looks at and the traits *)
(* baked into its world.  A profile, a session and a flight carry one      *)
(* history field each (history, colony and helped), which no definition    *)
(* that models code reads: it names a colony independently of its run id.  *)
(***************************************************************************)
EXTENDS Integers, FiniteSets

CONSTANTS
  MaxLegacy,      \* numeric_limits<int64_t>::max()
  MaxGeneration,  \* numeric_limits<uint64_t>::max()
  Digits          \* of a register in base four: 32 for the code's 64 bits

ASSUME PrestigeAssumption ==
  MaxLegacy \in Nat /\ MaxGeneration \in Nat \ {0} /\ Digits \in Nat \ {0}

kBirthStep == 150
kQueenStep == 3
kMaxCountedQueens == 10
kMaxTraitTier == 4
kTraitCosts == <<3, 7, 15, 32>>

TraitBranch == {"vigor", "industry"}

NoRun == [id |-> <<0, 0>>]
NoReceipt == [id |-> <<0, 0>>, payout |-> 0]

-----------------------------------------------------------------------------
(* Payout *)

PowerOfFour[i \in 0 .. Digits] == IF i = 0 THEN 1 ELSE 4 * PowerOfFour[i - 1]

\* The highest even bit and the size of the register: 2^62 and 2^64 in the code.
TopBit == PowerOfFour[Digits - 1]
Register == PowerOfFour[Digits]

\* One turn of the second loop of integer_sqrt; nothing is left to do once the bit is gone.
RootDigit(s) ==
  LET trial == (s.result + s.bit) % Register
  IN  IF s.bit = 0 THEN s
      ELSE IF s.remainder >= trial
      THEN [bit |-> s.bit \div 4, remainder |-> s.remainder - trial,
            result |-> (s.result \div 2 + s.bit) % Register]
      ELSE [bit |-> s.bit \div 4, remainder |-> s.remainder, result |-> s.result \div 2]

\* The restoring root: the bit comes down to the value, and then goes down digit by digit.
IntegerSqrt(value) ==
  LET aligned[i \in 0 .. Digits] ==
        IF i = 0 THEN TopBit
        ELSE IF aligned[i - 1] > value THEN aligned[i - 1] \div 4 ELSE aligned[i - 1]
      root[i \in 0 .. Digits] ==
        IF i = 0 THEN [bit |-> aligned[Digits], remainder |-> value, result |-> 0]
        ELSE RootDigit(root[i - 1])
  IN IF value < 2 THEN value ELSE root[Digits].result

QueenBonus(winged) ==
  (IF winged > kMaxCountedQueens THEN kMaxCountedQueens ELSE winged) \div kQueenStep

FlightPayout(births, winged) ==
  2 + IntegerSqrt(births \div kBirthStep) + QueenBonus(winged)

-----------------------------------------------------------------------------
(* Sessions and profiles *)

\* Session::Session(seed, content, traits): a newborn colony.
FreshSession(traits, colony) ==
  [traits |-> traits, births |-> 0, winged |-> 0, mature |-> FALSE, queen |-> TRUE,
   assisted |-> FALSE, colony |-> colony, helped |-> FALSE]

TraitModifiers(meta) == [b \in TraitBranch |-> meta.tier[b]]

FreshMeta ==
  [wallet |-> 0, earned |-> 0, spent |-> 0, tier |-> [b \in TraitBranch |-> 0],
   generation |-> 1, flights |-> 0]

RunId(seed, generation) == <<seed, generation>>

FlightEligible(s) == s.mature /\ s.queen /\ s.winged >= 3 /\ ~s.assisted

NotStale(current, expectedRevision) == current.revision = expectedRevision

\* The receipt of the active run is not already in the profile.
NotCredited(current) ==
  current.receipt = NoReceipt \/ current.receipt.id # current.run.id

-----------------------------------------------------------------------------
(* The durable actions: CanX is the accepted guard, X the candidate *)

CanFly(current, s, expectedRun, expectedRevision) ==
  /\ NotStale(current, expectedRevision)
  /\ current.phase = "ActiveRun" /\ current.run # NoRun
  /\ current.run.id = expectedRun
  /\ NotCredited(current)
  /\ FlightEligible(s)
  /\ FlightPayout(s.births, s.winged) + current.meta.earned <= MaxLegacy
  /\ FlightPayout(s.births, s.winged) + current.meta.wallet <= MaxLegacy

\* Fault: the run is paid for and goes on.
FlyKeepsRun(current, s) ==
  LET payout == FlightPayout(s.births, s.winged)
  IN [current EXCEPT
        !.meta.wallet = @ + payout,
        !.meta.earned = @ + payout,
        !.meta.flights = @ + 1,
        !.receipt = [id |-> current.run.id, payout |-> payout],
        !.history.flown = @ \cup {[colony |-> s.colony, payout |-> payout,
                                   births |-> s.births, winged |-> s.winged,
                                   helped |-> s.helped]}]

Fly(current, s) ==
  LET payout == FlightPayout(s.births, s.winged)
  IN [current EXCEPT
        !.meta.wallet = @ + payout,
        !.meta.earned = @ + payout,
        !.meta.flights = @ + 1,
        !.receipt = [id |-> current.run.id, payout |-> payout],
        !.phase = "BetweenRuns",
        !.run = NoRun,
        !.history.flown = @ \cup {[colony |-> s.colony, payout |-> payout,
                                   births |-> s.births, winged |-> s.winged,
                                   helped |-> s.helped]}]

\* next_trait_cost's table entry; tiers are linear inside a branch.
TraitCost(tier) == kTraitCosts[tier + 1]

CanBuyTrait(current, branch, expectedRevision) ==
  /\ NotStale(current, expectedRevision)
  /\ current.phase = "BetweenRuns"
  /\ current.meta.tier[branch] < kMaxTraitTier
  /\ current.meta.wallet >= TraitCost(current.meta.tier[branch])

\* Fault: the price of the tier above the one bought.
BuyTraitNextPrice(current, branch) ==
  LET cost == TraitCost(IF current.meta.tier[branch] = 0 THEN 0
                        ELSE current.meta.tier[branch] - 1)
  IN [current EXCEPT
        !.meta.wallet = @ - cost,
        !.meta.spent = @ + cost,
        !.meta.tier[branch] = @ + 1]

BuyTrait(current, branch) ==
  LET cost == TraitCost(current.meta.tier[branch])
  IN [current EXCEPT
        !.meta.wallet = @ - cost,
        !.meta.spent = @ + cost,
        !.meta.tier[branch] = @ + 1]

CanFoundRun(current, expectedRevision) ==
  /\ NotStale(current, expectedRevision)
  /\ current.phase = "BetweenRuns" /\ current.run = NoRun
  /\ current.meta.generation < MaxGeneration

\* Fault: the generation is not counted.
FoundRunSameGeneration(current, seed) ==
  LET colony == current.history.founded + 1
  IN [current EXCEPT
        !.phase = "ActiveRun",
        !.run = [id |-> RunId(seed, current.meta.generation),
                 session |-> FreshSession(TraitModifiers(current.meta), colony)],
        !.history.founded = colony,
        !.history.ids = @ \cup {RunId(seed, current.meta.generation)}]

\* prepare_new_run.
FoundRun(current, seed) ==
  LET generation == current.meta.generation + 1
      colony == current.history.founded + 1
  IN [current EXCEPT
        !.meta.generation = generation,
        !.phase = "ActiveRun",
        !.run = [id |-> RunId(seed, generation),
                 session |-> FreshSession(TraitModifiers(current.meta), colony)],
        !.history.founded = colony,
        !.history.ids = @ \cup {RunId(seed, generation)}]

CanAbandon(current, expectedRevision) ==
  /\ NotStale(current, expectedRevision)
  /\ current.phase = "ActiveRun" /\ current.run # NoRun

Abandon(current) == [current EXCEPT !.phase = "BetweenRuns", !.run = NoRun]
=============================================================================
