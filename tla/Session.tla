-------------------------------- MODULE Session --------------------------------
(***************************************************************************)
(* The player's side of a run: src/src/game/session.cpp, the rules that    *)
(* admit its content (src/src/game/progression.cpp) and the purchases of   *)
(* the reference policy (src/src/game/policy.cpp).  Productive ticks of    *)
(* the workers become points of work in blocks; work buys levels of four   *)
(* adaptations; the focus may change every so often.  Operations map the   *)
(* session record to the one they leave, so that a run and its restored    *)
(* copy can be put through the same ones.                                  *)
(***************************************************************************)
EXTENDS Integers

CONSTANTS
  Base,          \* productive_ticks_per_work
  IndustryTier,  \* traits().industry_tier, fixed for a run
  Upgrades,      \* the adaptations: 1 .. 4 in the code, in the order of the policy
  Costs,         \* Costs[u][level]: the price of the level after it
  Cooldown,      \* focus_cooldown_ticks
  Focuses,       \* Balanced and the three others
  FocusCrew,     \* the workers a focus takes: 12 in the code
  Crews,         \* the living workers there may be: a bound
  Gains,         \* productive ticks a tick may bring: a bound
  Grants,        \* amounts of debug_grant_work: a bound
  MaxTick, MaxWork  \* bounds on time and on the work there is

VARIABLES
  run,           \* the session, with what it sees of its world
  booked         \* history: work spent and work granted

Block == IF IndustryTier >= 4 THEN (Base * 80) \div 100 ELSE Base
MaxLevel == 10

\* validate_progression: what content may ask for, prices that grow among it.
BaseRange == 1 .. 20000
CooldownRange == 0 .. 1200

ValidProgression ==
  /\ Base \in BaseRange /\ Cooldown \in CooldownRange
  /\ Costs \in [Upgrades -> [0 .. MaxLevel - 1 -> Nat \ {0}]]
  /\ \A u \in Upgrades, l \in 0 .. MaxLevel - 2 : Costs[u][l] <= Costs[u][l + 1]

\* A base of one with the fourth industry tier has no block: validate_progression admits it,
\* step divides by it.  Every other admitted base has one.
ASSUME SessionAssumption ==
  /\ ValidProgression
  /\ IndustryTier \in 0 .. 4 /\ Block \in Nat \ {0}
  /\ Gains \subseteq Nat /\ Grants \subseteq Nat
  /\ FocusCrew \in Nat /\ Crews \subseteq Nat
  /\ Upgrades \subseteq Nat \ {0}

None == [u \in Upgrades |-> 0]

NewSession ==
  [tick |-> 0, productive |-> 0, adaptation |-> None, focus |-> "Balanced", crew |-> 0,
   work |-> 0, remainder |-> 0, accounted |-> 0, levels |-> None, nextFocus |-> 0,
   assisted |-> FALSE]

-----------------------------------------------------------------------------
(* Session::step, after the world's. *)

\* Fault: what is left of a block is lost.
AccountedInFull(s) ==
  LET ticks == s.remainder + s.productive - s.accounted
  IN  [s EXCEPT !.work = @ + ticks \div Block, !.remainder = 0, !.accounted = s.productive]
Accounted(s) ==
  LET ticks == s.remainder + s.productive - s.accounted
  IN  [s EXCEPT !.work = @ + ticks \div Block, !.remainder = ticks % Block,
                !.accounted = s.productive]

\* A focus takes a crew, and time since the last change.
MayRefocus(s) == s.crew >= FocusCrew /\ s.tick >= s.nextFocus
Refocused(s, f) == [s EXCEPT !.focus = f, !.nextFocus = s.tick + Cooldown]

-----------------------------------------------------------------------------
(* Purchases. *)

NextCost(s, u) == Costs[u][s.levels[u]]
Affordable(s) == {u \in Upgrades : s.levels[u] < MaxLevel /\ NextCost(s, u) <= s.work}

Bought(s, u) ==
  LET levels == [s.levels EXCEPT ![u] = @ + 1]
  IN  [s EXCEPT !.work = @ - NextCost(s, u), !.levels = levels, !.adaptation = levels]

\* cheapest_affordable_upgrade: among equal prices the first.
Cheapest(s) ==
  CHOOSE u \in Affordable(s) :
    \A v \in Affordable(s) : \/ NextCost(s, u) < NextCost(s, v)
                             \/ NextCost(s, u) = NextCost(s, v) /\ u <= v

Granted(s, n) == [s EXCEPT !.work = @ + n, !.assisted = TRUE]

-----------------------------------------------------------------------------
InitSession == run = NewSession /\ booked = [spent |-> 0, granted |-> 0]

\* One tick of the world: p productive turns, and n workers alive after it.
Step(p, n) ==
  /\ run.tick < MaxTick
  /\ run' = Accounted([run EXCEPT !.productive = @ + p, !.tick = @ + 1, !.crew = n])
  /\ UNCHANGED booked

SetFocus(f) == MayRefocus(run) /\ run' = Refocused(run, f) /\ UNCHANGED booked

BuyUpgrade(u) ==
  /\ u \in Affordable(run)
  /\ run' = Bought(run, u)
  /\ booked' = [booked EXCEPT !.spent = @ + NextCost(run, u)]

\* One round of ScenarioPolicy::act's loop.
PolicyBuys == Affordable(run) # {} /\ BuyUpgrade(Cheapest(run))

DebugGrantWork(n) == /\ run.work + n <= MaxWork
                     /\ run' = Granted(run, n)
                     /\ booked' = [booked EXCEPT !.granted = @ + n]

NextSession ==
  \/ \E p \in Gains, n \in Crews : Step(p, n)
  \/ \E f \in Focuses : SetFocus(f)
  \/ \E u \in Upgrades : BuyUpgrade(u)
  \/ PolicyBuys
  \/ \E n \in Grants : DebugGrantWork(n)

SpecSession == InitSession /\ [][NextSession]_<<run, booked>>

\* What Session::restore asks of the counters.
CountersHold(s) ==
  /\ s.remainder < Block /\ s.accounted = s.productive /\ s.levels = s.adaptation
  /\ \A u \in Upgrades : s.levels[u] <= MaxLevel

-----------------------------------------------------------------------------
\* No productive tick is lost or paid twice, over any number of saves, purchases and grants: the
\* work there is and the work spent are the blocks of productive ticks plus what was granted, and
\* what is left is less than a block (session.cpp:27-34).
WorkBalances ==
  /\ (run.work + booked.spent - booked.granted) * Block + run.remainder = run.accounted
  /\ run.accounted <= run.productive
  /\ run.remainder \in 0 .. Block - 1

===============================================================================
