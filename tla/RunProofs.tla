------------------------------- MODULE RunProofs -------------------------------
(***************************************************************************)
(* Theorems about six parts of a run:                                      *)
(*                                                                         *)
(* The session.  Work balances, and a run can always be opened again as    *)
(* far as its counters go, for every block, price list and number of       *)
(* workers.  The inductive invariant adds the types and what a step        *)
(* restores: the world's counter is accounted for in full and the world    *)
(* has the levels that were bought.                                        *)
(*                                                                         *)
(* The choice of tasks.  What a draw does for every weight: the models     *)
(* that leave the choice open leave open what the code can choose.         *)
(*                                                                         *)
(* The trails.  The field that computes only where trails are is the field *)
(* that computes everywhere, for every ground, every neighbourhood in      *)
(* which neighbours see each other, and every weight.  The invariant the   *)
(* swap of the two fields needs: the spare one is blank, and the cells     *)
(* listed as active are those that carry a trail.                          *)
(*                                                                         *)
(* The main loop.  Every property of MainLoop, for any autosave interval,  *)
(* any frame times and any set of speeds.                                  *)
(*                                                                         *)
(* The interface.  A colony is only given up on purpose and every request  *)
(* is carried out in the scene it was made in, for any window.  The        *)
(* invariant follows a press from its edge through capture and arming to   *)
(* the request; drawing keeps it because what every control of a page      *)
(* keeps, the page keeps.                                                  *)
(*                                                                         *)
(* The saved run.  Between steps every world opens again, whatever version *)
(* wrote it, and its copy has its future; work balances and the trails are *)
(* dense over saving and opening.  The invariant has three parts: the land *)
(* (heaps on open ground, and no more than fits), the crew (claims are the *)
(* forager's, and name a site) and life (who can lay, and tidy trails).    *)
(* A document holds what the parts say, and every migration keeps it.      *)
(***************************************************************************)
EXTENDS SavedRun, Tasks, TrailField, MainLoop, Interface, Totals, SequenceTheorems, TLAPS
-----------------------------------------------------------------------------
(* The session *)

LevelRecord == [Upgrades -> 0 .. MaxLevel]
FocusSet == Focuses \cup {"Balanced"}
SessionRecord ==
  [tick : Nat, productive : Nat, adaptation : LevelRecord, focus : FocusSet, crew : Nat,
   work : Nat, remainder : Nat, accounted : Nat, levels : LevelRecord, nextFocus : Nat,
   assisted : BOOLEAN]

SessionTypeOK == run \in SessionRecord /\ booked \in [spent : Nat, granted : Nat]

IInv == SessionTypeOK /\ WorkBalances /\ CountersHold(run)

-----------------------------------------------------------------------------
\* Ticks in blocks and ticks left over are all the ticks (session.cpp:28-29).
LEMMA Division ==
  ASSUME NEW n \in Nat, NEW b \in Nat \ {0}
  PROVE  /\ n \div b \in Nat /\ n % b \in 0 .. b - 1
         /\ (n \div b) * b + (n % b) = n
BY SMT

\* Paying out a quotient adds its blocks to what was paid before.
LEMMA PaidOut ==
  ASSUME NEW x \in Int, NEW q \in Int, NEW b \in Int
  PROVE  (x + q) * b = x * b + q * b
BY SMT

\* What content admits of each number (validate_progression).
LEMMA BlockIs == Block \in Nat \ {0}
BY Zenon, SessionAssumption

LEMMA GainsAre == Gains \subseteq Nat /\ Grants \subseteq Nat
BY Zenon, SessionAssumption

LEMMA CostsAre == Costs \in [Upgrades -> [0 .. MaxLevel - 1 -> Nat \ {0}]]
<1>1. ValidProgression
  BY Zenon, SessionAssumption
<1> QED BY <1>1 DEF ValidProgression

LEMMA CooldownIs == Cooldown \in Nat
<1>1. ValidProgression
  BY Zenon, SessionAssumption
<1> QED BY <1>1 DEF ValidProgression, CooldownRange

\* A new session owes nothing and has bought nothing (session.cpp:11-16).
LEMMA InitHolds == InitSession => IInv
<1> SUFFICES ASSUME InitSession PROVE IInv
  OBVIOUS
<1>1. None \in LevelRecord /\ "Balanced" \in FocusSet
  BY DEF None, MaxLevel, LevelRecord, FocusSet
<1>2. SessionTypeOK
  BY <1>1 DEF InitSession, NewSession, SessionTypeOK, SessionRecord
<1>3. Block \in Nat \ {0}
  BY BlockIs
<1>4. WorkBalances
  BY <1>3 DEF InitSession, NewSession, WorkBalances
<1>5. CountersHold(run)
  BY <1>3 DEF InitSession, NewSession, CountersHold, None, MaxLevel
<1> QED
  BY <1>2, <1>4, <1>5 DEF IInv

\* A step pays the full blocks of what came in and keeps the rest.
LEMMA StepHolds ==
  ASSUME IInv, NEW p \in Nat, NEW n \in Nat, Step(p, n)
  PROVE  IInv'
<1> DEFINE ticks == run.remainder + (run.productive + p) - run.accounted
           paid == ticks \div Block
<1>1. /\ run \in SessionRecord /\ p \in Nat /\ n \in Nat /\ Block \in Nat \ {0}
      /\ booked \in [spent : Nat, granted : Nat] /\ booked' = booked
  BY BlockIs, GainsAre DEF IInv, SessionTypeOK, Step
<1>2. run' = [run EXCEPT !.productive = run.productive + p, !.tick = run.tick + 1,
                         !.crew = n, !.work = run.work + paid,
                         !.remainder = ticks % Block, !.accounted = run.productive + p]
  BY <1>1 DEF Step, Accounted, SessionRecord
<1>3. run.accounted = run.productive /\ run.remainder \in Nat /\ ticks = run.remainder + p
  BY <1>1 DEF IInv, CountersHold, SessionRecord
<1>4. ticks \in Nat
  BY <1>1, <1>3
<1>5. /\ paid \in Nat /\ ticks % Block \in 0 .. Block - 1
      /\ paid * Block + (ticks % Block) = ticks
  BY <1>1, <1>4, Division
<1> HIDE DEF ticks, paid
<1>6. SessionTypeOK'
  <2> DEFINE made == run.productive + p
             later == run.tick + 1
             work == run.work + paid
             rest == ticks % Block
  <2>1. made \in Nat /\ later \in Nat /\ work \in Nat /\ rest \in Nat
    BY <1>1, <1>5 DEF SessionRecord
  <2>2. run' = [run EXCEPT !.productive = made, !.tick = later, !.crew = n, !.work = work,
                           !.remainder = rest, !.accounted = made]
    BY <1>2
  <2> HIDE DEF made, later, work, rest
  <2>3. run' \in SessionRecord
    BY <1>1, <2>1, <2>2 DEF SessionRecord
  <2> QED
    BY <1>1, <2>3 DEF SessionTypeOK
<1>7. WorkBalances'
  <2> DEFINE had == run.work + booked.spent - booked.granted
  <2>1. had \in Int /\ had * Block + run.remainder = run.accounted
    BY <1>1 DEF IInv, WorkBalances, SessionRecord
  <2>2. run'.work + booked'.spent - booked'.granted = had + paid
    BY <1>1, <1>2, <1>5 DEF SessionRecord
  <2>3. (had + paid) * Block = had * Block + paid * Block
    BY <1>1, <1>5, <2>1, PaidOut
  <2>4. had * Block \in Int /\ paid * Block \in Int
    BY <1>1, <1>5, <2>1
  <2> HIDE DEF had
  <2>5. (had + paid) * Block + (ticks % Block) = run.productive + p
    BY <1>1, <1>3, <1>5, <2>1, <2>3, <2>4 DEF SessionRecord
  <2>6. run'.remainder = ticks % Block /\ run'.accounted = run.productive + p
        /\ run'.productive = run.productive + p
    BY <1>1, <1>2 DEF SessionRecord
  <2> QED
    BY <1>1, <1>5, <2>2, <2>5, <2>6 DEF WorkBalances, SessionRecord, Block
<1>8. CountersHold(run')
  BY <1>1, <1>2, <1>5 DEF IInv, CountersHold, SessionRecord
<1> QED
  BY <1>6, <1>7, <1>8 DEF IInv, CountersHold

\* A focus touches none of the counters.
LEMMA FocusHolds ==
  ASSUME IInv, NEW f \in Focuses, SetFocus(f)
  PROVE  IInv'
<1>1. run \in SessionRecord /\ Cooldown \in Nat
  BY CooldownIs DEF IInv, SessionTypeOK
<1>2. run' = [run EXCEPT !.focus = f, !.nextFocus = run.tick + Cooldown] /\ booked' = booked
  BY DEF SetFocus, Refocused
<1>3. SessionTypeOK'
  <2> DEFINE until == run.tick + Cooldown
  <2>1. until \in Nat /\ f \in FocusSet
    BY <1>1 DEF SessionRecord, FocusSet
  <2>2. run' = [run EXCEPT !.focus = f, !.nextFocus = until]
    BY <1>2
  <2> HIDE DEF until
  <2>3. run' \in SessionRecord
    BY <1>1, <2>1, <2>2 DEF SessionRecord
  <2> QED
    BY <1>2, <2>3 DEF IInv, SessionTypeOK
<1>4. WorkBalances' /\ CountersHold(run')
  BY <1>1, <1>2 DEF IInv, WorkBalances, CountersHold, SessionRecord, Block
<1> QED
  BY <1>3, <1>4 DEF IInv, CountersHold

\* A purchase moves work to what is spent, and the world gets the level that was bought.
LEMMA BuyHolds ==
  ASSUME IInv, NEW u \in Upgrades, BuyUpgrade(u)
  PROVE  IInv'
<1> DEFINE cost == NextCost(run, u)
           levels == [run.levels EXCEPT ![u] = run.levels[u] + 1]
<1>1. /\ run \in SessionRecord /\ booked \in [spent : Nat, granted : Nat]
      /\ run.levels \in [Upgrades -> 0 .. MaxLevel]
  BY DEF IInv, SessionTypeOK, SessionRecord, LevelRecord
<1>2. run.levels[u] < MaxLevel /\ cost <= run.work
  BY DEF BuyUpgrade, Affordable
<1>3. cost \in Nat
  <2>1. run.levels[u] \in 0 .. MaxLevel - 1
    BY <1>1, <1>2 DEF MaxLevel
  <2>2. Costs[u] \in [0 .. MaxLevel - 1 -> Nat \ {0}]
    BY CostsAre
  <2>3. Costs[u][run.levels[u]] \in Nat
    BY <2>1, <2>2
  <2> QED
    BY <2>3 DEF NextCost
<1>4. levels \in [Upgrades -> 0 .. MaxLevel]
  BY <1>1, <1>2 DEF MaxLevel
<1>5. /\ run' = [run EXCEPT !.work = run.work - cost, !.levels = levels, !.adaptation = levels]
      /\ booked' = [booked EXCEPT !.spent = booked.spent + cost]
  BY DEF BuyUpgrade, Bought
<1> HIDE DEF cost, levels
<1>6. SessionTypeOK'
  <2> DEFINE left == run.work - cost
             spent == booked.spent + cost
  <2>1. left \in Nat /\ spent \in Nat /\ levels \in LevelRecord
    BY <1>1, <1>2, <1>3, <1>4 DEF SessionRecord, LevelRecord
  <2>2. /\ run' = [run EXCEPT !.work = left, !.levels = levels, !.adaptation = levels]
        /\ booked' = [booked EXCEPT !.spent = spent]
    BY <1>5
  <2> HIDE DEF left, spent
  <2>3. run' \in SessionRecord
    BY <1>1, <2>1, <2>2 DEF SessionRecord
  <2>4. booked' \in [spent : Nat, granted : Nat]
    BY <1>1, <2>1, <2>2
  <2> QED
    BY <2>3, <2>4 DEF SessionTypeOK
<1>7. run'.work + booked'.spent - booked'.granted = run.work + booked.spent - booked.granted
  BY <1>1, <1>3, <1>5 DEF SessionRecord
<1>8. /\ run'.remainder = run.remainder /\ run'.accounted = run.accounted
      /\ run'.productive = run.productive /\ run'.levels = levels /\ run'.adaptation = levels
  BY <1>1, <1>5 DEF SessionRecord
<1>9. WorkBalances' /\ CountersHold(run')
  BY <1>4, <1>7, <1>8 DEF IInv, WorkBalances, CountersHold, Block, MaxLevel
<1> QED
  BY <1>6, <1>9 DEF IInv, CountersHold

\* A grant is booked as one.
LEMMA GrantHolds ==
  ASSUME IInv, NEW n \in Grants, DebugGrantWork(n)
  PROVE  IInv'
<1>1. run \in SessionRecord /\ booked \in [spent : Nat, granted : Nat] /\ n \in Nat
  BY GainsAre DEF IInv, SessionTypeOK
<1>2. /\ run' = [run EXCEPT !.work = run.work + n, !.assisted = TRUE]
      /\ booked' = [booked EXCEPT !.granted = booked.granted + n]
  BY DEF DebugGrantWork, Granted
<1>3. SessionTypeOK'
  <2> DEFINE work == run.work + n
             granted == booked.granted + n
  <2>1. work \in Nat /\ granted \in Nat
    BY <1>1 DEF SessionRecord
  <2>2. /\ run' = [run EXCEPT !.work = work, !.assisted = TRUE]
        /\ booked' = [booked EXCEPT !.granted = granted]
    BY <1>2
  <2> HIDE DEF work, granted
  <2>3. run' \in SessionRecord
    BY <1>1, <2>1, <2>2 DEF SessionRecord
  <2>4. booked' \in [spent : Nat, granted : Nat]
    BY <1>1, <2>1, <2>2
  <2> QED
    BY <2>3, <2>4 DEF SessionTypeOK
<1>4. run'.work + booked'.spent - booked'.granted = run.work + booked.spent - booked.granted
  BY <1>1, <1>2 DEF SessionRecord
<1>5. WorkBalances' /\ CountersHold(run')
  BY <1>1, <1>2, <1>4 DEF IInv, WorkBalances, CountersHold, SessionRecord, Block
<1> QED
  BY <1>3, <1>5 DEF IInv, CountersHold

\* Every step keeps the invariant.
LEMMA NextHolds == IInv /\ [NextSession]_<<run, booked>> => IInv'
<1> SUFFICES ASSUME IInv, [NextSession]_<<run, booked>> PROVE IInv'
  OBVIOUS
<1>1. CASE \E p \in Gains, n \in Crews : Step(p, n)
  BY <1>1, StepHolds, SessionAssumption
<1>2. CASE \E f \in Focuses : SetFocus(f)
  BY <1>2, FocusHolds
<1>3. CASE \E u \in Upgrades : BuyUpgrade(u)
  BY <1>3, BuyHolds
<1>4. CASE PolicyBuys
  <2>1. PICK u \in Upgrades : BuyUpgrade(u)
    BY <1>4 DEF PolicyBuys, BuyUpgrade, Affordable
  <2> QED
    BY <2>1, BuyHolds
<1>5. CASE \E n \in Grants : DebugGrantWork(n)
  BY <1>5, GrantHolds
<1>6. CASE UNCHANGED <<run, booked>>
  BY <1>6 DEF IInv, SessionTypeOK, WorkBalances, CountersHold, Block
<1> QED
  BY <1>1, <1>2, <1>3, <1>4, <1>5, <1>6 DEF NextSession

\* It holds in every reachable state.
LEMMA Inductive == SpecSession => []IInv
<1> QED
  BY InitHolds, NextHolds, PTL DEF SpecSession

-----------------------------------------------------------------------------
\* No productive tick of a run is lost or paid twice, whatever is bought or granted
\* (session.cpp:21-34, 55-67, 113-119).
THEOREM WorkAlwaysBalances == SpecSession => []WorkBalances
<1>1. IInv => WorkBalances
  BY DEF IInv
<1> QED
  BY <1>1, Inductive, PTL

\* Session::restore accepts the counters of every run it can be asked to (session.cpp:86-97).
THEOREM RunsCanBeRestored == SpecSession => []CountersHold(run)
<1>1. IInv => CountersHold(run)
  BY DEF IInv
<1> QED
  BY <1>1, Inductive, PTL

-----------------------------------------------------------------------------
(* The choice of tasks *)

\* A share of a quantity never exceeds the quantity.
LEMMA ShareBounded ==
  ASSUME NEW a \in Nat \ {0}, NEW b \in Nat
  PROVE  (a * Sure) \div (a + b) \in 0 .. Sure
<1> DEFINE whole == a + b
           q == (a * Sure) \div whole
<1>0. Sure \in Nat  BY SureAssumption
<1>1. whole \in Nat \ {0} /\ a <= whole  OBVIOUS
<1>2. a * Sure \in Nat /\ whole * Sure \in Nat  BY <1>0, <1>1
<1>3. a * Sure <= whole * Sure
  <2>1. b * Sure \in Nat  BY <1>0
  <2>2. whole * Sure = a * Sure + b * Sure  BY <1>0
  <2> QED  BY <2>1, <2>2, <1>2
<1>4. ASSUME NEW x \in Nat, NEW d \in Nat \ {0}, NEW s \in Nat, x <= d * s
      PROVE  x \div d \in 0 .. s
  <2>1. x \div d \in Nat /\ d * (x \div d) <= x  OBVIOUS
  <2>2. SUFFICES ASSUME x \div d > s PROVE FALSE  BY <2>1
  <2>3. (x \div d) >= s + 1  BY <2>1, <2>2
  <2>4. d * (x \div d) >= d * (s + 1)  BY <2>1, <2>3
  <2>5. d * (s + 1) = d * s + d  OBVIOUS
  <2> QED  BY <2>1, <2>4, <2>5, <1>4
<1> QED  BY <1>0, <1>1, <1>2, <1>3, <1>4

\* The response to a need is between nothing and Sure, whatever the need and the threshold:
\* neither the squares nor a threshold of 0 take it out of its range (tasks.cpp:8-15).
THEOREM ResponseBounded ==
  ASSUME NEW s \in Nat, NEW t \in Nat
  PROVE  ResponseWeight(s, t) \in 0 .. Sure
<1>1. CASE s = 0  BY <1>1, SureAssumption DEF ResponseWeight
<1>2. CASE s # 0
  <2>1. s * s \in Nat \ {0} /\ t * t \in Nat  BY <1>2
  <2>2. (s * s * Sure) \div (s * s + t * t) \in 0 .. Sure  BY <2>1, ShareBounded
  <2> QED  BY <1>2, <2>2 DEF ResponseWeight
<1> QED  BY <1>1, <1>2

\* Five weights within bounds, and rest among them.
LEMMA TotalBounded ==
  ASSUME NEW w \in [Names -> Nat], \A t \in Names : w[t] <= 18750, w["Idle"] >= 1000
  PROVE  Total(w) >= 1000 /\ Total(w) <= 93750
<1>1. \A t \in {"Forage", "Excavate", "Nurse", "Clean", "Idle"} : w[t] \in Nat /\ w[t] <= 18750
  BY DEF Names, Needs
<1> QED  BY <1>1 DEF Total

\* The bonuses only add, and not much.
LEMMA BonusesBounded ==
  ASSUME NEW n \in Nat, n <= 10000, NEW t, NEW current, NEW favoured
  PROVE  LET weighed == Weighed(n, t, current, favoured)
         IN  weighed \in Nat /\ n <= weighed /\ weighed <= 18750
<1>1. Favoured(n) \in Nat /\ n <= Favoured(n) /\ Favoured(n) <= 15000  BY DEF Favoured
<1>2. ASSUME NEW m \in Nat, n <= m, m <= 15000
      PROVE  AtHand(m) \in Nat /\ n <= AtHand(m) /\ AtHand(m) <= 18750
  BY <1>2 DEF AtHand
<1>3. CASE t = favoured /\ t = current  BY <1>1, <1>2, <1>3 DEF Weighed
<1>4. CASE t = favoured /\ t # current  BY <1>1, <1>4 DEF Weighed
<1>5. CASE t # favoured /\ t = current  BY <1>2, <1>5 DEF Weighed
<1>6. CASE t # favoured /\ t # current  BY <1>6 DEF Weighed
<1> QED  BY <1>3, <1>4, <1>5, <1>6

\* The weights the code adds up stay far below the 32 bits the draw is cut to, with every bonus
\* on one task, and they are never all 0: a worker always has a task to go to
\* (tasks.cpp:22-28, world.cpp:628-640).
THEOREM WeightsFit ==
  ASSUME NEW felt \in [Needs -> Nat], NEW thresholds \in [Needs -> Nat],
         NEW current, NEW favoured
  PROVE  LET w == Weights(felt, thresholds, current, favoured)
         IN  w \in [Names -> Nat] /\ Total(w) >= 1000 /\ Total(w) <= 93750
<1> DEFINE response(t) == Response(felt, thresholds, t)
           weight(t) == Weighed(response(t), t, current, favoured)
           w == [t \in Names |-> weight(t)]
<1>1. ASSUME NEW t \in Names PROVE response(t) \in Nat /\ response(t) <= 10000
  <2>1. CASE t = "Idle"  BY <2>1 DEF Response, Resting
  <2>2. CASE t # "Idle"
    <3>1. t \in Needs  BY <2>2 DEF Names
    <3>2. felt[t] \in Nat /\ thresholds[t] \in Nat  BY <3>1
    <3>3. ResponseWeight(felt[t], thresholds[t]) \in 0 .. Sure  BY <3>2, ResponseBounded
    <3> QED  BY <2>2, <3>3, SureAssumption DEF Response
  <2> QED  BY <2>1, <2>2
<1>2. response("Idle") = 1000  BY DEF Response, Resting
<1> HIDE DEF response
<1>3. ASSUME NEW t \in Names
      PROVE  weight(t) \in Nat /\ response(t) <= weight(t) /\ weight(t) <= 18750
  BY <1>1, BonusesBounded
<1> HIDE DEF weight
<1>4. w \in [Names -> Nat] /\ (\A t \in Names : w[t] <= 18750)  BY <1>3
<1>5. w["Idle"] >= 1000  BY <1>2, <1>3, <1>4 DEF Names
<1>6. w = Weights(felt, thresholds, current, favoured)  BY DEF Weights, weight, response
<1> HIDE DEF w
<1>7. Total(w) >= 1000 /\ Total(w) <= 93750  BY <1>4, <1>5, TotalBounded
<1> QED  BY <1>4, <1>6, <1>7

Weighings == [Names -> Nat]

\* A draw falls to one task and no other.
LEMMA OneTakes ==
  ASSUME NEW w \in Weighings, NEW draw \in 0 .. Total(w) - 1
  PROVE  /\ \E t \in Names : Takes(w, t, draw)
         /\ \A t, u \in Names : Takes(w, t, draw) /\ Takes(w, u, draw) => t = u
<1>1. \A t \in {"Forage", "Excavate", "Nurse", "Clean", "Idle"} : w[t] \in Nat
  BY DEF Weighings, Names, Needs
<1>2. draw \in Nat /\ draw < Total(w)  BY <1>1 DEF Total
<1> QED  BY <1>1, <1>2 DEF Takes, Before, Total, Names, Needs

\* Every draw ends with a task that weighs something, and each task gets as many draws as it
\* weighs: none that weighs anything is out of reach, none that weighs nothing is ever picked, and
\* the last one is not picked by falling through (tasks.cpp:17-38).
THEOREM DrawsMatchWeights ==
  ASSUME NEW w \in Weighings
  PROVE  /\ \A draw \in 0 .. Total(w) - 1 :
              /\ ChooseWeightedTask(w, draw) \in Names
              /\ w[ChooseWeightedTask(w, draw)] > 0
         /\ \A t \in Names, draw \in 0 .. Total(w) - 1 :
              ChooseWeightedTask(w, draw) = t <=> draw \in Before(w, t) .. Before(w, t) + w[t] - 1
<1>1. \A t \in {"Forage", "Excavate", "Nurse", "Clean", "Idle"} : w[t] \in Nat
  BY DEF Weighings, Names, Needs
<1>2. \A t \in Names : Before(w, t) \in Nat /\ w[t] \in Nat
  BY <1>1 DEF Before, Names, Needs
<1>3. ASSUME NEW draw \in 0 .. Total(w) - 1
      PROVE  /\ ChooseWeightedTask(w, draw) \in Names
             /\ Takes(w, ChooseWeightedTask(w, draw), draw)
  <2>1. Total(w) # 0  BY <1>1 DEF Total
  <2>2. ChooseWeightedTask(w, draw) = CHOOSE t \in Names : Takes(w, t, draw)
    BY <2>1 DEF ChooseWeightedTask
  <2> QED  BY <2>2, OneTakes
<1>4. ASSUME NEW draw \in 0 .. Total(w) - 1
      PROVE  w[ChooseWeightedTask(w, draw)] > 0
  BY <1>2, <1>3 DEF Takes
<1>5. ASSUME NEW t \in Names, NEW draw \in 0 .. Total(w) - 1
      PROVE  ChooseWeightedTask(w, draw) = t
               <=> draw \in Before(w, t) .. Before(w, t) + w[t] - 1
  <2>1. Takes(w, t, draw) <=> draw \in Before(w, t) .. Before(w, t) + w[t] - 1
    BY <1>1, <1>2 DEF Takes, Total
  <2> QED  BY <2>1, <1>3, OneTakes
<1> QED  BY <1>3, <1>4, <1>5

-----------------------------------------------------------------------------
(* The trails *)

Field == [Cells -> 0 .. Top]

Tidy(t) ==
  /\ t \in [front : Field, back : {Blank}, active : SUBSET Cells]
  /\ t.active = {c \in Cells : t.front[c] > 0}

SparseInv == Tidy(trails)

Everywhere(t, ground) == [c \in Cells |-> Dense!Faded(t.front, ground, c)]

-----------------------------------------------------------------------------
\* What an update leaves in a cell: nothing, or more than the floor (pheromones.cpp:59-67).
LEMMA FadedRange ==
  ASSUME NEW f \in Field, NEW ground, NEW c \in Cells
  PROVE  /\ Dense!Faded(f, ground, c) \in 0 .. Top
         /\ Dense!Faded(f, ground, c) > 0 => Dense!Faded(f, ground, c) > Floor
<1> DEFINE kept == ((Dense!Mixed(f, ground, c) \div Scale) * Retention) \div Scale
<1>1. \A i \in 1 .. 4 : Dense!Seen(f, ground, c, i) \in Int
  BY TrailAssumption DEF Dense!Seen, Field
<1>2. f[c] \in Int /\ Scale \in Nat \ {0} /\ NeighborWeight \in Nat /\ Retention \in Nat
  BY TrailAssumption DEF Field
<1>3. Dense!Mixed(f, ground, c) \in Int
  <2> DEFINE sum == Dense!Seen(f, ground, c, 1) + Dense!Seen(f, ground, c, 2)
                    + Dense!Seen(f, ground, c, 3) + Dense!Seen(f, ground, c, 4)
             rest == Scale - 4 * NeighborWeight
  <2>1. sum \in Int
    BY <1>1
  <2>2. rest \in Int
    BY <1>2
  <2> HIDE DEF sum, rest
  <2>3. f[c] * rest \in Int /\ NeighborWeight * sum \in Int
    BY <1>2, <2>1, <2>2
  <2>4. f[c] * rest + NeighborWeight * sum \in Int
    BY <2>3
  <2> QED
    BY <2>4 DEF Dense!Mixed, sum, rest
<1>4. Dense!Mixed(f, ground, c) \div Scale \in Int
  BY <1>2, <1>3
<1>5. (Dense!Mixed(f, ground, c) \div Scale) * Retention \in Int
  BY <1>2, <1>4
<1>6. kept \in Int
  BY <1>2, <1>5
<1>7. Dense!Faded(f, ground, c) = IF kept <= Floor THEN 0 ELSE IF kept > Top THEN Top ELSE kept
  BY DEF Dense!Faded
<1> HIDE DEF kept
<1> QED
  BY <1>6, <1>7, TrailAssumption

\* A cell that is skipped has nothing, its neighbours have nothing, and so it would have nothing.
LEMMA SkippedIsBlank ==
  ASSUME NEW t, Tidy(t), NEW ground, NEW c \in Cells \ Candidates(t)
  PROVE  Dense!Faded(t.front, ground, c) = 0
<1>1. t.front \in Field /\ t.active = {d \in Cells : t.front[d] > 0}
  BY DEF Tidy
<1>2. t.front[c] = 0
  BY <1>1 DEF Candidates, Field
<1>3. ASSUME NEW i \in 1 .. 4 PROVE Dense!Seen(t.front, ground, c, i) = 0
  <2>1. CASE Side(c, i) \in Cells
    <3>1. PICK j \in 1 .. 4 : Side(Side(c, i), j) = c
      BY <2>1, TrailAssumption
    <3>2. Side(c, i) \notin t.active
      BY <3>1 DEF Candidates
    <3>3. t.front[Side(c, i)] = 0
      BY <1>1, <2>1, <3>2 DEF Field
    <3> QED
      BY <1>2, <3>3 DEF Dense!Seen
  <2>2. CASE Side(c, i) \notin Cells
    BY <1>2, <2>2 DEF Dense!Seen
  <2> QED
    BY <2>1, <2>2
<1>4. Dense!Mixed(t.front, ground, c) = 0
  <2>1. /\ Dense!Seen(t.front, ground, c, 1) = 0
        /\ Dense!Seen(t.front, ground, c, 2) = 0
        /\ Dense!Seen(t.front, ground, c, 3) = 0
        /\ Dense!Seen(t.front, ground, c, 4) = 0
    BY <1>3
  <2>2. 0 * (Scale - 4 * NeighborWeight) = 0 /\ NeighborWeight * (0 + 0 + 0 + 0) = 0
    BY TrailAssumption
  <2> QED
    BY <1>2, <2>1, <2>2 DEF Dense!Mixed
<1>5. 0 \div Scale = 0 /\ 0 * Retention = 0 /\ 0 <= Floor
  BY TrailAssumption
<1> QED
  BY <1>4, <1>5 DEF Dense!Faded

\* The field that update swaps in is the one computed everywhere (pheromones.cpp:48-73).
LEMMA ComputedEverywhere ==
  ASSUME NEW t, Tidy(t), NEW ground
  PROVE  Updated(t, ground).front = Everywhere(t, ground)
<1>1. \A c \in Cells : t.back[c] = 0
  BY DEF Tidy, Blank
<1>2. \A c \in Cells \ Candidates(t) : Dense!Faded(t.front, ground, c) = t.back[c]
  BY <1>1, SkippedIsBlank
<1> QED
  BY <1>2 DEF Updated, Everywhere

-----------------------------------------------------------------------------
\* A new field is blank, with nothing listed.
LEMMA UntroddenTidy == Tidy(Untrodden)
BY TrailAssumption DEF Tidy, Untrodden, Blank, Field

\* A mark leaves something and lists its cell (pheromones.cpp:27-35).
LEMMA DepositedTidy ==
  ASSUME NEW t, Tidy(t), NEW c \in Cells, NEW a \in Amounts
  PROVE  Tidy(Deposited(t, c, a))
<1> DEFINE more == IF t.front[c] + a > Top THEN Top ELSE t.front[c] + a
           marked == Deposited(t, c, a)
<1>1. /\ t \in [front : Field, back : {Blank}, active : SUBSET Cells]
      /\ t.front \in [Cells -> 0 .. Top] /\ a \in Nat \ {0} /\ Top \in Nat \ {0}
  BY TrailAssumption DEF Tidy, Field
<1>2. more \in 1 .. Top
  BY <1>1
<1>3. marked = [t EXCEPT !.front = [t.front EXCEPT ![c] = more], !.active = t.active \cup {c}]
  BY DEF Deposited, Dense!Marked
<1> HIDE DEF more, marked
<1>4. [t.front EXCEPT ![c] = more] \in Field
  BY <1>1, <1>2 DEF Field
<1>5. marked \in [front : Field, back : {Blank}, active : SUBSET Cells]
  BY <1>1, <1>3, <1>4
<1>6. marked.active = {d \in Cells : marked.front[d] > 0}
  <2>1. marked.active = t.active \cup {c} /\ marked.front = [t.front EXCEPT ![c] = more]
    BY <1>1, <1>3
  <2>2. t.active = {d \in Cells : t.front[d] > 0}
    BY DEF Tidy
  <2> QED
    BY <1>1, <1>2, <2>1, <2>2
<1> QED
  BY <1>5, <1>6 DEF Tidy, marked

\* An update wipes what it swaps out and lists what is left (pheromones.cpp:69-73).
LEMMA UpdatedTidy ==
  ASSUME NEW t, Tidy(t), NEW ground
  PROVE  Tidy(Updated(t, ground))
<1> DEFINE field == Everywhere(t, ground)
           next == Updated(t, ground)
<1>1. t.front \in Field /\ t.active = {c \in Cells : t.front[c] > 0}
  BY DEF Tidy
<1>2. next.front = field
  BY ComputedEverywhere
<1>3. field \in Field
  BY <1>1, FadedRange DEF Field, Everywhere
<1>4. next.back = Blank
  <2>1. \A c \in Cells \ Candidates(t) : t.front[c] = 0
    BY <1>1 DEF Candidates, Field
  <2> QED
    BY <2>1 DEF Updated, Blank
<1>5. next.active = {c \in Cells : next.front[c] > 0}
  <2>1. next.active = {c \in Candidates(t) : field[c] > Floor}
    BY <1>2 DEF Updated
  <2>2. Candidates(t) \subseteq Cells
    BY <1>1 DEF Candidates
  <2>3. \A c \in Cells \ Candidates(t) : field[c] = 0
    BY SkippedIsBlank DEF Everywhere
  <2>4. \A c \in Cells : field[c] \in 0 .. Top /\ (field[c] > 0 => field[c] > Floor)
    BY <1>1, FadedRange DEF Everywhere
  <2> HIDE DEF field, next
  <2>5. \A c \in Cells : c \in next.active <=> field[c] > 0
    BY <2>1, <2>2, <2>3, <2>4, TrailAssumption
  <2>6. next.active \subseteq Cells
    BY <2>1, <2>2
  <2> QED
    BY <1>2, <2>5, <2>6
<1>6. next \in [front : Field, back : {Blank}, active : SUBSET Cells]
  <2>1. next = [front |-> next.front, back |-> next.back, active |-> next.active]
    BY DEF Updated
  <2> HIDE DEF field, next
  <2> QED
    BY <1>2, <1>3, <1>4, <1>5, <2>1
<1> QED
  BY <1>5, <1>6 DEF Tidy

\* A restored field lists its own cells (pheromones.cpp:82-91).
LEMMA RestoredTidy == ASSUME NEW f \in Field PROVE Tidy(RestoredTrails(f))
BY DEF Tidy, RestoredTrails

\* Every step keeps the field tidy.
LEMMA NextSparse == SparseInv /\ [NextTrails]_<<trails, open>> => SparseInv'
<1> SUFFICES ASSUME SparseInv, [NextTrails]_<<trails, open>> PROVE SparseInv'
  OBVIOUS
<1> USE DEF SparseInv
<1>1. CASE \E c \in Cells, a \in Amounts : Deposit(c, a)
  BY <1>1, DepositedTidy DEF Deposit
<1>2. CASE Update
  BY <1>2, UpdatedTidy DEF Update
<1>3. CASE Restore
  BY <1>3, RestoredTidy DEF Restore, Tidy
<1>4. CASE Ground
  BY <1>4 DEF Ground
<1>5. CASE UNCHANGED <<trails, open>>
  BY <1>5
<1> QED
  BY <1>1, <1>2, <1>3, <1>4, <1>5 DEF NextTrails

\* The spare field stays blank and the list of active cells complete and exact.
THEOREM SparseFieldIsTidy == SpecTrails => []SparseInv
<1>1. InitTrails => SparseInv
  BY UntroddenTidy DEF InitTrails, SparseInv
<1> QED
  BY <1>1, NextSparse, PTL DEF SpecTrails

-----------------------------------------------------------------------------
\* The sparse field is the dense one: every step of the field is a step of the field computed
\* everywhere, or changes nothing of it; a restore is such a step (pheromones.cpp:27-91).
THEOREM SparseRefinesDense == SpecTrails => RefinesDense
<1>1. InitTrails => Dense!Init
  BY DEF InitTrails, Dense!Init, Untrodden, Blank
<1>2. SparseInv /\ [NextTrails]_<<trails, open>> => [Dense!Next]_<<trails.front, open>>
  <2> SUFFICES ASSUME SparseInv, [NextTrails]_<<trails, open>>
               PROVE  [Dense!Next]_<<trails.front, open>>
    OBVIOUS
  <2>1. CASE \E c \in Cells, a \in Amounts : Deposit(c, a)
    <3>1. PICK c \in Cells, a \in Amounts : Deposit(c, a)
      BY <2>1
    <3>2. Dense!Deposit(c, a)
      BY <3>1 DEF Deposit, Deposited, Dense!Deposit, SparseInv, Tidy
    <3> QED
      BY <3>2 DEF Dense!Next
  <2>2. CASE Update
    <3>1. trails'.front = [c \in Cells |-> Dense!Faded(trails.front, open, c)]
      BY <2>2, ComputedEverywhere DEF Update, SparseInv, Everywhere
    <3>2. Dense!Update
      BY <2>2, <3>1 DEF Update, Dense!Update
    <3> QED
      BY <3>2 DEF Dense!Next
  <2>3. CASE Restore
    BY <2>3 DEF Restore, RestoredTrails
  <2>4. CASE Ground
    BY <2>4 DEF Ground, Dense!Ground, Dense!Next
  <2>5. CASE UNCHANGED <<trails, open>>
    BY <2>5
  <2> QED
    BY <2>1, <2>2, <2>3, <2>4, <2>5 DEF NextTrails
<1> QED
  BY <1>1, <1>2, SparseFieldIsTidy, PTL DEF SpecTrails, RefinesDense, Dense!Spec

-----------------------------------------------------------------------------
(* The main loop *)
\* The save clock is the real time at risk.
RiskInv == since \in Nat /\ since < Interval /\ quiet = since

\* A request is one the player made while saving was enabled, and none outlives its frame.
RequestInv ==
  /\ stage \in {"prompt", "input", "poll"}
  /\ manual \in BOOLEAN /\ asked \in BOOLEAN /\ prompt \in BOOLEAN /\ service \in BOOLEAN
  /\ enabled = (service /\ ~prompt)
  /\ manual => stage = "poll"
  /\ manual /\ enabled => asked

\* The backlog is below half a second, and what a frame stepped fits its speed.
ClockInv ==
  /\ accumulator \in Nat /\ accumulator < 50
  /\ steps \in Nat /\ speed \in Speeds
  /\ ~inFrame => steps <= Clock!Greater(10, 2 * speed)

\* An open prompt holds the clock, and nothing was saved or stepped under it.
PromptInv ==
  /\ inFrame <=> stage = "poll"
  /\ prompt => held /\ trigger = "none" /\ steps = 0

LoopInv == RiskInv /\ RequestInv /\ ClockInv /\ PromptInv

-----------------------------------------------------------------------------
(* Arithmetic *)

\* A product with a natural number grows with its other factor.
LEMMA ProductFacts ==
  ASSUME NEW a \in Nat, NEW b \in Nat, NEW s \in Nat, a <= b
  PROVE  a * s \in Nat /\ b * s \in Nat /\ a * s <= b * s
<1>1. PICK c \in Nat : b = a + c
  <2>1. b - a \in Nat /\ b = a + (b - a)
    OBVIOUS
  <2> QED BY <2>1
<1>2. b * s = a * s + c * s
  BY <1>1
<1>3. a * s \in Nat /\ c * s \in Nat
  OBVIOUS
<1> QED BY <1>2, <1>3

\* A frame without a step fits every speed.
LEMMA CapFact ==
  ASSUME NEW s \in Nat
  PROVE  0 <= Clock!Greater(10, 2 * s)
BY DEF Clock!Greater

\* What one frame makes of the backlog: at most StepCap steps, a remainder
\* below half a second, and together no more than there was.
LEMMA StepFacts ==
  ASSUME NEW given \in Nat, NEW s \in Nat \ {0},
         NEW kept, kept = Clock!Lesser(given, Clock!AccumulatorCap(s)),
         NEW ticks, ticks = Clock!Lesser(kept \div Clock!Tick, Clock!StepCap(s))
  PROVE  /\ ticks \in Nat /\ ticks <= Clock!Greater(10, 2 * s)
         /\ kept \in Nat /\ kept <= given
         /\ kept - ticks * Clock!Tick \in Nat /\ kept - ticks * Clock!Tick < 50
         /\ given <= 4 + 4 * s =>
              kept = given /\ kept - ticks * Clock!Tick < Clock!Tick
BY DEF Clock!Lesser, Clock!Greater, Clock!AccumulatorCap, Clock!StepCap, Clock!Tick

-----------------------------------------------------------------------------
(* The invariant *)

\* The invariant at the start.
LEMMA InitInv == Init => LoopInv
<1> SUFFICES ASSUME Init PROVE LoopInv
  OBVIOUS
<1>1. RiskInv
  BY LoopAssumption DEF Init, Saves!Init, RiskInv
<1>4. RequestInv
  BY Zenon DEF Init, Saves!Init, RequestInv
<1>2. ClockInv
  BY LoopAssumption DEF Init, Clock!Init, ClockInv, Clock!Greater
<1>3. PromptInv
  BY DEF Init, Saves!Init, Clock!Init, PromptInv
<1> QED BY <1>1, <1>2, <1>3, <1>4 DEF LoopInv

\* What a poll does to the clock and the request.
LEMMA PollKeeps ==
  ASSUME RiskInv, RequestInv, NEW d \in Deltas, Finish(d)
  PROVE  /\ RiskInv' /\ RequestInv'
         /\ trigger' # "none" => enabled
         /\ trigger' = "manual" => enabled /\ asked
         /\ trigger' = "autosave" => quiet + d >= Interval
<1>1. d \in Nat /\ Interval \in Nat \ {0} /\ since \in Nat /\ since < Interval /\ quiet = since
  BY LoopAssumption DEF RiskInv
<1>2. stage' = "prompt" /\ UNCHANGED <<service, prompt, enabled>>
  BY DEF Finish, Saves!Poll
<1>3. asked' \in BOOLEAN /\ (manual' = FALSE => RequestInv')
  <2>1. asked' \in BOOLEAN
    BY DEF Finish, Saves!Poll
  <2> QED BY <1>2, <2>1, Zenon DEF RequestInv
<1>4. manual \in BOOLEAN /\ (manual /\ enabled => asked)
  BY Zenon DEF RequestInv
<1>5. quiet' = IF enabled /\ trigger' = "none" THEN Saves!UpTo(2 * Interval, quiet + d) ELSE 0
  BY DEF Finish, Saves!Poll
<1>6. CASE Saves!PollDisabled
  <2>1. manual' = FALSE /\ since' = 0 /\ trigger' = "none" /\ quiet' = 0
    BY <1>5, <1>6 DEF Saves!PollDisabled
  <2> QED BY <1>1, <1>3, <2>1 DEF RiskInv
<1>7. CASE Saves!PollManual
  <2>1. manual' = FALSE /\ since' = 0 /\ trigger' = "manual" /\ quiet' = 0
    BY <1>5, <1>7 DEF Saves!PollManual
  <2>2. enabled /\ asked
    BY <1>4, <1>7, Zenon DEF Saves!PollManual
  <2> QED BY <1>1, <1>3, <2>1, <2>2 DEF RiskInv
<1>8. CASE Saves!PollClock(d)
  <2> DEFINE now == since + Saves!Clamped(d)
  <2>1. enabled /\ manual' = FALSE
    BY <1>4, <1>8, Zenon DEF Saves!PollClock
  <2>2. /\ since' = IF now < Interval THEN now ELSE 0
        /\ trigger' = IF now < Interval THEN "none" ELSE "autosave"
    BY <1>8 DEF Saves!PollClock
  <2>3. CASE now < Interval
    <3>1. Saves!Clamped(d) = d
      BY <1>1, <2>3 DEF Saves!Clamped, Saves!UpTo
    <3>2. since' = since + d /\ since' \in Nat /\ since' < Interval /\ trigger' = "none"
      BY <1>1, <2>2, <2>3, <3>1
    <3>3. quiet' = since'
      BY <1>1, <1>5, <2>1, <3>2 DEF Saves!UpTo
    <3> QED BY <1>3, <2>1, <3>2, <3>3 DEF RiskInv
  <2>4. CASE ~(now < Interval)
    <3>1. now \in Nat /\ now <= since + d
      BY <1>1 DEF Saves!Clamped, Saves!UpTo
    <3>2. quiet + d >= Interval
      BY <1>1, <2>4, <3>1
    <3>3. since' = 0 /\ trigger' = "autosave" /\ quiet' = 0
      BY <1>5, <2>2, <2>4
    <3> QED BY <1>1, <1>3, <2>1, <3>2, <3>3 DEF RiskInv
  <2> QED BY <2>3, <2>4
<1> QED BY <1>6, <1>7, <1>8 DEF Finish, Saves!Poll

\* What the rest of a frame does to the backlog, and that no speed is lost or
\* won by it.
LEMMA FinishKeeps ==
  ASSUME RequestInv, ClockInv, PromptInv, NEW d \in Deltas, Finish(d)
  PROVE  /\ ClockInv' /\ PromptInv'
         /\ accumulator' + steps' * Clock!Tick <= accumulator + owed'
         /\ (accumulator < Clock!Tick /\ owed' <= 4 * speed) =>
              accumulator' < Clock!Tick /\ discarded' = 0
<1>1. d \in Nat /\ speed \in Nat \ {0} /\ accumulator \in Nat /\ accumulator < 50
  BY LoopAssumption DEF ClockInv
<1>2. /\ inFrame /\ ~inFrame' /\ stage' = "prompt"
      /\ UNCHANGED <<prompt, held, speed>>
  BY DEF Finish, Saves!Poll, Clock!Hold, Clock!Sleep, Clock!Advance
<1>3. prompt' => trigger' = "none"
  <2>1. prompt' = prompt /\ (enabled => ~prompt)
    BY Zenon DEF Finish, RequestInv
  <2>2. Saves!PollDisabled \/ enabled
    BY Zenon DEF Finish, Saves!Poll, Saves!PollManual, Saves!PollClock
  <2> QED BY <2>1, <2>2, Zenon DEF Saves!PollDisabled
<1>4. CASE Clock!Hold
  <2>1. steps' = 0 /\ owed' = 0 /\ discarded' = 0 /\ accumulator' = accumulator
    BY <1>4 DEF Clock!Hold
  <2>2. ClockInv'
    BY <1>1, <1>2, <2>1 DEF ClockInv, Clock!Greater
  <2>3. PromptInv'
    BY <1>2, <1>3, <2>1 DEF PromptInv
  <2> QED BY <1>1, <2>1, <2>2, <2>3 DEF Clock!Tick
<1>5. CASE Clock!Sleep(d)
  <2>1. /\ ~held /\ d > 50 /\ accumulator' = 0 /\ steps' = 0 /\ owed' = d * speed
    BY <1>5 DEF Clock!Sleep, Clock!LongSleep
  <2>2. 5 * speed <= owed' /\ owed' \in Nat
    BY <1>1, <2>1, ProductFacts
  <2>3. ClockInv'
    BY <1>1, <1>2, <2>1 DEF ClockInv, Clock!Greater
  <2>4. PromptInv'
    BY <1>2, <1>3, <2>1 DEF PromptInv
  <2> QED BY <1>1, <2>1, <2>2, <2>3, <2>4 DEF Clock!Tick
<1>6. CASE Clock!Advance(d)
  <2> DEFINE given == accumulator + Clock!Lesser(d, Clock!MaxFrame) * speed
             kept == Clock!Lesser(given, Clock!AccumulatorCap(speed))
             ticks == Clock!Lesser(kept \div Clock!Tick, Clock!StepCap(speed))
  <2>1. /\ ~held /\ accumulator' = kept - ticks * Clock!Tick /\ steps' = ticks
        /\ discarded' = accumulator + d * speed - kept /\ owed' = d * speed
    BY <1>6 DEF Clock!Advance
  <2>2. /\ Clock!Lesser(d, Clock!MaxFrame) \in Nat /\ Clock!Lesser(d, Clock!MaxFrame) <= d
        /\ d <= 25 => Clock!Lesser(d, Clock!MaxFrame) = d
    BY <1>1 DEF Clock!Lesser, Clock!MaxFrame
  <2>3. d * speed \in Nat /\ given \in Nat /\ given <= accumulator + d * speed
    <3> HIDE DEF Clock!Lesser
    <3>1. /\ d * speed \in Nat /\ Clock!Lesser(d, Clock!MaxFrame) * speed \in Nat
          /\ Clock!Lesser(d, Clock!MaxFrame) * speed <= d * speed
      BY <1>1, <2>2, ProductFacts
    <3> QED BY <1>1, <3>1
  <2> HIDE DEF given
  <2>4. /\ ticks \in Nat /\ ticks <= Clock!Greater(10, 2 * speed)
        /\ kept \in Nat /\ kept <= given
        /\ kept - ticks * Clock!Tick \in Nat /\ kept - ticks * Clock!Tick < 50
        /\ given <= 4 + 4 * speed =>
             kept = given /\ kept - ticks * Clock!Tick < Clock!Tick
    BY <1>1, <2>3, StepFacts
  <2> HIDE DEF kept, ticks
  <2>5. ClockInv'
    BY <1>1, <1>2, <2>1, <2>4 DEF ClockInv
  <2>6. PromptInv'
    BY <1>2, <1>3, <2>1 DEF PromptInv
  <2>7. accumulator' + steps' * Clock!Tick <= accumulator + owed'
    BY <1>1, <2>1, <2>3, <2>4 DEF Clock!Tick
  <2>8. ASSUME accumulator < Clock!Tick, owed' <= 4 * speed
        PROVE  accumulator' < Clock!Tick /\ discarded' = 0
    <3>1. d <= 4
      <4>1. ASSUME 5 <= d PROVE FALSE
        <5>1. 5 * speed <= d * speed
          BY <1>1, <4>1, ProductFacts
        <5> QED BY <1>1, <2>1, <2>3, <2>8, <5>1
      <4> QED BY <1>1, <4>1
    <3>2. given = accumulator + d * speed
      BY <1>1, <2>2, <3>1 DEF given
    <3>3. given <= 4 + 4 * speed
      BY <1>1, <2>1, <2>3, <2>8, <3>2 DEF Clock!Tick
    <3> QED BY <1>1, <2>1, <2>3, <2>4, <3>2, <3>3
  <2> QED BY <2>5, <2>6, <2>7, <2>8
<1> QED BY <1>4, <1>5, <1>6 DEF Finish

\* Every step of a frame keeps it.
LEMMA InvStep == LoopInv /\ [Next]_vars => LoopInv'
<1> SUFFICES ASSUME LoopInv, [Next]_vars PROVE LoopInv'
  OBVIOUS
<1>1. CASE HandlePrompt
  <2>1. RiskInv'
    BY <1>1 DEF HandlePrompt, Saves!HandlePrompt, LoopInv, RiskInv
  <2>2. RequestInv'
    <3>1. ~manual /\ manual' = manual /\ asked' = asked /\ service' = service
      BY <1>1, Zenon DEF HandlePrompt, Saves!HandlePrompt, LoopInv, RequestInv
    <3>2. stage' = "input" /\ prompt' \in BOOLEAN /\ enabled' = (service /\ ~prompt')
      BY <1>1, Zenon DEF HandlePrompt, Saves!HandlePrompt, LoopInv, RequestInv
    <3>3. asked \in BOOLEAN /\ manual \in BOOLEAN /\ service \in BOOLEAN
      BY Zenon DEF LoopInv, RequestInv
    <3> QED BY <3>1, <3>2, <3>3, Zenon DEF RequestInv
  <2>3. prompt' => prompt
    BY <1>1, Zenon DEF HandlePrompt, LoopInv, RequestInv
  <2>4. PromptInv'
    <3>1. ~inFrame /\ inFrame' = inFrame /\ stage' = "input"
      BY <1>1 DEF HandlePrompt, Saves!HandlePrompt, LoopInv, PromptInv
    <3>2. held' = held /\ trigger' = trigger /\ steps' = steps
      BY <1>1 DEF HandlePrompt, Saves!HandlePrompt
    <3> QED BY <2>3, <3>1, <3>2 DEF LoopInv, PromptInv
  <2>5. ClockInv'
    <3>1. accumulator' = accumulator /\ steps' = steps /\ inFrame' = inFrame
      BY <1>1 DEF HandlePrompt
    <3>2. CASE prompt' = prompt
      BY <1>1, <3>1, <3>2 DEF HandlePrompt, LoopInv, ClockInv
    <3>3. CASE prompt' # prompt
      <4>1. speed' \in Speeds
        BY <1>1, <3>3 DEF HandlePrompt
      <4>2. prompt
        BY <1>1, <3>3, Zenon DEF HandlePrompt, LoopInv, RequestInv
      <4>3. steps = 0
        BY <4>2 DEF LoopInv, PromptInv
      <4>4. speed' \in Nat
        BY <4>1, LoopAssumption
      <4>5. accumulator' \in Nat /\ accumulator' < 50 /\ steps' = 0
        BY <3>1, <4>3 DEF LoopInv, ClockInv
      <4>6. 0 <= Clock!Greater(10, 2 * speed')
        BY <4>4, CapFact
      <4> QED BY <4>1, <4>5, <4>6 DEF ClockInv
    <3> QED BY <3>2, <3>3
  <2> QED BY <2>1, <2>2, <2>4, <2>5 DEF LoopInv
<1>2. CASE HandleInput
  <2>1. RiskInv'
    BY <1>2 DEF HandleInput, Saves!HandleInput, LoopInv, RiskInv
  <2>2. RequestInv'
    <3>1. /\ stage' = "poll" /\ UNCHANGED <<enabled, service, prompt>> /\ ~manual
      BY <1>2, Zenon DEF HandleInput, Saves!HandleInput, LoopInv, RequestInv
    <3>2. PICK pressed \in BOOLEAN : /\ manual' = (manual \/ pressed)
                                     /\ asked' = (asked \/ (pressed /\ enabled))
      BY <1>2, Zenon DEF HandleInput, Saves!HandleInput
    <3>3. /\ manual' \in BOOLEAN /\ asked' \in BOOLEAN
          /\ (manual' => pressed) /\ (pressed /\ enabled => asked')
      BY <3>1, <3>2, Zenon
    <3> QED BY <3>1, <3>3, Zenon DEF LoopInv, RequestInv
  <2>3. ClockInv'
    BY <1>2 DEF HandleInput, Clock!Input, LoopInv, ClockInv
  <2>4. PromptInv'
    BY <1>2 DEF HandleInput, Saves!HandleInput, Clock!Input, LoopInv, PromptInv
  <2> QED BY <2>1, <2>2, <2>3, <2>4 DEF LoopInv
<1>3. ASSUME NEW d \in Deltas, Finish(d) PROVE LoopInv'
  BY <1>3, PollKeeps, FinishKeeps DEF LoopInv
<1>4. CASE UNCHANGED vars
  BY <1>4 DEF vars, LoopInv, RiskInv, RequestInv, ClockInv, PromptInv
<1> QED BY <1>1, <1>2, <1>3, <1>4 DEF Next

\* It holds in every reachable state.
LEMMA Invariance == Spec => []LoopInv
BY InitInv, InvStep, PTL DEF Spec

-----------------------------------------------------------------------------
(* Theorems *)

\* No more than the interval is ever at risk, however long the frames are and
\* however the prompt and the save key are used (save_coordinator.cpp:42-45).
THEOREM RiskBounded == Spec => []LossIsBounded
<1>1. LoopInv => LossIsBounded
  BY DEF LoopInv, RiskInv, LossIsBounded
<1> QED BY Invariance, <1>1, PTL

\* No burst of saves after a stall (save_coordinator.cpp:41-45).
THEOREM SavesSpaced == Spec => AutosavesSpaced
<1>1. LoopInv /\ [Next]_vars =>
        [\A d \in Deltas : Finish(d) /\ trigger' = "autosave" => quiet + d >= Interval]_vars
  BY PollKeeps DEF LoopInv
<1> QED BY Invariance, <1>1, PTL DEF Spec, AutosavesSpaced

\* What a frame steps is bounded, and what it leaves (main.cpp:453-466).
THEOREM BacklogBounded == Spec => []StepsBounded
<1>1. LoopInv => StepsBounded
  BY DEF LoopInv, ClockInv, StepsBounded, Clock!Tick
<1> QED BY Invariance, <1>1, PTL

\* Which steps end a frame.
LEMMA FrameEnds ==
  ASSUME [Next]_vars, inFrame, ~inFrame'
  PROVE  \E d \in Deltas : Finish(d)
BY DEF Next, HandlePrompt, HandleInput, Clock!Input, vars

\* The colony never runs ahead of the clock (main.cpp:444-466).
THEOREM ClockNeverAhead == Spec => NeverAhead
<1>1. LoopInv /\ [Next]_vars =>
        [inFrame /\ ~inFrame' =>
           accumulator' + steps' * Clock!Tick <= accumulator + owed']_vars
  BY FrameEnds, FinishKeeps DEF LoopInv
<1> QED BY Invariance, <1>1, PTL DEF Spec, NeverAhead

\* The selected speed is real at thirty frames a second (main.cpp:450-456).
THEOREM SpeedKept == Spec => SpeedIsReal
<1>1. LoopInv /\ [Next]_vars =>
        [(inFrame /\ ~inFrame' /\ accumulator < Clock!Tick /\ owed' <= 4 * speed) =>
           accumulator' < Clock!Tick /\ discarded' = 0]_vars
  BY FrameEnds, FinishKeeps DEF LoopInv
<1> QED BY Invariance, <1>1, PTL DEF Spec, SpeedIsReal

\* Nothing is written and nothing is stepped while the prompt is open
\* (save_coordinator.cpp:31-40, main.cpp:444).
THEOREM PromptHolds == Spec => PromptStopsAll
<1>1. ASSUME LoopInv, [Next]_vars, trigger' = "manual", stage = "poll", ~(UNCHANGED vars)
      PROVE  enabled /\ asked
  <2>1. PICK d \in Deltas : Finish(d)
    BY <1>1 DEF Next, HandlePrompt, HandleInput, Saves!HandlePrompt, Saves!HandleInput
  <2> QED BY <1>1, <2>1, PollKeeps DEF LoopInv
<1>2. ASSUME LoopInv, [Next]_vars, prompt, ~(UNCHANGED vars)
      PROVE  trigger' = "none" /\ steps' = 0
  <2>1. CASE HandlePrompt \/ HandleInput
    BY <1>2, <2>1 DEF HandlePrompt, HandleInput, Saves!HandlePrompt, Saves!HandleInput,
                      Clock!Input, LoopInv, PromptInv
  <2>2. ASSUME NEW d \in Deltas, Finish(d) PROVE trigger' = "none" /\ steps' = 0
    <3>1. prompt'
      BY <1>2, <2>2 DEF Finish
    <3> QED BY <2>2, <3>1, FinishKeeps, <1>2 DEF LoopInv, PromptInv
  <2> QED BY <1>2, <2>1, <2>2 DEF Next
<1>3. LoopInv /\ [Next]_vars =>
        [/\ trigger' = "manual" /\ stage = "poll" => enabled /\ asked
         /\ prompt => trigger' = "none" /\ steps' = 0]_vars
  BY <1>1, <1>2, Zenon
<1> QED BY Invariance, <1>3, PTL DEF Spec, PromptStopsAll

\* Every write is due (save_coordinator.cpp:31-45).
THEOREM WritesDue == Spec => WritesAreDue
BY SavesSpaced, PromptHolds DEF WritesAreDue

-----------------------------------------------------------------------------
(* The interface *)

Orders == {"order", "save", "abandon", "flight", "trait", "found", "recover", "fresh"}
Requests == [what : Orders, seen : Scenes \cup {"none"}]
DeviceRecord == [pointer : Spots, origin : Spots, down : BOOLEAN, pressed : BOOLEAN,
                 released : BOOLEAN, far : BOOLEAN]

UiTyped ==
  /\ TypeOK /\ requests \in SUBSET Requests /\ device \in DeviceRecord
  /\ edges \in [pressed : BOOLEAN, released : BOOLEAN]

\* Once it is drawn, a recovery that is offered has the screen, until a frame after the answer.
OfferInv ==
  /\ phase = "handle" => recovery = offer
  /\ phase = "draw" /\ offer => recovery
  /\ phase = "events" /\ recovery => shown = "Recovery"
  /\ phase = "events" /\ offer => shown \in {"Recovery", "none"}

\* The scene of the last input is the scene, but for what the loop has just done.
SceneInv ==
  /\ phase = "handle" => inputScene = View(scene, recovery)
  /\ phase = "draw" => \/ inputScene = View(scene, recovery)
                       \/ ~recovery /\ inputScene = "PauseMenu" /\ scene = "Legacy"
                       \/ ~recovery /\ inputScene = "Legacy" /\ scene = "Colony"

\* The next input will find the scene it left, unless a key changes it.
Steady == View(scene, offer) = inputScene

\* Edges belong to a press in the scene that is on the screen, and so does what it captured.
DeviceInv ==
  /\ phase # "events" => ~device.pressed /\ ~device.released
  /\ device.pressed \/ device.released \/ device.down => begun # "none"
  /\ device.pressed => begun = shown
  /\ phase # "events" /\ edges.released => begun # "none"
  /\ phase # "events" /\ edges.pressed => begun = inputScene
  /\ phase = "events" /\ shown = "none" =>
       ~device.pressed /\ ~device.released /\ ~device.down /\ requests = {} /\ begun = "none"
  /\ phase = "events" /\ Steady /\ shown # "none" => shown = inputScene
  /\ captured # "none" /\ (phase # "events" \/ Steady) => begun \in {"none", inputScene}

\* How many presses it took to come this far towards giving up a colony.
PressInv ==
  /\ armed => inputScene = "PauseMenu" /\ presses >= 1
  /\ captured = "Abandon" => inputScene = "PauseMenu" /\ presses >= 1
  /\ captured = "Confirm" => inputScene = "PauseMenu" /\ presses = 2
  /\ Asked("abandon") => inputScene = "PauseMenu" /\ presses = 2
  /\ device.pressed => presses >= 1
  /\ armed /\ device.pressed => presses = 2
  /\ edges.pressed /\ inputScene = "PauseMenu" => presses >= 1
  /\ phase # "events" /\ edges.pressed /\ armed => presses = 2

\* A click on the world began and ends in the colony's scene.
ClickInv ==
  /\ grip /\ ~device.pressed => begun = "Colony"
  /\ grip /\ phase # "events" => device.down
  /\ select => phase # "events"
  /\ phase = "handle" /\ select => begun = "Colony" /\ inputScene = "Colony"

\* Requests that the next input will let through are of the scene it belongs to.
UiRequestInv ==
  /\ phase = "draw" => requests = {}
  /\ phase = "handle" \/ (phase = "events" /\ Steady) =>
       \A r \in requests : r.seen = inputScene /\ inputScene \in Home(r.what)

UiInv == UiTyped /\ OfferInv /\ SceneInv /\ DeviceInv /\ PressInv /\ ClickInv /\ UiRequestInv

-----------------------------------------------------------------------------
\* At the start nothing was drawn, pressed or asked for.
LEMMA UiStart == UiInit => UiInv
<1> SUFFICES ASSUME UiInit PROVE UiInv
  OBVIOUS
<1> USE DEF UiInit
<1>1. Idle \in DeviceRecord /\ ~Idle.down /\ ~Idle.pressed /\ ~Idle.released
  BY InterfaceAssumption DEF Idle, DeviceRecord
<1>2. UiTyped
  <2>1. /\ phase = "events" /\ scene \in Scenes \ {"Recovery"} /\ inputScene \in Scenes
        /\ shown = "none" /\ begun = "none" /\ captured = "none" /\ presses \in 0 .. 2
        /\ edges \in [pressed : BOOLEAN, released : BOOLEAN] /\ requests \in SUBSET Requests
    BY DEF Scenes, NoEdges
  <2>2. {recovery, offer, between, armed, inspector, toggle, grip, select} \subseteq BOOLEAN
    OBVIOUS
  <2> QED BY <1>1, <2>1, <2>2 DEF UiTyped, TypeOK
<1>3. OfferInv /\ SceneInv
  BY DEF OfferInv, SceneInv
<1>4. DeviceInv /\ PressInv
  BY <1>1 DEF DeviceInv, PressInv, NoEdges, Asked
<1>5. ClickInv /\ UiRequestInv
  BY DEF ClickInv, UiRequestInv
<1> QED BY <1>2, <1>3, <1>4, <1>5 DEF UiInv

\* The pointer's new place.
LEMMA MovedIs ==
  ASSUME UiTyped, NEW s \in Spots, NEW d \in Moved(s)
  PROVE  /\ d \in DeviceRecord
         /\ d.down = device.down /\ d.pressed = device.pressed /\ d.released = device.released
BY DEF UiTyped, DeviceRecord, Moved

\* Moving the pointer changes neither button nor scene.
LEMMA MoveKeeps ==
  ASSUME UiInv, NEW s \in Spots, MoveTo(s)
  PROVE  UiInv'
<1>1. /\ device' \in DeviceRecord /\ device'.down = device.down
      /\ device'.pressed = device.pressed /\ device'.released = device.released
  BY MovedIs DEF UiInv, MoveTo
<1> USE DEF UiInv, MoveTo
<1>2. UiTyped'
  BY <1>1 DEF UiTyped, TypeOK
<1>3. OfferInv' /\ SceneInv' /\ UiRequestInv'
  BY DEF OfferInv, SceneInv, UiRequestInv, View, Steady
<1>4. DeviceInv' /\ PressInv' /\ ClickInv'
  BY <1>1 DEF DeviceInv, PressInv, ClickInv, Steady, View, Asked
<1> QED BY <1>2, <1>3, <1>4

\* A press belongs to the scene on the screen and is one more since the pause menu was opened.
LEMMA PressKeeps ==
  ASSUME UiInv, NEW s \in Spots, Press(s)
  PROVE  UiInv'
<1>1. /\ device' \in DeviceRecord /\ device'.down /\ device'.pressed /\ ~device'.released
      /\ ~device.down /\ phase = "events" /\ shown # "none" /\ begun' = shown
  BY DEF Press, DeviceRecord, Polled
<1>2. presses \in 0 .. 2 /\ presses' = IF presses < 2 THEN presses + 1 ELSE 2
  BY DEF UiInv, UiTyped, TypeOK, Press
<1>3. presses' \in 0 .. 2 /\ presses' >= 1 /\ (presses >= 1 => presses' = 2)
  BY <1>2
<1>4. UNCHANGED <<phase, edges, scene, recovery, offer, between, inputScene, armed, inspector,
                  toggle, captured, grip, select, requests, shown>>
  BY DEF Press
<1>5. UiTyped'
  BY <1>1, <1>3, <1>4 DEF UiInv, UiTyped, TypeOK
<1>6. OfferInv' /\ SceneInv' /\ UiRequestInv'
  BY <1>4 DEF UiInv, OfferInv, SceneInv, UiRequestInv, View, Steady
<1>7. DeviceInv'
  BY <1>1, <1>4 DEF UiInv, DeviceInv, Steady, View
<1>8. PressInv'
  BY <1>1, <1>2, <1>3, <1>4 DEF UiInv, PressInv, Asked
<1>9. ClickInv'
  BY <1>1, <1>4 DEF UiInv, ClickInv
<1> QED BY <1>5, <1>6, <1>7, <1>8, <1>9 DEF UiInv

\* A release ends the press of whatever scene it began in.
LEMMA ReleaseKeeps ==
  ASSUME UiInv, NEW s \in Spots, Release(s)
  PROVE  UiInv'
<1>1. PICK d \in Moved(s) : device' = [d EXCEPT !.released = TRUE, !.down = FALSE]
  BY DEF Release
<1>2. d \in DeviceRecord /\ d.pressed = device.pressed
  BY MovedIs DEF UiInv
<1>3. /\ device' \in DeviceRecord /\ ~device'.down /\ device'.pressed = device.pressed
      /\ device'.released /\ device.down /\ phase = "events" /\ shown # "none"
  BY <1>1, <1>2 DEF Release, Polled, DeviceRecord
<1>4. UNCHANGED <<phase, edges, scene, recovery, offer, between, inputScene, armed, inspector,
                  toggle, captured, grip, select, requests, shown, begun, presses>>
  BY DEF Release
<1>5. UiTyped'
  BY <1>3, <1>4 DEF UiInv, UiTyped, TypeOK
<1>6. OfferInv' /\ SceneInv' /\ UiRequestInv'
  BY <1>4 DEF UiInv, OfferInv, SceneInv, UiRequestInv, View, Steady
<1>7. DeviceInv'
  BY <1>3, <1>4 DEF UiInv, DeviceInv, Steady, View
<1>8. PressInv' /\ ClickInv'
  BY <1>3, <1>4 DEF UiInv, PressInv, ClickInv, Asked
<1> QED BY <1>5, <1>6, <1>7, <1>8 DEF UiInv

-----------------------------------------------------------------------------
\* Input that finds another scene than it left lets nothing through but the answer to a recovery.
LEMMA OrdersFit ==
  ASSUME UiInv, phase = "events", NEW keys, NEW new, new = View(KeyScene(keys), offer),
         NEW w \in KeyOrders(new, Transition(new)), shown # "none"
  PROVE  w \in Orders /\ shown = new /\ new \in Home(w) /\ w # "abandon"
<1>1. CASE new = "Recovery"
  <2>1. offer
    BY <1>1 DEF View, KeyScene, UiInv, UiTyped, TypeOK
  <2>2. shown = "Recovery"
    BY <2>1 DEF UiInv, OfferInv
  <2> QED BY <1>1, <2>2 DEF KeyOrders, Home, Orders
<1>2. CASE new # "Recovery"
  <2>1. ~Transition(new) /\ new \in {"Colony", "Legacy"}
    BY <1>2 DEF KeyOrders
  <2>2. Steady /\ inputScene = new
    BY <2>1 DEF Transition, Steady
  <2>3. shown = new
    BY <2>2 DEF UiInv, DeviceInv
  <2> QED BY <2>1, <2>3 DEF KeyOrders, Home, Orders
<1> QED BY <1>1, <1>2

\* Keys lead from scene to scene.
LEMMA KeySceneIs ==
  ASSUME UiTyped, NEW keys
  PROVE  KeyScene(keys) \in Scenes \ {"Recovery"}
BY DEF KeyScene, UiTyped, TypeOK, Scenes

\* Where the scene is the one the last input left, input changes it by no more than a transition.
LEMMA InputKeeps ==
  ASSUME UiInv, NEW keys \in SUBSET {"Esc", "L", "I"}, UpdateInput(keys)
  PROVE  UiInv'
<1> DEFINE new == View(KeyScene(keys), offer)
           changed == Transition(new)
           colony == new = "Colony" /\ ~changed
           unfolded == LET applied == inspector # toggle
                   IN  IF colony /\ "I" \in keys THEN ~applied ELSE applied
           cancels == toggle \/ changed
           still == Grips(colony, unfolded, cancels)
<1>1. /\ phase = "events" /\ phase' = "handle" /\ recovery' = offer /\ scene' = KeyScene(keys)
      /\ inputScene' = new /\ armed' = Disarmed(changed) /\ inspector' = unfolded /\ toggle' = FALSE
      /\ select' = (still /\ device.released)
      /\ grip' = (still /\ ~device.released /\ device.down)
      /\ edges' = IF changed THEN NoEdges
                  ELSE [pressed |-> device.pressed, released |-> device.released]
      /\ captured' = Kept(cancels, edges'.released) /\ device' = Taken
      /\ presses' = IF new = "PauseMenu" /\ View(scene, offer) = new THEN presses ELSE 0
      /\ UNCHANGED <<offer, between, shown, begun>>
  BY DEF UpdateInput
<1>2. PICK wanted \in {{}} \cup {{w} : w \in KeyOrders(new, changed)} :
        /\ shown = "none" => keys = {} /\ wanted = {}
        /\ requests' = (IF changed THEN {} ELSE requests)
                         \cup {[what |-> w, seen |-> shown] : w \in wanted}
  BY DEF UpdateInput
<1>3. /\ KeyScene(keys) \in Scenes \ {"Recovery"} /\ new \in Scenes
      /\ new = View(scene', recovery')
  BY <1>1, KeySceneIs DEF UiInv, View, Scenes
<1>4. ~changed => Steady /\ inputScene = new /\ View(scene, offer) = new
  BY DEF Transition, Steady
<1>5. \A w \in wanted : w \in Orders /\ shown = new /\ new \in Home(w) /\ w # "abandon"
  BY <1>1, <1>2, OrdersFit
<1>6. /\ device' \in DeviceRecord /\ ~device'.pressed /\ ~device'.released
      /\ device'.down = device.down
  BY <1>1 DEF Taken, UiInv, UiTyped, DeviceRecord
<1>7. /\ edges' \in [pressed : BOOLEAN, released : BOOLEAN]
      /\ edges'.pressed => device.pressed /\ ~changed
      /\ edges'.released => device.released /\ ~changed
  BY <1>1 DEF NoEdges, UiInv, UiTyped, DeviceRecord
<1>8. armed' => armed /\ ~changed
  BY <1>1 DEF Disarmed
<1>9. captured' # "none" => captured' = captured /\ ~changed
  BY <1>1 DEF Kept
<1>10. ~changed => (new = "PauseMenu" => presses' = presses)
  BY <1>1, <1>4
<1>11. still => colony /\ (device.pressed \/ grip)
  BY DEF Grips
<1> HIDE DEF new, changed, unfolded, cancels, still
<1>12. UiTyped'
  <2>1. requests' \in SUBSET Requests
    <3>1. \A w \in wanted : [what |-> w, seen |-> shown] \in Requests
      BY <1>5 DEF Requests, UiInv, UiTyped, TypeOK
    <3> QED BY <1>2, <3>1 DEF UiInv, UiTyped
  <2>2. captured' \in Controls \cup {"none"}
    BY <1>9 DEF UiInv, UiTyped, TypeOK
  <2>3. presses' \in 0 .. 2
    BY <1>1 DEF UiInv, UiTyped, TypeOK
  <2>4. {recovery', offer', between', toggle'} \subseteq BOOLEAN
    BY <1>1 DEF UiInv, UiTyped, TypeOK
  <2>5. {armed', select', grip', inspector'} \subseteq BOOLEAN
    <3>1. armed' \in BOOLEAN /\ select' \in BOOLEAN /\ grip' \in BOOLEAN
      BY <1>1 DEF Disarmed
    <3>2. inspector' \in BOOLEAN
      BY <1>1 DEF unfolded
    <3> QED BY <3>1, <3>2
  <2> QED BY <1>1, <1>3, <1>6, <1>7, <2>1, <2>2, <2>3, <2>4, <2>5 DEF UiInv, UiTyped, TypeOK
<1>13. OfferInv' /\ SceneInv'
  BY <1>1, <1>3 DEF OfferInv, SceneInv
<1>14. DeviceInv'
  BY <1>1, <1>4, <1>6, <1>7, <1>9 DEF UiInv, DeviceInv
<1>15. PressInv'
  <2>1. Asked("abandon")' => ~changed /\ Asked("abandon")
    BY <1>2, <1>5 DEF Asked
  <2> QED BY <1>1, <1>4, <1>6, <1>7, <1>8, <1>9, <1>10, <2>1 DEF UiInv, PressInv
<1>16. ClickInv'
  <2>1. still => begun = "Colony" /\ new = "Colony"
    <3>1. CASE device.pressed
      BY <1>1, <1>4, <1>11, <3>1 DEF UiInv, DeviceInv, colony
    <3>2. CASE ~device.pressed
      BY <1>4, <1>11, <3>2 DEF UiInv, ClickInv, colony
    <3> QED BY <3>1, <3>2
  <2> QED BY <1>1, <1>6, <2>1 DEF ClickInv
<1>17. UiRequestInv'
  BY <1>1, <1>2, <1>4, <1>5 DEF UiInv, UiRequestInv
<1> QED BY <1>12, <1>13, <1>14, <1>15, <1>16, <1>17 DEF UiInv

\* The loop leaves a scene only for what was asked for in it.
LEMMA HandleKeeps ==
  ASSUME UiInv, Handle
  PROVE  UiInv'
<1>1. /\ phase = "handle" /\ phase' = "draw" /\ requests' = {}
      /\ UNCHANGED <<device, edges, recovery, inputScene, armed, inspector, toggle, captured,
                     grip, select, shown, begun, presses>>
  BY DEF Handle
<1>2. recovery = offer /\ inputScene = View(scene, recovery)
  BY <1>1 DEF UiInv, OfferInv, SceneInv
<1>3. \A what : Asked(what) => inputScene \in Home(what)
  BY <1>1 DEF Asked, UiInv, UiRequestInv
<1>4. /\ offer' \in BOOLEAN /\ between' \in BOOLEAN /\ (offer' => offer)
      /\ \/ scene' = scene
         \/ ~recovery /\ inputScene = "PauseMenu" /\ scene' = "Legacy"
         \/ ~recovery /\ inputScene = "Legacy" /\ scene' = "Colony"
  <2>1. Asked("abandon") => inputScene = "PauseMenu"
    BY <1>3 DEF Home
  <2>2. Asked("found") => inputScene = "Legacy"
    BY <1>3 DEF Home
  <2>3. offer \in BOOLEAN /\ between \in BOOLEAN
    BY DEF UiInv, UiTyped, TypeOK
  <2>4. \/ UNCHANGED <<offer, between, scene>>
        \/ offer' = FALSE /\ between' \in BOOLEAN /\ scene' = scene
        \/ offer' = offer /\ between' = TRUE /\ scene' = scene
        \/ ~offer /\ Asked("abandon") /\ offer' = offer /\ between' = TRUE /\ scene' = "Legacy"
        \/ ~offer /\ Asked("found") /\ offer' = offer /\ between' = FALSE /\ scene' = "Colony"
    BY DEF Handle
  <2>5. offer' \in BOOLEAN /\ (offer' => offer) /\ between' \in BOOLEAN
    <3>1. offer' = offer \/ offer' = FALSE
      BY <2>4
    <3>2. between' = between \/ between' \in BOOLEAN
      BY <2>4
    <3>3. offer' \in BOOLEAN /\ (offer' => offer)
      <4>1. CASE offer' = offer
        BY <2>3, <4>1
      <4>2. CASE offer' = FALSE
        BY <4>2
      <4> QED BY <3>1, <4>1, <4>2
    <3>4. between' \in BOOLEAN
      BY <2>3, <3>2
    <3> QED BY <3>3, <3>4
  <2>6. \/ scene' = scene
        \/ ~offer /\ inputScene = "PauseMenu" /\ scene' = "Legacy"
        \/ ~offer /\ inputScene = "Legacy" /\ scene' = "Colony"
    BY <2>1, <2>2, <2>4
  <2> QED BY <1>2, <2>5, <2>6
<1>5. UiTyped'
  <2>1. scene' \in Scenes \ {"Recovery"}
    BY <1>4 DEF UiInv, UiTyped, TypeOK, Scenes
  <2>2. {recovery', offer', between', armed', inspector', toggle', grip', select'} \subseteq BOOLEAN
    BY <1>1, <1>4 DEF UiInv, UiTyped, TypeOK
  <2> QED BY <1>1, <2>1, <2>2 DEF UiInv, UiTyped, TypeOK
<1>6. OfferInv' /\ SceneInv'
  BY <1>1, <1>2, <1>4 DEF OfferInv, SceneInv, View
<1>7. DeviceInv' /\ PressInv'
  BY <1>1 DEF UiInv, DeviceInv, PressInv, Asked
<1>8. ClickInv' /\ UiRequestInv'
  BY <1>1 DEF UiInv, ClickInv, UiRequestInv
<1> QED BY <1>5, <1>6, <1>7, <1>8 DEF UiInv

-----------------------------------------------------------------------------
\* What a set of states contains that every control of a page stays in, the page stays in.
LEMMA TrackedStays ==
  ASSUME NEW G, NEW a \in G, NEW usable, NEW page \in Seq(Controls),
         \A x \in G, n \in 1 .. Len(page) : Track(x, page[n], usable) \in G
  PROVE  Tracked(a, page, usable) \in G
<1> DEFINE N == Len(page)
           next == [p \in Steps(N, G) |-> Track(p[2], page[p[1]], usable)]
           Body(f) == [n \in 0 .. N |-> IF n = 0 THEN a ELSE Track(f[n - 1], page[n], usable)]
           after == CHOOSE f : f = Body(f)
<1>1. N \in Nat
  OBVIOUS
<1>2. PICK g \in [0 .. N -> G] : Passed(g, a, next, N)
  <2>1. \A p \in Steps(N, G) : p[1] \in 1 .. N /\ p[2] \in G
    BY DEF Steps
  <2>2. next \in [Steps(N, G) -> G]
    BY <2>1
  <2> HIDE DEF next, N
  <2> QED BY ONLY <1>1, <2>2, a \in G, Iterated
<1>3. g = Body(g)
  <2>1. ASSUME NEW n \in 0 .. N PROVE g[n] = Body(g)[n]
    <3>1. CASE n = 0
      BY <1>2, <3>1 DEF Passed
    <3>2. CASE n # 0
      <4>1. n \in 1 .. N /\ n - 1 \in 0 .. N
        BY <1>1, <3>2
      <4>2. <<n, g[n - 1]>> \in Steps(N, G)
        BY <1>2, <4>1 DEF Steps
      <4>3. g[n] = next[<<n, g[n - 1]>>]
        BY <1>2, <4>1 DEF Passed
      <4> QED BY <3>2, <4>2, <4>3
    <3> QED BY <3>1, <3>2
  <2> HIDE DEF N
  <2> QED BY <1>2, <2>1
<1>4. after = Body(after)
  <2> HIDE DEF Body
  <2> QED BY <1>3
<1> HIDE DEF after
<1>5. \A n \in 0 .. N : after[n] = IF n = 0 THEN a ELSE Track(after[n - 1], page[n], usable)
  <2> HIDE DEF N
  <2> QED BY <1>4
<1> DEFINE Bad == {n \in 0 .. N : after[n] \notin G}
<1>6. ASSUME NEW n \in Bad PROVE \E j \in Bad : j < n
  <2>1. n # 0
    BY <1>1, <1>5
  <2>2. n \in 1 .. N /\ n - 1 \in 0 .. N /\ n - 1 < n
    BY <1>1, <2>1
  <2>3. after[n - 1] \notin G
    BY <1>5, <2>1, <2>2
  <2> QED BY <2>2, <2>3
<1>7. Bad = {}
  <2>1. Bad \in SUBSET (0 .. N)
    OBVIOUS
  <2> HIDE DEF Bad, N
  <2> QED BY ONLY <1>1, <1>6, <2>1, NoneBadUpTo
<1>8. after[N] \in G
  BY <1>1, <1>7
<1>9. Tracked(a, page, usable) = after[N]
  BY DEF Tracked, after
<1> QED BY <1>8, <1>9

\* What is drawn so far: a record of what the controls change.
Canvas ==
  [scene : Scenes \ {"Recovery"}, captured : Controls \cup {"none"}, armed : BOOLEAN,
   toggle : BOOLEAN, requests : SUBSET Requests, live : BOOLEAN]

Area(c) == IF armed THEN ArmedRect[c] ELSE Rect[c]

\* A control that is tracked takes the capture, keeps it, or is clicked.
LEMMA TrackIs ==
  ASSUME NEW x \in Canvas, NEW c \in Controls, NEW usable
  PROVE  LET t == Track(x, c, usable)
         IN  \E h \in {x.captured, c} :
               /\ h # x.captured => edges.pressed /\ x.live
               /\ \/ t = [x EXCEPT !.captured = h]
                  \/ /\ edges.released /\ h = c /\ x.live /\ device.pointer \in Area(c)
                     /\ t = Clicked([x EXCEPT !.captured = "none"], c)
<1> DEFINE over(s) == x.live /\ c \in usable /\ s \in Area(c)
           h == IF edges.pressed /\ over(device.origin) THEN c ELSE x.captured
<1>1. Track(x, c, usable) = IF edges.released /\ h = c /\ over(device.pointer)
                            THEN Clicked([x EXCEPT !.captured = "none"], c)
                            ELSE [x EXCEPT !.captured = h]
  BY DEF Track, Area
<1>2. h \in {x.captured, c} /\ (h # x.captured => edges.pressed /\ x.live)
  OBVIOUS
<1> QED BY <1>1, <1>2

\* A request is made.
LEMMA AsksIs ==
  ASSUME NEW x \in Canvas, NEW w \in Orders, begun \in Scenes \cup {"none"}
  PROVE  LET t == Asks(x, w)
         IN  /\ t \in Canvas /\ t.captured = x.captured /\ t.armed = x.armed /\ t.live = x.live
             /\ t.scene = x.scene
             /\ \A r \in t.requests \ x.requests : r.seen = begun /\ r.what = w
<1>1. [what |-> w, seen |-> begun] \in Requests
  BY DEF Requests
<1>2. (x.requests \cup {[what |-> w, seen |-> begun]}) \in SUBSET Requests
  BY <1>1 DEF Canvas
<1> HIDE DEF Requests
<1> QED BY <1>2 DEF Asks, Canvas

\* The controls that ask for an order.
Buttons(w) ==
  CASE w = "save" -> {"Bar", "SaveColony"}
    [] w = "order" -> {"Card"}
    [] w = "flight" -> {"Send"}
    [] w = "trait" -> {"Trait"}
    [] w = "found" -> {"Found"}
    [] w = "recover" -> {"Restore"}
    [] w = "fresh" -> {"Fresh"}
    [] w = "abandon" -> {"Confirm"}

\* What a click on c may make of x: another scene, armed or toggled, or one request more.
Effect(x, c, t) ==
  /\ t \in Canvas /\ t.captured = "none"
  /\ t.armed => x.armed \/ c = "Abandon"
  /\ t.live => x.live
  /\ \/ t.scene = x.scene
     \/ c = "Flight" /\ ~recovery /\ t.scene = "Legacy" /\ ~t.live
     \/ c \in {"CloseLegacy", "Return"} /\ ~recovery /\ t.scene = "Colony"
  /\ \A r \in t.requests \ x.requests : r.seen = begun /\ c \in Buttons(r.what)

\* A button's request is its click's effect.
LEMMA AsksFits ==
  ASSUME NEW x \in Canvas, x.captured = "none", NEW w \in Orders, NEW c \in Buttons(w),
         begun \in Scenes \cup {"none"}
  PROVE  Effect(x, c, Asks(x, w))
<1> DEFINE t == Asks(x, w)
<1>1. /\ t \in Canvas /\ t.captured = x.captured /\ t.armed = x.armed /\ t.live = x.live
      /\ t.scene = x.scene
      /\ \A r \in t.requests \ x.requests : r.seen = begun /\ r.what = w
  BY AsksIs
<1> HIDE DEF t
<1>2. Effect(x, c, t)
  BY <1>1 DEF Effect
<1> QED BY <1>2 DEF t

\* A click on a control changes the scene, what is armed or toggled, or makes one request.
LEMMA ClickedIs ==
  ASSUME NEW x \in Canvas, x.captured = "none", NEW c \in Controls, begun \in Scenes \cup {"none"}
  PROVE  Effect(x, c, Clicked(x, c))
<1>1. CASE c \in {"Bar", "SaveColony"}
  <2>1. Clicked(x, c) = Asks(x, "save") /\ "save" \in Orders /\ c \in Buttons("save")
    BY <1>1 DEF Clicked, Orders, Buttons
  <2> QED BY <2>1, AsksFits
<1>2. CASE c = "Card"
  <2>1. Clicked(x, c) = Asks(x, "order") /\ "order" \in Orders /\ c \in Buttons("order")
    BY <1>2 DEF Clicked, Orders, Buttons
  <2> QED BY <2>1, AsksFits
<1>3. CASE c = "Send"
  <2>1. Clicked(x, c) = Asks(x, "flight") /\ "flight" \in Orders /\ c \in Buttons("flight")
    BY <1>3 DEF Clicked, Orders, Buttons
  <2> QED BY <2>1, AsksFits
<1>4. CASE c = "Trait"
  <2>1. Clicked(x, c) = Asks(x, "trait") /\ "trait" \in Orders /\ c \in Buttons("trait")
    BY <1>4 DEF Clicked, Orders, Buttons
  <2> QED BY <2>1, AsksFits
<1>5. CASE c = "Found"
  <2>1. Clicked(x, c) = Asks(x, "found") /\ "found" \in Orders /\ c \in Buttons("found")
    BY <1>5 DEF Clicked, Orders, Buttons
  <2> QED BY <2>1, AsksFits
<1>6. CASE c = "Restore"
  <2>1. Clicked(x, c) = Asks(x, "recover") /\ "recover" \in Orders /\ c \in Buttons("recover")
    BY <1>6 DEF Clicked, Orders, Buttons
  <2> QED BY <2>1, AsksFits
<1>7. CASE c = "Fresh"
  <2>1. Clicked(x, c) = Asks(x, "fresh") /\ "fresh" \in Orders /\ c \in Buttons("fresh")
    BY <1>7 DEF Clicked, Orders, Buttons
  <2> QED BY <2>1, AsksFits
<1>8. CASE c = "Confirm"
  <2> DEFINE y == Asks(x, "abandon")
             t == [y EXCEPT !.armed = FALSE]
  <2>1. Clicked(x, c) = t /\ "abandon" \in Orders /\ c \in Buttons("abandon")
    BY <1>8 DEF Clicked, Orders, Buttons
  <2>2. Effect(x, c, y)
    BY <2>1, AsksFits
  <2> HIDE DEF y
  <2>3. y \in Canvas
    BY <2>2 DEF Effect
  <2>4. t \in Canvas /\ t.captured = y.captured /\ t.live = y.live /\ t.scene = y.scene /\ ~t.armed
        /\ t.requests = y.requests
    <3> HIDE DEF Requests
    <3> QED BY <2>3 DEF Canvas
  <2> HIDE DEF t
  <2>5. Effect(x, c, t)
    BY <2>2, <2>4 DEF Effect
  <2> QED BY <2>1, <2>5
<1>9. CASE c \in {"Inspector", "Abandon", "Keep"}
  BY <1>9 DEF Clicked, Canvas, Effect
<1>10. CASE c = "Flight"
  BY <1>10 DEF Clicked, Opens, Canvas, Scenes, Effect
<1>11. CASE c \in {"CloseLegacy", "Return"}
  BY <1>11 DEF Clicked, Opens, Canvas, Scenes, Effect
<1> QED BY <1>1, <1>2, <1>3, <1>4, <1>5, <1>6, <1>7, <1>8, <1>9, <1>10, <1>11 DEF Controls

\* What tracking a control makes of x: it takes the capture or is clicked, if it was not left alone.
Seizes(x, c, t) ==
  /\ t \in Canvas /\ t.scene = x.scene /\ t.armed = x.armed /\ t.live = x.live
  /\ t.requests = x.requests
  /\ t.captured = x.captured \/ (t.captured = c /\ edges.pressed)
Clicks(x, c, t) ==
  /\ edges.released /\ x.live /\ device.pointer \in Area(c) /\ Effect(x, c, t)
  /\ x.captured = c \/ edges.pressed

\* Tracking has no other outcome.
LEMMA TrackFits ==
  ASSUME NEW x \in Canvas, NEW c \in Controls, NEW usable, begun \in Scenes \cup {"none"}
  PROVE  LET t == Track(x, c, usable) IN Seizes(x, c, t) \/ Clicks(x, c, t)
<1> DEFINE t == Track(x, c, usable)
           y == [x EXCEPT !.captured = "none"]
<1>1. PICK h \in {x.captured, c} :
        /\ h # x.captured => edges.pressed /\ x.live
        /\ \/ t = [x EXCEPT !.captured = h]
           \/ /\ edges.released /\ h = c /\ x.live /\ device.pointer \in Area(c)
              /\ t = Clicked(y, c)
  BY TrackIs
<1> HIDE DEF t
<1>2. CASE t = [x EXCEPT !.captured = h]
  <2>1. t \in Canvas /\ t.scene = x.scene /\ t.armed = x.armed /\ t.live = x.live
        /\ t.requests = x.requests /\ t.captured = h
    <3> HIDE DEF Requests
    <3> QED BY <1>1, <1>2 DEF Canvas
  <2>2. Seizes(x, c, t)
    BY <1>1, <2>1 DEF Seizes
  <2> QED BY <2>2 DEF t
<1>3. CASE edges.released /\ h = c /\ x.live /\ device.pointer \in Area(c) /\ t = Clicked(y, c)
  <2>1. y \in Canvas /\ y.scene = x.scene /\ y.armed = x.armed /\ y.live = x.live
        /\ y.requests = x.requests /\ y.captured = "none"
    <3> HIDE DEF Requests
    <3> QED BY DEF Canvas
  <2> HIDE DEF y
  <2>2. Effect(y, c, t)
    BY <1>3, <2>1, ClickedIs
  <2>3. Effect(x, c, t)
    BY <2>1, <2>2 DEF Effect
  <2>4. Clicks(x, c, t)
    BY <1>1, <1>3, <2>3 DEF Clicks
  <2> QED BY <2>4 DEF t
<1> QED BY <1>1, <1>2, <1>3

-----------------------------------------------------------------------------
\* Everything drawn so far was pressed in the scene of the last input, and often enough.
Sound(x) ==
  /\ x.armed => inputScene = "PauseMenu" /\ presses >= 1
  /\ x.captured = "Abandon" => inputScene = "PauseMenu" /\ presses >= 1
  /\ x.captured = "Confirm" => inputScene = "PauseMenu" /\ presses = 2
  /\ x.captured # "none" => begun \in {"none", inputScene}
  /\ \A r \in x.requests : /\ r.seen = inputScene
                           /\ r.what = "abandon" => inputScene = "PauseMenu" /\ presses = 2

\* A control is only drawn where its click is meant.
Meant(c) ==
  /\ c = "Abandon" => inputScene = "PauseMenu"
  /\ c = "Confirm" => inputScene = "PauseMenu" /\ armed

\* Tracking a control that may be drawn keeps what is drawn sound.
LEMMA TrackSound ==
  ASSUME UiInv, phase = "draw", NEW x \in Canvas, Sound(x), NEW c \in Controls, Meant(c),
         NEW usable
  PROVE  Track(x, c, usable) \in Canvas /\ Sound(Track(x, c, usable))
<1> DEFINE t == Track(x, c, usable)
<1>1. begun \in Scenes \cup {"none"}
  BY DEF UiInv, UiTyped, TypeOK
<1>2. Seizes(x, c, t) \/ Clicks(x, c, t)
  BY <1>1, TrackFits
<1>3. /\ edges.pressed => begun = inputScene
      /\ edges.released => begun # "none"
      /\ edges.pressed /\ inputScene = "PauseMenu" => presses >= 1
      /\ edges.pressed /\ armed => presses = 2
  BY DEF UiInv, DeviceInv, PressInv
<1>4. c # "none"
  BY DEF Controls
<1> HIDE DEF t
<1>5. ASSUME Seizes(x, c, t) PROVE t \in Canvas /\ Sound(t)
  BY <1>3, <1>5 DEF Seizes, Sound, Meant
<1>6. ASSUME Clicks(x, c, t) PROVE t \in Canvas /\ Sound(t)
  <2>1. t \in Canvas /\ t.captured = "none" /\ (t.armed => x.armed \/ c = "Abandon")
    BY <1>6 DEF Clicks, Effect
  <2>2. x.captured = c \/ edges.pressed
    BY <1>6 DEF Clicks
  <2>3. t.armed => inputScene = "PauseMenu" /\ presses >= 1
    BY <1>3, <2>1, <2>2 DEF Sound, Meant
  <2>4. begun = inputScene
    BY <1>3, <1>4, <1>6, <2>2 DEF Clicks, Sound
  <2>5. \A r \in t.requests \ x.requests : r.seen = begun /\ c \in Buttons(r.what)
    BY <1>6 DEF Clicks, Effect
  <2>6. ASSUME NEW r \in t.requests, r.what = "abandon", r \notin x.requests
        PROVE  inputScene = "PauseMenu" /\ presses = 2
    <3>1. c = "Confirm"
      BY <2>5, <2>6 DEF Buttons
    <3>2. CASE x.captured = c
      BY <3>1, <3>2 DEF Sound
    <3>3. CASE edges.pressed
      BY <1>3, <3>1, <3>3 DEF Meant
    <3> QED BY <2>2, <3>2, <3>3
  <2> QED BY <2>1, <2>3, <2>4, <2>5, <2>6 DEF Sound
<1>7. t \in Canvas /\ Sound(t)
  BY <1>2, <1>5, <1>6
<1> QED BY <1>7 DEF t

-----------------------------------------------------------------------------
\* The canvas a frame's drawing starts from.
Start == [scene |-> scene, captured |-> captured, armed |-> armed, toggle |-> toggle,
          requests |-> requests, live |-> View(scene, recovery) = "Colony"]
\* Pointer, scene and requests when the footer and the panel have been drawn: the flight's button
\* may have opened the legacy, and then nothing else was clicked.
BelowFits(x) ==
  /\ \/ x.scene = scene
     \/ /\ ~recovery /\ x.scene = "Legacy" /\ scene = "Colony" /\ x.requests = {}
        /\ device.pointer \in Rect["Flight"]
  /\ x.requests # {} => View(scene, recovery) = "Colony"
  /\ \A r \in x.requests : r.what \in {"save", "order"}

\* Only the colony's scene lets its footer and panel be clicked.
Under == {x \in Canvas : /\ Sound(x) /\ BelowFits(x)
                         /\ x.live => x.scene = scene /\ View(scene, recovery) = "Colony"}
\* In the footer a save and the flight exclude each other, by where they are.
Foot == {x \in Canvas :
           /\ Sound(x)
           /\ x.live => x.scene = scene /\ View(scene, recovery) = "Colony"
           /\ \/ x.scene = scene
              \/ /\ ~recovery /\ x.scene = "Legacy" /\ scene = "Colony"
                 /\ device.pointer \in Rect["Flight"]
           /\ x.requests # {} =>
                View(scene, recovery) = "Colony" /\ device.pointer \in Rect["Bar"]
           /\ \A r \in x.requests : r.what = "save"}

\* Nothing is armed while the colony's scene is drawn.
LEMMA ColonyUnarmed ==
  ASSUME UiInv, phase = "draw", View(scene, recovery) = "Colony"
  PROVE  ~armed /\ ~recovery /\ scene = "Colony"
BY DEF UiInv, SceneInv, PressInv, View

\* Drawing starts sound and without requests.
LEMMA StartFits ==
  ASSUME UiInv, phase = "draw"
  PROVE  Start \in Foot
<1>1. /\ scene \in Scenes \ {"Recovery"} /\ captured \in Controls \cup {"none"} /\ armed \in BOOLEAN
      /\ toggle \in BOOLEAN /\ requests = {}
  BY DEF UiInv, UiTyped, TypeOK, UiRequestInv
<1>2. Start \in Canvas
  BY <1>1 DEF Start, Canvas
<1>3. Sound(Start)
  BY <1>1 DEF Start, Sound, UiInv, PressInv, DeviceInv
<1> QED BY <1>1, <1>2, <1>3 DEF Foot, Start

\* The footer is drawn.
LEMMA FootStays ==
  ASSUME UiInv, phase = "draw", NEW x \in Foot, NEW usable, NEW c \in {"Bar", "Flight", "Inspector"}
  PROVE  Track(x, c, usable) \in Foot
<1> DEFINE t == Track(x, c, usable)
<1>1. x \in Canvas /\ Sound(x) /\ c \in Controls /\ Meant(c) /\ begun \in Scenes \cup {"none"}
  BY DEF Foot, Controls, Meant, UiInv, UiTyped, TypeOK
<1>2. t \in Canvas /\ Sound(t)
  BY <1>1, TrackSound
<1>3. Seizes(x, c, t) \/ Clicks(x, c, t)
  BY <1>1, TrackFits
<1> HIDE DEF t
<1>4. ASSUME Seizes(x, c, t) PROVE t \in Foot
  BY <1>2, <1>4 DEF Seizes, Foot
<1>5. ASSUME Clicks(x, c, t) PROVE t \in Foot
  <2>1. /\ x.live /\ device.pointer \in Area(c) /\ (t.live => x.live)
        /\ \/ t.scene = x.scene
           \/ c = "Flight" /\ ~recovery /\ t.scene = "Legacy" /\ ~t.live
        /\ \A r \in t.requests \ x.requests : c \in Buttons(r.what)
    BY <1>5 DEF Clicks, Effect
  <2>2. x.scene = scene /\ View(scene, recovery) = "Colony"
    BY <2>1 DEF Foot
  <2>3. device.pointer \in Rect[c] /\ scene = "Colony"
    BY <2>1, <2>2, ColonyUnarmed DEF Area
  <2>4. \A r \in t.requests \ x.requests : r.what = "save" /\ c = "Bar"
    <3>1. ASSUME NEW r \in t.requests \ x.requests PROVE r.what = "save" /\ c = "Bar"
      <4>1. c \in Buttons(r.what) /\ r.what \in Orders
        BY <1>2, <2>1 DEF Canvas, Requests
      <4> QED BY <4>1 DEF Buttons, Orders
    <3> QED BY <3>1
  <2>5. t.requests # {} => device.pointer \in Rect["Bar"]
    BY <2>3, <2>4 DEF Foot
  <2>6. \A r \in t.requests : r.what = "save"
    BY <2>4 DEF Foot
  <2> QED BY <1>2, <2>1, <2>2, <2>3, <2>5, <2>6 DEF Foot
<1> QED BY <1>3, <1>4, <1>5 DEF t

\* The panel is drawn.
LEMMA UnderStays ==
  ASSUME UiInv, phase = "draw", NEW x \in Under, NEW usable
  PROVE  Track(x, "Card", usable) \in Under
<1> DEFINE t == Track(x, "Card", usable)
<1>1. x \in Canvas /\ Sound(x) /\ "Card" \in Controls /\ Meant("Card")
      /\ begun \in Scenes \cup {"none"}
  BY DEF Under, Controls, Meant, UiInv, UiTyped, TypeOK
<1>2. t \in Canvas /\ Sound(t)
  BY <1>1, TrackSound
<1>3. Seizes(x, "Card", t) \/ Clicks(x, "Card", t)
  BY <1>1, TrackFits
<1> HIDE DEF t
<1>4. ASSUME Seizes(x, "Card", t) PROVE t \in Under
  BY <1>2, <1>4 DEF Seizes, Under, BelowFits
<1>5. ASSUME Clicks(x, "Card", t) PROVE t \in Under
  <2>1. /\ x.live /\ t.scene = x.scene
        /\ \A r \in t.requests \ x.requests : "Card" \in Buttons(r.what)
    BY <1>5 DEF Clicks, Effect
  <2>2. x.scene = scene /\ View(scene, recovery) = "Colony"
    BY <2>1 DEF Under
  <2>3. \A r \in t.requests : r.what \in {"save", "order"}
    <3>1. ASSUME NEW r \in t.requests, r \notin x.requests PROVE r.what = "order"
      <4>1. "Card" \in Buttons(r.what) /\ r.what \in Orders
        BY <1>2, <2>1, <3>1 DEF Canvas, Requests
      <4> QED BY <4>1 DEF Buttons, Orders
    <3> QED BY <3>1 DEF Under, BelowFits
  <2> QED BY <1>2, <2>1, <2>2, <2>3 DEF Under, BelowFits
<1> QED BY <1>3, <1>4, <1>5 DEF t

-----------------------------------------------------------------------------
\* The controls a card may show over what was drawn of scene s.
Shows(s, c) ==
  \/ s = "Legacy" /\ c \in {"Send", "Trait", "Found", "CloseLegacy"}
  \/ s = "Recovery" /\ c \in {"Restore", "Fresh"}
  \/ s = "PauseMenu" /\ c \in {"Return", "SaveColony", "Keep"}
  \/ s = "PauseMenu" /\ c = "Confirm" /\ armed
  \/ s = "PauseMenu" /\ c = "Abandon" /\ ~armed

\* A card is a list of them.
LEMMA CardShows ==
  ASSUME NEW s \in Scenes
  PROVE  Card(s) \in Seq(Controls) /\ \A n \in 1 .. Len(Card(s)) : Shows(s, Card(s)[n])
<1> DEFINE S == {c \in Controls : Shows(s, c)}
<1>1. Card(s) \in Seq(S)
  <2>1. CASE s = "Colony"
    <3>1. Card(s) = <<>>
      BY <2>1 DEF Card
    <3> HIDE DEF S
    <3> QED BY <3>1
  <2>2. CASE s = "Legacy"
    <3>1. {"Send", "Trait", "Found", "CloseLegacy"} \subseteq S
      BY <2>2 DEF Shows, Controls
    <3> HIDE DEF S
    <3>2. <<"Trait", "Found", "CloseLegacy">> \in Seq(S) /\ <<"Send", "CloseLegacy">> \in Seq(S)
      BY <3>1
    <3> QED BY <2>2, <3>2 DEF Card, LegacyPanel
  <2>3. CASE s = "Recovery"
    <3>1. {"Restore", "Fresh"} \subseteq S
      BY <2>3 DEF Shows, Controls
    <3> HIDE DEF S
    <3>2. <<"Restore", "Fresh">> \in Seq(S)
      BY <3>1
    <3> QED BY <2>3, <3>2 DEF Card, RecoveryPrompt
  <2>4. CASE s = "PauseMenu"
    <3>1. /\ {"Return", "SaveColony", "Keep"} \subseteq S
          /\ armed => "Confirm" \in S
          /\ ~armed => "Abandon" \in S
      BY <2>4 DEF Shows, Controls
    <3> DEFINE rest == IF armed THEN <<"Confirm", "Keep">> ELSE <<"Abandon">>
    <3>2. Card(s) = <<"Return", "SaveColony">> \o rest
      BY <2>4 DEF Card, PauseMenu
    <3> HIDE DEF S
    <3>3. <<"Return", "SaveColony">> \in Seq(S)
      BY <3>1
    <3>4. rest \in Seq(S)
      <4>1. armed => <<"Confirm", "Keep">> \in Seq(S)
        BY <3>1
      <4>2. ~armed => <<"Abandon">> \in Seq(S)
        BY <3>1
      <4> QED BY <4>1, <4>2
    <3> HIDE DEF rest
    <3> QED BY <3>2, <3>3, <3>4
  <2> QED BY <2>1, <2>2, <2>3, <2>4 DEF Scenes
<1> DEFINE p == Card(s)
<1>2. p \in Seq(S)
  BY <1>1
<1> HIDE DEF p
<1>3. \A n \in 1 .. Len(p) : p[n] \in S
  <2> HIDE DEF S
  <2> QED BY <1>2
<1>4. p \in Seq(Controls)
  <2>1. S \subseteq Controls
    OBVIOUS
  <2> HIDE DEF S
  <2> QED BY <1>2, <2>1
<1> QED BY <1>3, <1>4 DEF p

\* What may be drawn over b, of which d is on the screen: everything asked for is of scene d, and
\* the legacy is only closed by its button.
Over(b, d) ==
  {x \in Canvas :
     /\ Sound(x) /\ \A r \in x.requests : d \in Home(r.what)
     /\ \/ x.scene = b.scene
        \/ /\ ~recovery /\ x.scene = "Colony" /\ d \in {"Legacy", "PauseMenu"}
           /\ d = "Legacy" => device.pointer \in Area("CloseLegacy")}

\* The pause menu is only drawn if the last input left it open.
LEMMA MenuOpen ==
  ASSUME UiInv, phase = "draw", NEW b, BelowFits(b), View(b.scene, recovery) = "PauseMenu"
  PROVE  inputScene = "PauseMenu"
BY DEF UiInv, SceneInv, BelowFits, View

\* The card is drawn.
LEMMA OverStays ==
  ASSUME UiInv, phase = "draw", NEW b, BelowFits(b), NEW d, d = View(b.scene, recovery),
         NEW x \in Over(b, d), NEW usable, NEW c \in Controls, Shows(d, c)
  PROVE  Track(x, c, usable) \in Over(b, d)
<1> DEFINE t == Track(x, c, usable)
<1>1. x \in Canvas /\ Sound(x) /\ begun \in Scenes \cup {"none"}
  BY DEF Over, UiInv, UiTyped, TypeOK
<1>2. Meant(c)
  BY MenuOpen DEF Shows, Meant
<1>3. t \in Canvas /\ Sound(t)
  BY <1>1, <1>2, TrackSound
<1>4. Seizes(x, c, t) \/ Clicks(x, c, t)
  BY <1>1, TrackFits
<1> HIDE DEF t
<1>5. ASSUME Seizes(x, c, t) PROVE t \in Over(b, d)
  BY <1>3, <1>5 DEF Seizes, Over
<1>6. ASSUME Clicks(x, c, t) PROVE t \in Over(b, d)
  <2>1. /\ device.pointer \in Area(c)
        /\ \/ t.scene = x.scene
           \/ c = "Flight" /\ ~recovery /\ t.scene = "Legacy"
           \/ c \in {"CloseLegacy", "Return"} /\ ~recovery /\ t.scene = "Colony"
        /\ \A r \in t.requests \ x.requests : c \in Buttons(r.what)
    BY <1>6 DEF Clicks, Effect
  <2>2. \A r \in t.requests : d \in Home(r.what)
    <3>1. ASSUME NEW r \in t.requests, r \notin x.requests PROVE d \in Home(r.what)
      <4>1. c \in Buttons(r.what) /\ r.what \in Orders
        BY <1>3, <2>1, <3>1 DEF Canvas, Requests
      <4> QED BY <4>1 DEF Buttons, Orders, Shows, Home
    <3> QED BY <3>1 DEF Over
  <2>3. \/ t.scene = b.scene
        \/ /\ ~recovery /\ t.scene = "Colony" /\ d \in {"Legacy", "PauseMenu"}
           /\ d = "Legacy" => device.pointer \in Area("CloseLegacy")
    <3>1. CASE t.scene = x.scene
      BY <3>1 DEF Over
    <3>2. CASE c = "Flight"
      BY <3>2 DEF Shows
    <3>3. CASE c = "CloseLegacy" /\ ~recovery /\ t.scene = "Colony"
      BY <2>1, <3>3 DEF Shows
    <3>4. CASE c = "Return" /\ ~recovery /\ t.scene = "Colony"
      BY <3>4 DEF Shows
    <3> QED BY <2>1, <3>1, <3>2, <3>3, <3>4
  <2> QED BY <1>3, <2>2, <2>3 DEF Over
<1> QED BY <1>4, <1>5, <1>6 DEF t

\* Drawing shows the scene that it finds, and lets nothing through that was meant for another.
LEMMA DrawKeeps ==
  ASSUME UiInv, Draw
  PROVE  UiInv'
<1>1. PICK usable \in {Controls, Controls \ Optional} :
        LET footer == Tracked(Start, Footer, usable)
            region == [footer EXCEPT !.live = View(footer.scene, recovery) = "Colony"]
            below == IF inspector THEN Tracked(region, Panel, usable) ELSE region
            drawn == View(below.scene, recovery)
            end == Tracked([below EXCEPT !.live = TRUE], Card(drawn), usable)
        IN  /\ scene' = end.scene /\ captured' = end.captured /\ armed' = end.armed
            /\ toggle' = end.toggle /\ requests' = end.requests
            /\ shown' = drawn
  BY DEF Draw, Start
<1> DEFINE footer == Tracked(Start, Footer, usable)
           region == [footer EXCEPT !.live = View(footer.scene, recovery) = "Colony"]
           below == IF inspector THEN Tracked(region, Panel, usable) ELSE region
           drawn == View(below.scene, recovery)
           top == [below EXCEPT !.live = TRUE]
           end == Tracked(top, Card(drawn), usable)
<1>2. /\ phase = "draw" /\ phase' = "events" /\ select' = FALSE
      /\ IF device.down THEN UNCHANGED <<device, begun>> ELSE device' = Idle /\ begun' = "none"
      /\ UNCHANGED <<edges, recovery, offer, between, inputScene, inspector, grip, presses>>
  BY DEF Draw
<1>3. footer \in Foot
  <2>1. /\ Footer \in Seq(Controls)
        /\ \A n \in 1 .. Len(Footer) : Footer[n] \in {"Bar", "Flight", "Inspector"}
    BY DEF Footer, Controls
  <2>2. \A x \in Foot, n \in 1 .. Len(Footer) : Track(x, Footer[n], usable) \in Foot
    BY <1>2, <2>1, FootStays
  <2> QED BY <1>2, <2>1, <2>2, StartFits, TrackedStays
<1> HIDE DEF footer
<1>4. region \in Under
  <2>1. region \in Canvas /\ region.scene = footer.scene /\ region.requests = footer.requests
        /\ region.captured = footer.captured /\ region.armed = footer.armed
        /\ region.live = (View(footer.scene, recovery) = "Colony")
    <3> HIDE DEF Requests
    <3> QED BY <1>3 DEF Foot, Canvas
  <2> HIDE DEF region
  <2>2. Sound(region)
    BY <1>3, <2>1 DEF Foot, Sound
  <2>3. BelowFits(region)
    BY <1>2, <1>3, <2>1, ColonyUnarmed, InterfaceAssumption DEF Foot, BelowFits
  <2>4. region.live => region.scene = scene /\ View(scene, recovery) = "Colony"
    BY <2>1, <2>3 DEF BelowFits, View
  <2> QED BY <2>1, <2>2, <2>3, <2>4 DEF Under
<1> HIDE DEF region
<1>5. below \in Under
  <2>1. Panel \in Seq(Controls) /\ \A n \in 1 .. Len(Panel) : Panel[n] = "Card"
    BY DEF Panel, Controls
  <2>2. \A x \in Under, n \in 1 .. Len(Panel) : Track(x, Panel[n], usable) \in Under
    BY <1>2, <2>1, UnderStays
  <2>3. Tracked(region, Panel, usable) \in Under
    BY <1>4, <2>1, <2>2, TrackedStays
  <2> QED BY <1>4, <2>3
<1> HIDE DEF below
<1>6. below \in Canvas /\ Sound(below) /\ BelowFits(below) /\ drawn \in Scenes
  BY <1>5 DEF Under, Canvas, View, Scenes
<1>7. top \in Over(below, drawn)
  <2>1. top \in Canvas /\ top.scene = below.scene /\ top.requests = below.requests
        /\ top.captured = below.captured /\ top.armed = below.armed
    <3> HIDE DEF Requests
    <3> QED BY <1>6 DEF Canvas
  <2> HIDE DEF top
  <2>2. \A r \in top.requests : drawn \in Home(r.what)
    BY <1>6, <2>1 DEF BelowFits, Home
  <2> QED BY <1>6, <2>1, <2>2 DEF Over, Sound
<1> HIDE DEF top
<1>8. end \in Over(below, drawn)
  <2>1. Card(drawn) \in Seq(Controls) /\ \A n \in 1 .. Len(Card(drawn)) : Shows(drawn, Card(drawn)[n])
    BY <1>6, CardShows
  <2>2. \A n \in 1 .. Len(Card(drawn)) : Card(drawn)[n] \in Controls
    BY <2>1
  <2>3. \A x \in Over(below, drawn), n \in 1 .. Len(Card(drawn)) :
          Track(x, Card(drawn)[n], usable) \in Over(below, drawn)
    BY <1>2, <1>6, <2>1, <2>2, OverStays
  <2> HIDE DEF drawn
  <2> QED BY <1>7, <2>1, <2>3, TrackedStays
<1> HIDE DEF end
<1>9. /\ scene' = end.scene /\ captured' = end.captured /\ armed' = end.armed
      /\ toggle' = end.toggle /\ requests' = end.requests /\ shown' = drawn
  BY <1>1 DEF footer, region, below, top, end
<1>10. View(end.scene, offer) = inputScene => drawn = inputScene
  <2>1. CASE recovery
    BY <1>2, <2>1 DEF View, UiInv, SceneInv
  <2>2. CASE ~recovery
    <3>1. ~offer /\ drawn = below.scene
      BY <1>2, <2>2 DEF View, UiInv, OfferInv
    <3>2. CASE inputScene = scene
      <4>1. \/ below.scene = scene
            \/ below.scene = "Legacy" /\ scene = "Colony" /\ device.pointer \in Rect["Flight"]
        BY <1>6 DEF BelowFits
      <4>2. ASSUME below.scene = "Legacy", scene = "Colony", device.pointer \in Rect["Flight"]
            PROVE  end.scene # "Colony"
        <5>1. Area("CloseLegacy") = Rect["CloseLegacy"]
          BY <1>2, <2>2, <4>2, ColonyUnarmed DEF View, Area
        <5>2. device.pointer \notin Rect["CloseLegacy"]
          BY <4>2, InterfaceAssumption
        <5> QED BY <1>8, <3>1, <4>2, <5>1, <5>2 DEF Over
      <4> QED BY <3>1, <3>2, <4>1, <4>2 DEF View
    <3>3. CASE inputScene = "PauseMenu" /\ scene = "Legacy"
      BY <1>6, <1>8, <3>1, <3>3 DEF View, Over, BelowFits
    <3>4. CASE inputScene = "Legacy" /\ scene = "Colony"
      BY <1>6, <1>8, <3>1, <3>4 DEF View, Over, BelowFits
    <3> QED BY <1>2, <2>2, <3>2, <3>3, <3>4 DEF UiInv, SceneInv, View
  <2> QED BY <2>1, <2>2
<1>11. end \in Canvas /\ Sound(end) /\ \A r \in end.requests : drawn \in Home(r.what)
  BY <1>8 DEF Over
<1>12. /\ device' \in DeviceRecord /\ ~device'.pressed /\ ~device'.released
       /\ (device'.down => device.down /\ begun' = begun)
       /\ begun' \in {begun, "none"}
  <2>1. CASE device.down
    BY <1>2, <2>1 DEF UiInv, UiTyped, DeviceInv
  <2>2. CASE ~device.down
    <3>1. device' = Idle /\ begun' = "none"
      BY <1>2, <2>2
    <3>2. Idle \in DeviceRecord /\ ~Idle.down /\ ~Idle.pressed /\ ~Idle.released
      BY InterfaceAssumption DEF Idle, DeviceRecord
    <3> QED BY <3>1, <3>2
  <2> QED BY <2>1, <2>2
<1>13. UiTyped'
  <2>1. /\ scene' \in Scenes \ {"Recovery"} /\ captured' \in Controls \cup {"none"}
        /\ armed' \in BOOLEAN /\ toggle' \in BOOLEAN /\ requests' \in SUBSET Requests
    BY <1>9, <1>11 DEF Canvas
  <2>2. begun' \in Scenes \cup {"none"} /\ shown' \in Scenes \cup {"none"}
    BY <1>6, <1>9, <1>12 DEF UiInv, UiTyped, TypeOK
  <2>3. {recovery', offer', between', armed', inspector', toggle', grip', select'} \subseteq BOOLEAN
    BY <1>2, <2>1 DEF UiInv, UiTyped, TypeOK
  <2> QED BY <1>2, <1>12, <2>1, <2>2, <2>3 DEF UiInv, UiTyped, TypeOK
<1>14. OfferInv' /\ SceneInv'
  BY <1>2, <1>9 DEF UiInv, OfferInv, SceneInv, View
<1>15. DeviceInv'
  <2>1. shown' # "none"
    BY <1>6, <1>9 DEF Scenes
  <2>2. View(end.scene, offer) = inputScene => shown' = inputScene
    BY <1>9, <1>10
  <2>3. captured' # "none" => begun' \in {"none", inputScene}
    BY <1>9, <1>11, <1>12 DEF Sound
  <2> QED BY <1>2, <1>9, <1>12, <2>1, <2>2, <2>3 DEF UiInv, DeviceInv, Steady
<1>16. PressInv'
  BY <1>2, <1>9, <1>11, <1>12 DEF UiInv, PressInv, Sound, Asked
<1>17. ClickInv'
  BY <1>2, <1>12 DEF UiInv, ClickInv
<1>18. UiRequestInv'
  BY <1>2, <1>9, <1>10, <1>11 DEF UiRequestInv, Steady, Sound
<1> QED BY <1>13, <1>14, <1>15, <1>16, <1>17, <1>18 DEF UiInv

\* No step of the interface breaks its invariant.
LEMMA UiNextKeeps ==
  ASSUME UiInv, [UiNext]_uiVars
  PROVE  UiInv'
<1>1. CASE \E s \in Spots : MoveTo(s) \/ Press(s) \/ Release(s)
  BY <1>1, MoveKeeps, PressKeeps, ReleaseKeeps
<1>2. CASE \E keys \in SUBSET {"Esc", "L", "I"} : UpdateInput(keys)
  BY <1>2, InputKeeps
<1>3. CASE Handle
  BY <1>3, HandleKeeps
<1>4. CASE Draw
  BY <1>4, DrawKeeps
<1>5. CASE UNCHANGED uiVars
  BY <1>5 DEF uiVars, UiInv, UiTyped, TypeOK, OfferInv, SceneInv, DeviceInv, PressInv, ClickInv,
              UiRequestInv, Steady, Asked, View
<1> QED BY <1>1, <1>2, <1>3, <1>4, <1>5 DEF UiNext

\* The interface's invariant: edges, capture, arming and requests belong to the scene of the last
\* input, whatever the keys, the loop and the clicks make of it (desktop_input.cpp, ui_state.cpp,
\* interaction.cpp, renderer.cpp, app/main.cpp).
THEOREM UiInvariance == UiSpec => []UiInv
<1>1. UiInit => UiInv
  BY UiStart
<1>2. UiInv /\ [UiNext]_uiVars => UiInv'
  BY UiNextKeeps
<1> QED BY <1>1, <1>2, PTL DEF UiSpec

\* A colony is only abandoned after two presses in one visit of the pause menu, however many spots
\* the window has and whatever they are covered by (renderer.cpp:347-353,1571-1585).
THEOREM AbandonNeedsTwoPresses == UiSpec => []AbandonMeant
<1>1. UiInv => AbandonMeant
  BY DEF UiInv, PressInv, AbandonMeant
<1> QED BY <1>1, UiInvariance, PTL

\* Every request the loop carries out, and every click on the world, was made in the scene that is
\* still the scene (renderer.cpp:345-353,399-402, main.cpp:365-436).
THEOREM RequestsOfTheirScene == UiSpec => []RequestsStayInScene
<1>1. UiInv => RequestsStayInScene
  BY DEF UiInv, UiTyped, SceneInv, ClickInv, UiRequestInv, RequestsStayInScene
<1> QED BY <1>1, UiInvariance, PTL
-----------------------------------------------------------------------------
(* The saved run *)

\* What a world is made of, between steps and between turns.
SourceRecord == [id : Nat \ {0}, at : Turf, amount : Nat, reserved : Nat, known : BOOLEAN]
AntRecord ==
  [at : Turf, cargo : {"None", "Food", "Spoil"}, amount : Nat,
   state : {"AtHome", "ToSource", "Returning", "Storing"}, source : Nat, reserved : Nat,
   path : Seq(Turf), revision : Nat]
HeapRecord == UNION {[D -> 0 .. Grains] : D \in SUBSET LaterRooms}
TrailRecord == [front : Field, back : {Blank}, active : SUBSET Cells]
Broods == [1 .. 1 -> [role : {"Gyne", "Worker"}]]
WorldRecord ==
  [open : SUBSET Cells, revision : Nat \ {0}, rooms : {FoundingRooms, LaterRooms},
   passages : {{}}, zones : SUBSET LaterRooms, zoned : Nat \X {FoundingRooms, LaterRooms},
   sources : Seq(SourceRecord), heaps : HeapRecord, carried : Nat, trails : TrailRecord,
   mature : BOOLEAN, eggs : Nat, brood : Broods,
   traits : [vigor : 0 .. MaxTier, industry : 0 .. MaxTier], worked : Nat,
   ants : [Workers -> AntRecord]]

GroundHolds(w) == Turf \subseteq w.open /\ DOMAIN w.heaps \subseteq w.open
ZonesHold(w) ==
  /\ w.zones \subseteq Zones(w) /\ w.zoned[1] <= w.revision
  /\ ZonesCurrent(w) => w.zones = Zones(w)
IdsDiffer(sources) == \A i, j \in DOMAIN sources : sources[i].id = sources[j].id => i = j
Due(ant, id) == IF ant.source = id THEN ant.reserved ELSE 0
ClaimsHold(sources, ant) ==
  /\ \A i \in DOMAIN sources :
       sources[i].reserved = Due(ant, sources[i].id) /\ sources[i].reserved <= sources[i].amount
  /\ ant.reserved > 0 => \E i \in DOMAIN sources : sources[i].id = ant.source
ForagerHolds(w, ant) ==
  /\ ant.state = "ToSource" <=> ant.reserved > 0
  /\ ant.cargo = IF ant.state \in {"Returning", "Storing"} THEN "Food" ELSE "None"
  /\ w.carried = IF ant.cargo = "Food" THEN ant.amount ELSE 0
DiggerHolds(ant) == ant.source = 0 /\ ant.reserved = 0 /\ ant.cargo # "Food"

LandHolds(w) == GroundHolds(w) /\ ZonesHold(w) /\ Stored(w) <= Capacity(w)
CrewHolds(w) ==
  /\ IdsDiffer(w.sources) /\ ClaimsHold(w.sources, w.ants[Forager])
  /\ ForagerHolds(w, w.ants[Forager]) /\ DiggerHolds(w.ants[Digger])
LifeHolds(w) == (w.mature \/ w.eggs = 0) /\ Tidy(w.trails)
WorldInv(w) == w \in WorldRecord /\ LandHolds(w) /\ CrewHolds(w) /\ LifeHolds(w)
SavedInv == turn \in 0 .. 4 /\ WorldInv(world) /\ (turn = 0 => world.worked = 0)

Beside(near, ground) == {c \in ground : \E d \in near, i \in 1 .. 4 : Side(d, i) = c}
Joins(f, ground) ==
  /\ f[0] = {Hall}
  /\ \A k \in 1 .. Cardinality(Nest) : f[k] = f[k - 1] \cup Beside(f[k - 1], ground)

-----------------------------------------------------------------------------
\* The cells of the nest can be counted.
LEMMA NestCounted == IsFiniteSet(Nest) /\ Cardinality(Nest) \in Nat /\ Hall \in Cells
<1>1. IsFiniteSet(Nest)
  BY SavedRunAssumption, FS_Subset
<1>2. Hall \in Turf
  BY SavedRunAssumption DEF Turf
<1> QED BY <1>1, <1>2, FS_CardinalityType, SavedRunAssumption

\* What hangs together with the hall is found ring by ring (world.cpp:357-379).
LEMMA JoinedSteps ==
  ASSUME NEW ground \in SUBSET Cells
  PROVE  \E f : Joins(f, ground) /\ Joined(ground) = f[Cardinality(Nest)]
<1> DEFINE N == Cardinality(Nest)
           Body(f) == [n \in 0 .. N |->
                         IF n = 0 THEN {Hall}
                         ELSE LET near == f[n - 1]
                              IN  near \cup
                                    {c \in ground : \E d \in near, i \in 1 .. 4 : Side(d, i) = c}]
           reach == CHOOSE f : f = Body(f)
           S == SUBSET Cells
           next == [p \in Steps(N, S) |-> p[2] \cup Beside(p[2], ground)]
<1>1. N \in Nat /\ {Hall} \in S
  BY NestCounted
<1>2. Joined(ground) = reach[N]
  BY DEF Joined
<1>3. next \in [Steps(N, S) -> S]
  BY DEF Steps, Beside
<1>4. PICK f \in [0 .. N -> S] : Passed(f, {Hall}, next, N)
  <2> HIDE DEF next, S, N
  <2> QED BY ONLY <1>1, <1>3, Iterated
<1>5. ASSUME NEW k \in 1 .. N PROVE f[k] = f[k - 1] \cup Beside(f[k - 1], ground)
  <2>1. k - 1 \in 0 .. N /\ f[k - 1] \in S
    BY <1>1
  <2>2. <<k, f[k - 1]>> \in Steps(N, S)
    BY <2>1 DEF Steps
  <2>3. f[k] = next[<<k, f[k - 1]>>]
    BY <1>4 DEF Passed
  <2> QED BY <2>2, <2>3
<1>6. f[0] = {Hall}
  BY <1>4 DEF Passed
<1>7. f = Body(f)
  <2>1. ASSUME NEW n \in 0 .. N PROVE f[n] = Body(f)[n]
    <3>1. CASE n = 0
      BY <1>6, <3>1
    <3>2. CASE n # 0
      <4>1. n \in 1 .. N
        BY <1>1, <3>2
      <4> QED BY <1>5, <4>1, <3>2 DEF Beside
    <3> QED BY <3>1, <3>2
  <2> HIDE DEF S
  <2> QED BY <2>1
<1>8. reach = Body(reach)
  <2> HIDE DEF Body
  <2> QED BY <1>7
<1>9. \A k \in 1 .. N : reach[k] = reach[k - 1] \cup Beside(reach[k - 1], ground)
  <2> SUFFICES ASSUME NEW k \in 1 .. N
               PROVE  reach[k] = reach[k - 1] \cup Beside(reach[k - 1], ground)
    OBVIOUS
  <2> HIDE DEF reach
  <2>1. k \in 0 .. N /\ k # 0
    BY <1>1
  <2>2. reach[k] = Body(reach)[k]
    BY <1>8
  <2> QED BY <2>1, <2>2 DEF Beside
<1>10. reach[0] = {Hall}
  <2> HIDE DEF reach
  <2>1. 0 \in 0 .. N
    BY <1>1
  <2>2. reach[0] = Body(reach)[0]
    BY <1>8
  <2> QED BY <2>1, <2>2
<1> HIDE DEF reach
<1> QED BY <1>2, <1>9, <1>10 DEF Joins

\* It is the hall and ground that is open, and opening ground takes nothing away.
LEMMA JoinedGrows ==
  ASSUME NEW small \in SUBSET Cells, NEW large \in SUBSET Cells, small \subseteq large
  PROVE  Joined(small) \subseteq {Hall} \cup small /\ Joined(small) \subseteq Joined(large)
<1>1. PICK f : Joins(f, small) /\ Joined(small) = f[Cardinality(Nest)]
  BY JoinedSteps
<1>2. PICK g : Joins(g, large) /\ Joined(large) = g[Cardinality(Nest)]
  BY JoinedSteps
<1> DEFINE N == Cardinality(Nest)
           Bad == {k \in 0 .. N : ~(f[k] \subseteq {Hall} \cup small /\ f[k] \subseteq g[k])}
<1>3. ASSUME NEW k \in Bad PROVE \E j \in Bad : j < k
  <2>1. k # 0
    BY <1>1, <1>2 DEF Joins
  <2>2. k \in 1 .. N /\ k - 1 \in 0 .. N /\ k - 1 < k
    BY <2>1, NestCounted
  <2>3. f[k] = f[k - 1] \cup Beside(f[k - 1], small) /\ g[k] = g[k - 1] \cup Beside(g[k - 1], large)
    BY <1>1, <1>2, <2>2 DEF Joins
  <2>4. k - 1 \in Bad
    BY <2>2, <2>3 DEF Beside
  <2> QED BY <2>2, <2>4
<1>4. Bad = {}
  <2> HIDE DEF Bad
  <2>1. Bad \in SUBSET (0 .. N)
    BY DEF Bad
  <2> HIDE DEF N
  <2> QED BY <1>3, <2>1, NestCounted, NoneBadUpTo DEF N
<1>5. N \in 0 .. N
  BY NestCounted
<1> QED BY <1>1, <1>2, <1>4, <1>5

-----------------------------------------------------------------------------
(* Ground, rooms and heaps *)

\* Where the world's parts are: rooms in the nest, the turf on the ground, the dump beside both.
LEMMA Strip ==
  /\ LaterRooms \subseteq Cells /\ FoundingRooms \subseteq LaterRooms /\ IsFiniteSet(LaterRooms)
  /\ Turf \subseteq Cells /\ Hall \in Turf /\ Turf \subseteq Nat
  /\ Dump \notin Turf /\ Dump \notin Nest /\ Grains \in Nat
<1>1. IsFiniteSet(LaterRooms)
  BY SavedRunAssumption, FS_Subset, NestCounted
<1> QED BY <1>1, SavedRunAssumption DEF Turf

\* What an ant can carry is a count.
LEMMA CarryIs == Carry \in Nat
BY SavedRunAssumption

\* What the world's record says of the parts it is made of.
LEMMA Fields ==
  ASSUME NEW w \in WorldRecord
  PROVE  /\ w.open \in SUBSET Cells /\ w.revision \in Nat \ {0}
         /\ w.rooms \in {FoundingRooms, LaterRooms} /\ w.rooms \subseteq LaterRooms
         /\ w.passages = {} /\ w.zones \in SUBSET LaterRooms
         /\ w.zoned \in Nat \X {FoundingRooms, LaterRooms}
         /\ w.sources \in Seq(SourceRecord) /\ w.heaps \in HeapRecord /\ w.carried \in Nat
         /\ w.trails \in TrailRecord /\ w.mature \in BOOLEAN /\ w.eggs \in Nat
         /\ w.brood \in Broods /\ w.traits \in [vigor : 0 .. MaxTier, industry : 0 .. MaxTier]
         /\ w.worked \in Nat /\ w.ants \in [Workers -> AntRecord]
         /\ w.ants[Forager] \in AntRecord /\ w.ants[Digger] \in AntRecord
BY Strip DEF WorldRecord, Workers

\* The heaps of a world are numbers of grains on finitely many cells.
LEMMA HeapsAre ==
  ASSUME NEW h \in HeapRecord
  PROVE  /\ DOMAIN h \in SUBSET LaterRooms /\ IsFiniteSet(DOMAIN h)
         /\ h \in [DOMAIN h -> 0 .. Grains] /\ TotalOf(h) = SumOf(h, DOMAIN h)
         /\ TotalOf(h) \in Nat
<1>1. DOMAIN h \in SUBSET LaterRooms /\ h \in [DOMAIN h -> 0 .. Grains]
  BY DEF HeapRecord
<1>2. IsFiniteSet(DOMAIN h)
  BY <1>1, Strip, FS_Subset
<1>3. \A c \in DOMAIN h : h[c] \in Nat
  BY <1>1, Strip
<1>4. TotalOf(h) = SumOf(h, DOMAIN h)
  BY DEF TotalOf, SumOf
<1> QED BY <1>1, <1>2, <1>3, <1>4, SumNat

\* The store cells there would be now are on open ground (world.cpp:357-379).
LEMMA ZonesOpen ==
  ASSUME NEW air \in SUBSET Cells, Turf \subseteq air, NEW rooms
  PROVE  Joined(air \cap Nest) \cap rooms \subseteq air
<1>1. air \cap Nest \in SUBSET Cells
  OBVIOUS
<1>2. Joined(air \cap Nest) \subseteq {Hall} \cup (air \cap Nest)
  BY <1>1, JoinedGrows
<1> QED BY <1>2, Strip

\* Heaps that are laid out afresh are heaps, and no more than the cells hold (world.cpp:475-487).
LEMMA StockFits ==
  ASSUME NEW zones \in SUBSET LaterRooms, NEW amount \in Nat
  PROVE  /\ StockedHeaps(zones, amount) \in HeapRecord
         /\ DOMAIN StockedHeaps(zones, amount) = zones
         /\ TotalOf(StockedHeaps(zones, amount)) <= Cardinality(zones) * Grains
<1> DEFINE before(c) == {d \in zones : \/ Apart(d, Hall) < Apart(c, Hall)
                                       \/ Apart(d, Hall) = Apart(c, Hall) /\ d < c}
           left(c) == amount - Grains * Cardinality(before(c))
           h == StockedHeaps(zones, amount)
<1>1. IsFiniteSet(zones)
  BY Strip, FS_Subset
<1>2. ASSUME NEW c \in zones PROVE h[c] \in 0 .. Grains
  <2>1. IsFiniteSet(before(c))
    BY <1>1, FS_Subset
  <2>2. Cardinality(before(c)) \in Nat
    BY <2>1, FS_CardinalityType
  <2>3. left(c) \in Int
    BY <2>2, Strip
  <2>4. h[c] = Min({Grains, Max({0, left(c)})})
    BY DEF StockedHeaps
  <2> HIDE DEF left, h
  <2>5. Max({0, left(c)}) \in Nat
    BY <2>3, MaxOfTwo
  <2>6. Grains \in Nat
    BY Strip
  <2>7. Min({Grains, Max({0, left(c)})}) \in 0 .. Grains
    BY <2>5, <2>6, MinOfTwo
  <2> QED BY <2>4, <2>7
<1>3. DOMAIN h = zones /\ h = [c \in zones |-> h[c]]
  BY DEF StockedHeaps
<1> HIDE DEF h
<1>4. h \in [zones -> 0 .. Grains]
  BY <1>2, <1>3
<1>5. h \in HeapRecord
  BY <1>4 DEF HeapRecord
<1>6. SumOf(h, zones) <= Cardinality(zones) * Grains
  <2>1. Grains \in Int /\ \A c \in zones : h[c] \in Int /\ h[c] <= Grains
    BY <1>4, Strip
  <2> QED BY ONLY <1>1, <2>1, SumAtMost
<1> QED BY <1>3, <1>5, <1>6, HeapsAre DEF h

-----------------------------------------------------------------------------
(* Changes of the world's record *)

\* What a change of an ant changes.
LEMMA AntChanged ==
  ASSUME NEW w \in WorldRecord, NEW a \in Workers, NEW change,
         Having(w.ants[a], change) \in AntRecord
  PROVE  /\ Ant(w, a, change) \in WorldRecord
         /\ Ant(w, a, change).ants[a] = Having(w.ants[a], change)
         /\ \A b \in Workers \ {a} : Ant(w, a, change).ants[b] = w.ants[b]
         /\ \A n \in DOMAIN w \ {"ants"} : Ant(w, a, change)[n] = w[n]
<1> DEFINE ant == Having(w.ants[a], change)
           ants == [w.ants EXCEPT ![a] = ant]
<1>1. Ant(w, a, change) = [w EXCEPT !.ants = ants]
  BY DEF Ant
<1> HIDE DEF ant
<1>2. ants \in [Workers -> AntRecord]
  BY DEF WorldRecord, ant
<1>3. ants[a] = ant /\ \A b \in Workers \ {a} : ants[b] = w.ants[b]
  BY Fields
<1> HIDE DEF ants
<1>4. Ant(w, a, change) \in WorldRecord /\ Ant(w, a, change).ants = ants
  BY <1>1, <1>2 DEF WorldRecord
<1>5. \A n \in DOMAIN w \ {"ants"} : Ant(w, a, change)[n] = w[n]
  BY <1>1
<1> QED BY <1>3, <1>4, <1>5 DEF ant

\* The parts of a world, and a world is its parts.
LEMMA WorldDomain ==
  ASSUME NEW w \in WorldRecord
  PROVE  /\ DOMAIN w = {"open", "revision", "rooms", "passages", "zones", "zoned", "sources",
                        "heaps", "carried", "trails", "mature", "eggs", "brood", "traits",
                        "worked", "ants"}
         /\ w = [n \in DOMAIN w |-> w[n]]
BY DEF WorldRecord

\* v is w but for the parts named.
Frame(w, v, names) == \A n \in DOMAIN w \ names : v[n] = w[n]

\* What holds of parts that stay holds on.
LEMMA LandKept ==
  ASSUME NEW w \in WorldRecord, LandHolds(w), NEW v \in WorldRecord,
         Frame(w, v, {"sources", "carried", "worked", "ants", "trails"})
  PROVE  LandHolds(v)
<1>1. /\ v.open = w.open /\ v.revision = w.revision /\ v.rooms = w.rooms /\ v.zones = w.zones
      /\ v.zoned = w.zoned /\ v.heaps = w.heaps
  BY WorldDomain DEF Frame
<1> QED BY <1>1 DEF LandHolds, GroundHolds, ZonesHold, ZonesCurrent, Zones, Stored, Capacity

\* The same for the crew: neither ground nor stores nor trails are about it.
LEMMA CrewKept ==
  ASSUME NEW w \in WorldRecord, CrewHolds(w), NEW v \in WorldRecord,
         Frame(w, v, {"open", "revision", "rooms", "zones", "zoned", "heaps", "trails", "worked"})
  PROVE  CrewHolds(v)
<1>1. v.sources = w.sources /\ v.ants = w.ants /\ v.carried = w.carried
  BY WorldDomain DEF Frame
<1> QED BY <1>1 DEF CrewHolds, ForagerHolds

\* The same for the brood and the trails.
LEMMA LifeKept ==
  ASSUME NEW w \in WorldRecord, LifeHolds(w), NEW v \in WorldRecord,
         Frame(w, v, {"open", "revision", "rooms", "zones", "zoned", "heaps", "worked",
                      "sources", "carried", "ants"})
  PROVE  LifeHolds(v)
<1>1. v.mature = w.mature /\ v.eggs = w.eggs /\ v.trails = w.trails
  BY WorldDomain DEF Frame
<1> QED BY <1>1 DEF LifeHolds

\* A turn is counted, and nothing else.
LEMMA WorkedKept ==
  ASSUME NEW w, WorldInv(w)
  PROVE  /\ WorldInv(Worked(w)) /\ Frame(w, Worked(w), {"worked"})
         /\ Worked(w).ants = w.ants /\ Worked(w).sources = w.sources
         /\ Worked(w).revision = w.revision /\ Worked(w).open = w.open
<1>1. w \in WorldRecord /\ w.worked + 1 \in Nat
  BY Fields DEF WorldInv
<1>2. Worked(w) = [w EXCEPT !.worked = w.worked + 1]
  BY DEF Worked
<1>3. Worked(w) \in WorldRecord
  <2> DEFINE n == w.worked + 1
  <2>1. n \in Nat /\ Worked(w) = [w EXCEPT !.worked = n]
    BY <1>1, <1>2
  <2> HIDE DEF n
  <2> QED BY <1>1, <2>1 DEF WorldRecord
<1>4. Frame(w, Worked(w), {"worked"})
  BY <1>1, <1>2, WorldDomain DEF Frame
<1>5. /\ Frame(w, Worked(w), {"sources", "carried", "worked", "ants", "trails"})
      /\ Frame(w, Worked(w), {"open", "revision", "rooms", "zones", "zoned", "heaps", "trails",
                              "worked"})
      /\ Frame(w, Worked(w), {"open", "revision", "rooms", "zones", "zoned", "heaps", "worked",
                              "sources", "carried", "ants"})
  BY <1>4 DEF Frame
<1>6. WorldInv(Worked(w))
  BY <1>1, <1>3, <1>5, LandKept, CrewKept, LifeKept DEF WorldInv
<1> QED BY <1>1, <1>4, <1>6, WorldDomain DEF Frame

-----------------------------------------------------------------------------
(* The forager *)

\* Every way over the turf stays on it.
LEMMA WayFits ==
  ASSUME NEW c \in Turf, NEW d \in Turf
  PROVE  Way(c, d) \in Seq(Turf)
<1>1. c \in Nat /\ d \in Nat /\ Hall \in Nat /\ Dump \in Nat /\ Turf = Hall .. Dump - 1
  BY Strip, SavedRunAssumption DEF Turf
<1>2. CASE c < d
  <2> DEFINE n == d - c
  <2>1. n \in Nat /\ Way(c, d) = [k \in 1 .. n |-> c + k]
    BY <1>1, <1>2 DEF Way
  <2>2. \A k \in 1 .. n : c + k \in Turf
    BY <1>1, <1>2
  <2> HIDE DEF n
  <2>3. Way(c, d) \in [1 .. n -> Turf]
    BY <2>1, <2>2
  <2> QED BY <2>1, <2>3, SeqDef
<1>3. CASE ~(c < d)
  <2> DEFINE n == c - d
  <2>1. n \in Nat /\ Way(c, d) = [k \in 1 .. n |-> c - k]
    BY <1>1, <1>3 DEF Way
  <2>2. \A k \in 1 .. n : c - k \in Turf
    BY <1>1, <1>3
  <2> HIDE DEF n
  <2>3. Way(c, d) \in [1 .. n -> Turf]
    BY <2>1, <2>2
  <2> QED BY <2>1, <2>3, SeqDef
<1> QED BY <1>2, <1>3

\* A site is found at its place (world.cpp:304-310).
LEMMA Found ==
  ASSUME NEW sources, NEW n \in Nat, DOMAIN sources = 1 .. n, IdsDiffer(sources), NEW id
  PROVE  /\ \A i \in 1 .. n : sources[i].id = id => IndexOf(sources, id) = i - 1
         /\ (\A i \in 1 .. n : sources[i].id # id) => IndexOf(sources, id) = -1
<1> DEFINE found == {i \in DOMAIN sources : sources[i].id = id}
<1>1. IndexOf(sources, id) = IF found = {} THEN -1 ELSE Max(found) - 1
  BY DEF IndexOf
<1>2. ASSUME NEW i \in 1 .. n, sources[i].id = id PROVE IndexOf(sources, id) = i - 1
  <2>1. found = {i}
    BY <1>2 DEF IdsDiffer
  <2>2. Max({i}) = i
    <3>1. i \in Int /\ IsFiniteSet({i})
      <4>1. IsFiniteSet({i})
        BY ONLY FS_Singleton
      <4> QED BY <4>1
    <3>2. {i} \in SUBSET Int /\ {i} # {}
      BY <3>1
    <3>3. Max({i}) \in {i}
      BY ONLY <3>1, <3>2, MaxFacts
    <3> QED BY <3>3
  <2> HIDE DEF found
  <2> QED BY <1>1, <2>1, <2>2
<1>3. ASSUME \A i \in 1 .. n : sources[i].id # id PROVE IndexOf(sources, id) = -1
  <2>1. found = {}
    BY <1>3
  <2> QED BY <1>1, <2>1
<1> QED BY <1>2, <1>3

\* The place a worker with a claim goes to.
LEMMA PlaceIs ==
  ASSUME NEW w, WorldInv(w), w.ants[Forager].reserved > 0
  PROVE  /\ PlaceOf(w, Forager) \in DOMAIN w.sources
         /\ w.sources[PlaceOf(w, Forager)].id = w.ants[Forager].source
<1>1. w.sources \in Seq(SourceRecord) /\ IdsDiffer(w.sources)
  BY Fields DEF WorldInv, CrewHolds
<1>2. DOMAIN w.sources = 1 .. Len(w.sources) /\ Len(w.sources) \in Nat
  BY <1>1
<1>3. PICK i \in DOMAIN w.sources : w.sources[i].id = w.ants[Forager].source
  BY DEF WorldInv, CrewHolds, ClaimsHold
<1>4. IndexOf(w.sources, w.ants[Forager].source) = i - 1
  BY <1>1, <1>2, <1>3, Found
<1> QED BY <1>2, <1>3, <1>4 DEF PlaceOf

\* What an ant is that has changed a little.
LEMMA AntFields ==
  ASSUME NEW a \in AntRecord
  PROVE  /\ a.at \in Turf /\ a.cargo \in {"None", "Food", "Spoil"} /\ a.amount \in Nat
         /\ a.state \in {"AtHome", "ToSource", "Returning", "Storing"} /\ a.source \in Nat
         /\ a.reserved \in Nat /\ a.path \in Seq(Turf) /\ a.revision \in Nat
         /\ DOMAIN a = {"at", "cargo", "amount", "state", "source", "reserved", "path", "revision"}
         /\ a = [n \in DOMAIN a |-> a[n]]
BY DEF AntRecord

\* A new route moves nobody and keeps what is carried and claimed.
LEMMA RoutedKeeps ==
  ASSUME NEW w, WorldInv(w), NEW d \in Turf
  PROVE  /\ WorldInv(Routed(w, Forager, d)) /\ Frame(w, Routed(w, Forager, d), {"ants"})
         /\ Frame(w.ants[Forager], Routed(w, Forager, d).ants[Forager], {"path", "revision"})
         /\ Fresh(Routed(w, Forager, d), Forager)
<1> DEFINE ant == w.ants[Forager]
           change == [path |-> Way(ant.at, d), revision |-> w.revision]
           v == Routed(w, Forager, d)
<1>1. w \in WorldRecord /\ Forager \in Workers /\ Digger \in Workers \ {Forager}
  BY DEF WorldInv, Workers, Forager, Digger
<1>2. ant \in AntRecord /\ w.revision \in Nat
  BY <1>1, Fields
<1>3. Way(ant.at, d) \in Seq(Turf)
  BY <1>2, AntFields, WayFits
<1>4. Having(ant, change) \in AntRecord
  BY <1>2, <1>3 DEF AntRecord, Having
<1>5. /\ v \in WorldRecord /\ v.ants[Forager] = Having(ant, change)
      /\ v.ants[Digger] = w.ants[Digger] /\ Frame(w, v, {"ants"})
  BY <1>1, <1>4, AntChanged DEF Routed, Frame
<1>6. /\ Frame(ant, v.ants[Forager], {"path", "revision"})
      /\ v.ants[Forager].revision = w.revision
  BY <1>2, <1>5, AntFields DEF Frame, Having
<1> HIDE DEF v, change
<1>7. v.sources = w.sources /\ v.carried = w.carried /\ v.revision = w.revision
  BY <1>1, <1>5, WorldDomain DEF Frame
<1>8. /\ v.ants[Forager].state = ant.state /\ v.ants[Forager].reserved = ant.reserved
      /\ v.ants[Forager].source = ant.source /\ v.ants[Forager].cargo = ant.cargo
      /\ v.ants[Forager].amount = ant.amount
  BY <1>2, <1>6, AntFields DEF Frame
<1>9. CrewHolds(v)
  BY <1>5, <1>7, <1>8 DEF WorldInv, CrewHolds, ClaimsHold, Due, ForagerHolds
<1>10. LandHolds(v) /\ LifeHolds(v)
  BY <1>1, <1>5, LandKept, LifeKept DEF WorldInv, Frame
<1> QED BY <1>5, <1>6, <1>7, <1>9, <1>10 DEF WorldInv, Fresh, v

\* What a site is.
LEMMA SiteFields ==
  ASSUME NEW s \in SourceRecord
  PROVE  /\ s.id \in Nat \ {0} /\ s.at \in Turf /\ s.amount \in Nat /\ s.reserved \in Nat
         /\ s.known \in BOOLEAN
BY DEF SourceRecord

\* The sites of a world are numbered from one.
LEMMA SitesAre ==
  ASSUME NEW s \in Seq(SourceRecord)
  PROVE  /\ Len(s) \in Nat /\ DOMAIN s = 1 .. Len(s) /\ \A i \in DOMAIN s : s[i] \in SourceRecord
         /\ s \in [1 .. Len(s) -> SourceRecord]
BY LenProperties, ElementOfSeq

\* A claim changes what is reserved at one site.
LEMMA Claimed ==
  ASSUME NEW w \in WorldRecord, NEW i \in DOMAIN w.sources, NEW n \in Int,
         w.sources[i].reserved + n \in Nat
  PROVE  /\ Claim(w, i, n) \in WorldRecord /\ Frame(w, Claim(w, i, n), {"sources"})
         /\ DOMAIN Claim(w, i, n).sources = DOMAIN w.sources
         /\ \A j \in DOMAIN w.sources :
              LET new == Claim(w, i, n).sources[j]
              IN  /\ new.id = w.sources[j].id /\ new.at = w.sources[j].at
                  /\ new.amount = w.sources[j].amount /\ new.known = w.sources[j].known
                  /\ new.reserved = w.sources[j].reserved + (IF j = i THEN n ELSE 0)
<1> DEFINE more == w.sources[i].reserved + n
           site == [w.sources[i] EXCEPT !.reserved = more]
           sources == [w.sources EXCEPT ![i] = site]
<1>1. w.sources \in Seq(SourceRecord)
  BY Fields
<1>2. DOMAIN w.sources = 1 .. Len(w.sources) /\ w.sources[i] \in SourceRecord
  BY <1>1, SitesAre
<1>3. Claim(w, i, n) = [w EXCEPT !.sources = sources]
  BY DEF Claim
<1>4. more \in Nat
  OBVIOUS
<1>5. site \in SourceRecord
  <2> HIDE DEF more
  <2> QED BY <1>2, <1>4 DEF SourceRecord
<1>6. /\ site.id = w.sources[i].id /\ site.at = w.sources[i].at /\ site.reserved = more
      /\ site.amount = w.sources[i].amount /\ site.known = w.sources[i].known
  BY <1>2 DEF SourceRecord
<1> HIDE DEF site
<1>7. /\ sources \in Seq(SourceRecord) /\ Len(sources) = Len(w.sources)
      /\ \A j \in 1 .. Len(w.sources) : sources[j] = IF j = i THEN site ELSE w.sources[j]
  BY <1>1, <1>2, <1>5, ExceptSeq
<1>8. DOMAIN sources = DOMAIN w.sources
  OBVIOUS
<1> HIDE DEF sources
<1>9. /\ Claim(w, i, n) \in WorldRecord /\ Frame(w, Claim(w, i, n), {"sources"})
      /\ Claim(w, i, n).sources = sources
  BY <1>3, <1>7 DEF WorldRecord, Frame
<1>10. \A j \in DOMAIN w.sources : w.sources[j].reserved \in Nat
  BY <1>1, SitesAre, SiteFields
<1> QED BY <1>2, <1>6, <1>7, <1>8, <1>9, <1>10

\* A forager who drops her claim leaves it to the others (world.cpp:871-879).
LEMMA ReleasedHolds ==
  ASSUME NEW w, WorldInv(w), w.ants[Forager].state = "ToSource"
  PROVE  WorldInv(Released(w)) /\ Released(w).worked = w.worked
<1> DEFINE ant == w.ants[Forager]
           i == PlaceOf(w, Forager)
           c == Claim(w, i, -ant.reserved)
           change == [path |-> <<>>, source |-> 0, reserved |-> 0, state |-> "AtHome"]
           v == Released(w)
           sources == c.sources
<1>1. w \in WorldRecord /\ Forager \in Workers /\ Digger \in Workers \ {Forager}
  BY DEF WorldInv, Workers, Forager, Digger
<1>2. ant \in AntRecord /\ ant.reserved > 0 /\ w.sources \in Seq(SourceRecord)
  BY <1>1, Fields DEF WorldInv, CrewHolds, ForagerHolds
<1>3. i \in DOMAIN w.sources /\ w.sources[i].id = ant.source /\ i # 0
  BY <1>2, PlaceIs
<1> HIDE DEF i
<1>4. w.sources[i].reserved = ant.reserved
  BY <1>3 DEF WorldInv, CrewHolds, ClaimsHold, Due
<1>5. -ant.reserved \in Int /\ w.sources[i].reserved + (-ant.reserved) = 0
  BY <1>2, <1>4, AntFields
<1>6. /\ c \in WorldRecord /\ Frame(w, c, {"sources"}) /\ DOMAIN sources = DOMAIN w.sources
      /\ \A j \in DOMAIN w.sources :
           /\ sources[j].id = w.sources[j].id /\ sources[j].amount = w.sources[j].amount
           /\ sources[j].reserved = w.sources[j].reserved + (IF j = i THEN -ant.reserved ELSE 0)
  BY <1>1, <1>3, <1>5, Claimed
<1>7. \A j \in DOMAIN w.sources : w.sources[j] \in SourceRecord /\ w.sources[j].reserved \in Nat
  BY <1>2, SitesAre, SiteFields
<1>8. \A j \in DOMAIN sources : /\ sources[j].id = w.sources[j].id
                               /\ sources[j].amount = w.sources[j].amount
                               /\ sources[j].reserved = IF j = i THEN 0 ELSE w.sources[j].reserved
  <2> SUFFICES ASSUME NEW j \in DOMAIN w.sources
               PROVE  /\ sources[j].id = w.sources[j].id /\ sources[j].amount = w.sources[j].amount
                      /\ sources[j].reserved = IF j = i THEN 0 ELSE w.sources[j].reserved
    BY <1>6
  <2>1. CASE j = i
    BY <1>5, <1>6, <2>1
  <2>2. CASE j # i
    <3>1. /\ sources[j].id = w.sources[j].id /\ sources[j].amount = w.sources[j].amount
          /\ sources[j].reserved = w.sources[j].reserved + 0
      BY <1>6, <2>2
    <3>2. w.sources[j].reserved \in Nat
      BY <1>7
    <3>3. sources[j].reserved = w.sources[j].reserved
      BY <3>1, <3>2
    <3> QED BY <2>2, <3>1, <3>3
  <2> QED BY <2>1, <2>2
<1>9. c \in WorldRecord /\ c.sources = sources /\ Frame(w, c, {"sources"})
  BY <1>6
<1>10. c.ants = w.ants /\ v = Ant(c, Forager, change)
  BY <1>1, <1>3, <1>9, WorldDomain DEF Frame, Released, i
<1> HIDE DEF c
<1>11. Having(ant, change) \in AntRecord
  <2>1. <<>> \in Seq(Turf)
    OBVIOUS
  <2> QED BY <1>2, <2>1 DEF AntRecord, Having
<1>12. /\ v \in WorldRecord /\ v.ants[Forager] = Having(ant, change)
       /\ v.ants[Digger] = w.ants[Digger] /\ Frame(c, v, {"ants"})
  BY <1>1, <1>9, <1>10, <1>11, AntChanged DEF Frame
<1>13. /\ v.ants[Forager].state = "AtHome" /\ v.ants[Forager].reserved = 0
       /\ v.ants[Forager].source = 0 /\ v.ants[Forager].cargo = ant.cargo
       /\ v.ants[Forager].amount = ant.amount
  BY <1>2, <1>12, AntFields DEF Having
<1> HIDE DEF v
<1>14. Frame(w, v, {"sources", "ants"}) /\ v.sources = sources
  BY <1>1, <1>9, <1>12, WorldDomain DEF Frame
<1>15. v.carried = w.carried /\ v.worked = w.worked
  BY <1>1, <1>14, WorldDomain DEF Frame
<1>16. IdsDiffer(v.sources)
  BY <1>6, <1>8, <1>14 DEF IdsDiffer, WorldInv, CrewHolds
<1>17. ClaimsHold(v.sources, v.ants[Forager])
  <2> SUFFICES ASSUME NEW j \in DOMAIN sources
               PROVE  /\ sources[j].reserved = Due(v.ants[Forager], sources[j].id)
                      /\ sources[j].reserved <= sources[j].amount
    BY <1>13, <1>14 DEF ClaimsHold
  <2>1. w.sources[j] \in SourceRecord /\ j \in DOMAIN w.sources
    BY <1>6, <1>7
  <2>2. Due(v.ants[Forager], sources[j].id) = 0
    BY <1>13 DEF Due
  <2>3. sources[j].reserved = 0
    <3>1. CASE j = i
      BY <1>8, <3>1
    <3>2. CASE j # i
      <4>1. w.sources[j].id # ant.source
        BY <1>3, <2>1, <3>2 DEF WorldInv, CrewHolds, IdsDiffer
      <4>2. w.sources[j].reserved = 0
        BY <2>1, <4>1 DEF WorldInv, CrewHolds, ClaimsHold, Due
      <4> QED BY <1>8, <3>2, <4>2
    <3> QED BY <3>1, <3>2
  <2> QED BY <1>8, <2>1, <2>2, <2>3 DEF SourceRecord
<1>18. CrewHolds(v)
  BY <1>12, <1>13, <1>15, <1>16, <1>17 DEF WorldInv, CrewHolds, ForagerHolds
<1>19. LandHolds(v) /\ LifeHolds(v)
  <2>1. /\ Frame(w, v, {"sources", "carried", "worked", "ants", "trails"})
        /\ Frame(w, v, {"open", "revision", "rooms", "zones", "zoned", "heaps", "worked",
                        "sources", "carried", "ants"})
    BY <1>14 DEF Frame
  <2> QED BY <1>1, <1>12, <2>1, LandKept, LifeKept DEF WorldInv
<1> QED BY <1>12, <1>15, <1>18, <1>19 DEF WorldInv, v

\* The forager's own part of the invariant after a change of her record and of the sites.
LEMMA ClaimsShift ==
  ASSUME NEW s \in Seq(SourceRecord), NEW t \in Seq(SourceRecord), DOMAIN s = DOMAIN t,
         IdsDiffer(s), NEW a \in AntRecord, NEW b \in AntRecord, ClaimsHold(s, a),
         NEW i \in DOMAIN s, s[i].id = a.source \/ a.reserved = 0,
         s[i].id = b.source \/ b.reserved = 0,
         \A j \in DOMAIN s : t[j].id = s[j].id /\ (j # i => t[j] = s[j]),
         t[i].reserved = b.reserved, t[i].reserved <= t[i].amount
  PROVE  IdsDiffer(t) /\ ClaimsHold(t, b)
<1>1. IdsDiffer(t)
  BY DEF IdsDiffer
<1>2. ASSUME NEW j \in DOMAIN t
      PROVE  t[j].reserved = Due(b, t[j].id) /\ t[j].reserved <= t[j].amount
  <2>1. CASE j = i
    <3>1. b.reserved \in Nat /\ t[i].reserved \in Nat
      BY SitesAre, SiteFields, AntFields
    <3> QED BY <2>1, <3>1 DEF Due
  <2>2. CASE j # i
    <3>1. t[j] = s[j] /\ s[j].id # s[i].id /\ t[i].id = s[i].id
      BY <2>2 DEF IdsDiffer
    <3>2. s[j].reserved = Due(a, s[j].id) /\ s[j].reserved <= s[j].amount
      BY DEF ClaimsHold
    <3>3. s[j].reserved = 0
      BY <3>1, <3>2 DEF Due
    <3> QED BY <3>1, <3>2, <3>3 DEF Due
  <2> QED BY <2>1, <2>2
<1>3. b.reserved > 0 => \E j \in DOMAIN t : t[j].id = b.source
  <2>1. b.reserved \in Nat
    BY AntFields
  <2> QED BY <2>1
<1> QED BY <1>1, <1>2, <1>3 DEF ClaimsHold

\* What a site has to offer is no more than is there and nobody claims (world.cpp:744-788).
LEMMA ChosenHolds ==
  ASSUME NEW w, WorldInv(w), w.ants[Forager].state = "AtHome", NEW i \in Offers(w)
  PROVE  WorldInv(Chosen(w, i)) /\ Chosen(w, i).ants[Forager].state = "ToSource"
<1> DEFINE ant == w.ants[Forager]
           n == Offered(w, i)
           c == Claim(w, i, n)
           change == [source |-> w.sources[i].id, reserved |-> n, state |-> "ToSource"]
           u == Ant(c, Forager, change)
<1>1. w \in WorldRecord /\ Forager \in Workers /\ Digger \in Workers \ {Forager}
  BY DEF WorldInv, Workers, Forager, Digger
<1>2. /\ ant \in AntRecord /\ w.sources \in Seq(SourceRecord) /\ i \in DOMAIN w.sources /\ n > 0
      /\ w.sources[i] \in SourceRecord
  BY <1>1, Fields, SitesAre DEF Offers
<1>3. ant.reserved = 0
  <2>1. ~(ant.reserved > 0)
    BY DEF WorldInv, CrewHolds, ForagerHolds
  <2> QED BY <1>2, <2>1, AntFields
<1>4. /\ n \in Nat \ {0} /\ n <= w.sources[i].amount - w.sources[i].reserved
      /\ w.sources[i].reserved = 0
  <2>1. w.sources[i].reserved = 0
    BY <1>2, <1>3 DEF WorldInv, CrewHolds, ClaimsHold, Due
  <2> DEFINE x == w.sources[i].amount - w.sources[i].reserved
             y == Capacity(w) - Stored(w) - w.carried - w.sources[i].reserved
  <2>2. w.zones \in SUBSET LaterRooms /\ w.heaps \in HeapRecord /\ w.carried \in Nat
    BY <1>1, Fields
  <2>3. IsFiniteSet(w.zones)
    BY <2>2, Strip, FS_Subset
  <2>4. Cardinality(w.zones) \in Nat
    BY <2>3, FS_CardinalityType
  <2>5. Capacity(w) \in Int /\ Stored(w) \in Int
    BY <2>2, <2>4, Strip, HeapsAre DEF Capacity, Stored
  <2>6. x \in Int /\ y \in Int /\ Carry \in Int
    <3>1. w.sources[i].amount \in Int /\ w.sources[i].reserved \in Int
      BY <1>2, SiteFields
    <3>2. x \in Int
      BY <3>1
    <3>3. y \in Int
      BY <2>2, <2>5, <3>1
    <3> QED BY <3>2, <3>3, CarryIs
  <2>7. n = Min({Carry, x, y})
    BY DEF Offered
  <2> HIDE DEF x, y, n
  <2>8. n \in Int /\ n <= x
    BY <2>6, <2>7, MinOfThree
  <2> QED BY <1>2, <2>1, <2>8 DEF x
<1> HIDE DEF n
<1>5. n \in Int /\ w.sources[i].reserved + n = n /\ w.sources[i].reserved + n \in Nat
  BY <1>4
<1>6. /\ c \in WorldRecord /\ Frame(w, c, {"sources"}) /\ DOMAIN c.sources = DOMAIN w.sources
      /\ \A j \in DOMAIN w.sources :
           /\ c.sources[j].id = w.sources[j].id /\ c.sources[j].at = w.sources[j].at
           /\ c.sources[j].amount = w.sources[j].amount
           /\ c.sources[j].known = w.sources[j].known
           /\ c.sources[j].reserved = w.sources[j].reserved + (IF j = i THEN n ELSE 0)
  BY <1>1, <1>2, <1>5, Claimed
<1> HIDE DEF c
<1>7. c.sources \in Seq(SourceRecord) /\ c.ants = w.ants /\ c.carried = w.carried
  BY <1>1, <1>6, Fields, WorldDomain DEF Frame
<1>8. Having(ant, change) \in AntRecord
  <2>1. w.sources[i].id \in Nat /\ n \in Nat
    BY <1>2, <1>4, SiteFields
  <2> QED BY <1>2, <2>1 DEF AntRecord, Having
<1>9. /\ u \in WorldRecord /\ u.ants[Forager] = Having(ant, change)
      /\ u.ants[Digger] = w.ants[Digger] /\ Frame(c, u, {"ants"})
  BY <1>1, <1>6, <1>7, <1>8, AntChanged DEF Frame
<1>10. /\ u.ants[Forager].state = "ToSource" /\ u.ants[Forager].reserved = n
       /\ u.ants[Forager].source = w.sources[i].id /\ u.ants[Forager].cargo = ant.cargo
       /\ u.ants[Forager].amount = ant.amount
  <2> DEFINE id == w.sources[i].id
  <2>1. change = [source |-> id, reserved |-> n, state |-> "ToSource"] /\ ant \in AntRecord
    BY <1>2
  <2> HIDE DEF id, change, ant
  <2>2. /\ Having(ant, change).state = "ToSource" /\ Having(ant, change).reserved = n
        /\ Having(ant, change).source = id /\ Having(ant, change).cargo = ant.cargo
        /\ Having(ant, change).amount = ant.amount
    BY ONLY <2>1, AntFields DEF Having
  <2> QED BY <1>9, <2>2 DEF id
<1> HIDE DEF u
<1>11. u.sources = c.sources /\ u.carried = w.carried /\ Frame(w, u, {"sources", "ants"})
  BY <1>1, <1>6, <1>7, <1>9, WorldDomain DEF Frame
<1>12. IdsDiffer(u.sources) /\ ClaimsHold(u.sources, u.ants[Forager])
  <2>1. \A j \in DOMAIN w.sources : j # i => c.sources[j] = w.sources[j]
    <3> SUFFICES ASSUME NEW j \in DOMAIN w.sources, j # i PROVE c.sources[j] = w.sources[j]
      OBVIOUS
    <3>1. c.sources[j] \in SourceRecord /\ w.sources[j] \in SourceRecord
      BY <1>2, <1>6, <1>7, SitesAre
    <3>2. c.sources[j].reserved = w.sources[j].reserved
      BY <1>6, <3>1, SiteFields
    <3> QED BY <1>6, <3>1, <3>2 DEF SourceRecord
  <2>2. c.sources[i].reserved = n /\ n <= c.sources[i].amount
    BY <1>2, <1>4, <1>5, <1>6, SiteFields
  <2>3. u.ants[Forager] \in AntRecord
    BY <1>9, <1>8
  <2>4. IdsDiffer(w.sources) /\ ClaimsHold(w.sources, ant)
    BY DEF WorldInv, CrewHolds
  <2> DEFINE b == u.ants[Forager]
             t == u.sources
  <2>5. /\ b.source = w.sources[i].id /\ t[i].reserved = b.reserved /\ t[i].reserved <= t[i].amount
        /\ t \in Seq(SourceRecord) /\ DOMAIN w.sources = DOMAIN t /\ b \in AntRecord
        /\ \A j \in DOMAIN w.sources : t[j].id = w.sources[j].id /\ (j # i => t[j] = w.sources[j])
    BY <1>6, <1>7, <1>10, <1>11, <2>1, <2>2, <2>3
  <2> HIDE DEF ant, b, t
  <2>6. IdsDiffer(t) /\ ClaimsHold(t, b)
    BY <1>2, <1>3, <2>4, <2>5, ClaimsShift
  <2> QED BY <2>6 DEF b, t
<1>13. CrewHolds(u)
  BY <1>4, <1>9, <1>10, <1>11, <1>12 DEF WorldInv, CrewHolds, ForagerHolds
<1>14. LandHolds(u) /\ LifeHolds(u)
  <2>1. /\ Frame(w, u, {"sources", "carried", "worked", "ants", "trails"})
        /\ Frame(w, u, {"open", "revision", "rooms", "zones", "zoned", "heaps", "worked",
                        "sources", "carried", "ants"})
    BY <1>11 DEF Frame
  <2> QED BY <1>1, <1>9, <2>1, LandKept, LifeKept DEF WorldInv
<1>15. WorldInv(u) /\ w.sources[i].at \in Turf
  BY <1>2, <1>9, <1>13, <1>14, SiteFields DEF WorldInv
<1>16. /\ WorldInv(Routed(u, Forager, w.sources[i].at))
       /\ Frame(u.ants[Forager], Routed(u, Forager, w.sources[i].at).ants[Forager],
                {"path", "revision"})
  BY <1>15, RoutedKeeps
<1>17. Chosen(w, i) = Routed(u, Forager, w.sources[i].at)
  BY DEF Chosen, u, c, n
<1>18. u.ants[Forager] \in AntRecord
  BY <1>9, <1>8
<1> QED BY <1>10, <1>16, <1>17, <1>18, AntFields DEF Frame

\* What stays as it was while a forager walks.
Kindred(a, b) ==
  /\ b.state = a.state /\ b.source = a.source /\ b.reserved = a.reserved
  /\ b.cargo = a.cargo /\ b.amount = a.amount

\* A world whose forager only walked.
LEMMA StrollHolds ==
  ASSUME NEW w, WorldInv(w), NEW v \in WorldRecord, Frame(w, v, {"ants", "worked"}),
         v.ants[Digger] = w.ants[Digger], Kindred(w.ants[Forager], v.ants[Forager])
  PROVE  WorldInv(v)
<1>1. w \in WorldRecord
  BY DEF WorldInv
<1>2. v.sources = w.sources /\ v.carried = w.carried
  BY <1>1, WorldDomain DEF Frame
<1>3. CrewHolds(v)
  BY <1>2 DEF WorldInv, CrewHolds, ClaimsHold, Due, ForagerHolds, Kindred
<1>4. /\ Frame(w, v, {"sources", "carried", "worked", "ants", "trails"})
      /\ Frame(w, v, {"open", "revision", "rooms", "zones", "zoned", "heaps", "worked",
                      "sources", "carried", "ants"})
  BY DEF Frame
<1> QED BY <1>1, <1>3, <1>4, LandKept, LifeKept DEF WorldInv

\* A step is taken along the route (world.cpp:844-851).
LEMMA SteppedHolds ==
  ASSUME NEW w, WorldInv(w)
  PROVE  /\ WorldInv(Stepped(w)) /\ Frame(w, Stepped(w), {"ants", "worked"})
         /\ Kindred(w.ants[Forager], Stepped(w).ants[Forager])
<1> DEFINE ant == w.ants[Forager]
           change == [at |-> ant.path[1], path |-> Tail(ant.path)]
           u == Ant(w, Forager, change)
<1>1. w \in WorldRecord /\ Forager \in Workers /\ Digger \in Workers \ {Forager}
  BY DEF WorldInv, Workers, Forager, Digger
<1>2. ant \in AntRecord
  BY <1>1, Fields
<1>3. CASE ant.path = <<>>
  BY <1>3 DEF Stepped, Frame, Kindred
<1>4. CASE ant.path # <<>>
  <2>1. ant.path \in Seq(Turf)
    BY <1>2, AntFields
  <2>2. Tail(ant.path) \in Seq(Turf) /\ ant.path[1] \in Turf
    <3>1. Len(ant.path) \in Nat \ {0}
      BY <1>4, <2>1, EmptySeq
    <3>2. 1 \in 1 .. Len(ant.path)
      BY <3>1
    <3> QED BY ONLY <1>4, <2>1, <3>2, HeadTailProperties, ElementOfSeq
  <2> DEFINE first == ant.path[1]
             rest == Tail(ant.path)
  <2> HIDE DEF first, rest
  <2>3. change = [at |-> first, path |-> rest] /\ first \in Turf /\ rest \in Seq(Turf)
    BY <2>2 DEF first, rest
  <2> HIDE DEF change, ant
  <2>4. Having(ant, change) \in AntRecord /\ Kindred(ant, Having(ant, change))
    BY <1>2, <2>3 DEF AntRecord, Having, Kindred
  <2>5. /\ u \in WorldRecord /\ u.ants[Forager] = Having(ant, change)
        /\ u.ants[Digger] = w.ants[Digger] /\ Frame(w, u, {"ants"})
    BY <1>1, <2>4, AntChanged DEF Frame, ant
  <2> HIDE DEF u
  <2>6. Frame(w, u, {"ants", "worked"})
    BY <2>5 DEF Frame
  <2>7. WorldInv(u)
    BY <2>4, <2>5, <2>6, StrollHolds DEF ant
  <2>8. WorldInv(Worked(u)) /\ Frame(u, Worked(u), {"worked"}) /\ Worked(u).ants = u.ants
    BY <2>7, WorkedKept
  <2>9. Frame(w, Worked(u), {"ants", "worked"})
    <3>1. DOMAIN u = DOMAIN w
      BY <1>1, <2>5, WorldDomain
    <3> QED BY <2>6, <2>8, <3>1 DEF Frame
  <2>10. Stepped(w) = Worked(u)
    BY <1>4 DEF Stepped, u, change, ant
  <2> QED BY <2>4, <2>5, <2>8, <2>9, <2>10 DEF ant
<1> QED BY <1>3, <1>4

\* A walk goes on by a route that is as new as the ground (world.cpp:808-815, 844-851).
LEMMA WalkedHolds ==
  ASSUME NEW w, WorldInv(w), w.ants[Forager].state \in {"ToSource", "Returning"}
  PROVE  /\ WorldInv(Walked(w)) /\ Frame(w, Walked(w), {"ants", "worked"})
         /\ Kindred(w.ants[Forager], Walked(w).ants[Forager])
<1> DEFINE u == IF Fresh(w, Forager) THEN w ELSE Routed(w, Forager, Goal(w))
<1>1. w \in WorldRecord
  BY DEF WorldInv
<1>2. Goal(w) \in Turf
  <2>1. CASE w.ants[Forager].state = "ToSource"
    <3>1. w.ants[Forager].reserved > 0
      BY <2>1 DEF WorldInv, CrewHolds, ForagerHolds
    <3>2. PlaceOf(w, Forager) \in DOMAIN w.sources /\ w.sources \in Seq(SourceRecord)
      BY <1>1, <3>1, PlaceIs, Fields
    <3> QED BY <2>1, <3>2, SitesAre, SiteFields DEF Goal
  <2>2. CASE w.ants[Forager].state # "ToSource"
    BY <2>2, Strip DEF Goal
  <2> QED BY <2>1, <2>2
<1>3. /\ WorldInv(u) /\ Frame(w, u, {"ants"}) /\ Kindred(w.ants[Forager], u.ants[Forager])
  <2>1. CASE Fresh(w, Forager)
    BY <2>1 DEF Frame, Kindred
  <2>2. CASE ~Fresh(w, Forager)
    <3> DEFINE v == Routed(w, Forager, Goal(w))
    <3>1. /\ WorldInv(v) /\ Frame(w, v, {"ants"})
          /\ Frame(w.ants[Forager], v.ants[Forager], {"path", "revision"})
      BY <1>2, RoutedKeeps
    <3>2. w.ants[Forager] \in AntRecord
      BY <1>1, Fields
    <3>3. Kindred(w.ants[Forager], v.ants[Forager])
      BY <3>1, <3>2, AntFields DEF Frame, Kindred
    <3> QED BY <2>2, <3>1, <3>3
  <2> QED BY <2>1, <2>2
<1> HIDE DEF u
<1>4. /\ WorldInv(Stepped(u)) /\ Frame(u, Stepped(u), {"ants", "worked"})
      /\ Kindred(u.ants[Forager], Stepped(u).ants[Forager])
  BY <1>3, SteppedHolds
<1>5. Walked(w) = Stepped(u) /\ DOMAIN u = DOMAIN w
  BY <1>1, <1>3, WorldDomain DEF Walked, u, WorldInv
<1>6. Frame(w, Stepped(u), {"ants", "worked"}) /\ Kindred(w.ants[Forager], Stepped(u).ants[Forager])
  BY <1>3, <1>4, <1>5 DEF Frame, Kindred
<1> QED BY <1>4, <1>5, <1>6

\* At the site the claim becomes a load (world.cpp:859-862).
LEMMA ArrivedHolds ==
  ASSUME NEW w, WorldInv(w), w.ants[Forager].state = "ToSource"
  PROVE  WorldInv(Arrived(w))
<1> DEFINE ant == w.ants[Forager]
           i == PlaceOf(w, Forager)
           n == Min({w.sources[i].amount, ant.reserved})
           c == Loaded(w, i, n)
           change == [cargo |-> "Food", amount |-> n, reserved |-> 0, state |-> "Returning"]
           u == Ant(c, Forager, change)
<1>1. w \in WorldRecord /\ Forager \in Workers /\ Digger \in Workers \ {Forager}
  BY DEF WorldInv, Workers, Forager, Digger
<1>2. /\ ant \in AntRecord /\ ant.reserved > 0 /\ w.sources \in Seq(SourceRecord)
      /\ w.carried = 0
  BY <1>1, Fields DEF WorldInv, CrewHolds, ForagerHolds
<1>3. i \in DOMAIN w.sources /\ w.sources[i].id = ant.source /\ w.sources[i] \in SourceRecord
  BY <1>2, PlaceIs, SitesAre
<1> HIDE DEF i
<1>4. w.sources[i].reserved = ant.reserved /\ ant.reserved <= w.sources[i].amount
  BY <1>3 DEF WorldInv, CrewHolds, ClaimsHold, Due
<1>5. n = ant.reserved /\ n \in Nat
  <2>1. w.sources[i].amount \in Int /\ ant.reserved \in Nat
    BY <1>2, <1>3, SiteFields, AntFields
  <2> QED BY <1>4, <2>1, MinOfTwo
<1> HIDE DEF n
<1> DEFINE left == w.sources[i].amount - n
           site == [w.sources[i] EXCEPT !.amount = left, !.reserved = 0]
           sources == [w.sources EXCEPT ![i] = site]
<1>6. left \in Nat /\ w.sources[i].reserved - ant.reserved = 0 /\ w.carried + n = n
  BY <1>2, <1>3, <1>4, <1>5, SiteFields
<1>7. c = [w EXCEPT !.sources = sources, !.carried = n]
  <2>1. c = [w EXCEPT !.sources = [w.sources EXCEPT ![i] =
               [w.sources[i] EXCEPT !.amount = left,
                                    !.reserved = w.sources[i].reserved - ant.reserved]],
                      !.carried = w.carried + n]
    BY DEF Loaded
  <2> QED BY <1>6, <2>1
<1> HIDE DEF left
<1>8. site \in SourceRecord /\ site.id = w.sources[i].id /\ site.amount = left /\ site.reserved = 0
  BY <1>3, <1>6 DEF SourceRecord
<1> HIDE DEF site
<1>9. /\ sources \in Seq(SourceRecord) /\ DOMAIN sources = DOMAIN w.sources
      /\ sources[i] = site /\ \A j \in DOMAIN w.sources : j # i => sources[j] = w.sources[j]
  BY <1>2, <1>3, <1>8, ExceptSeq, SitesAre
<1> HIDE DEF sources
<1>10. /\ c \in WorldRecord /\ c.sources = sources /\ c.carried = n /\ c.ants = w.ants
       /\ Frame(w, c, {"sources", "carried"})
  BY ZenonT(60), <1>1, <1>5, <1>7, <1>9 DEF WorldRecord, Frame
<1> HIDE DEF c, change, ant
<1>11. Having(ant, change) \in AntRecord
  BY <1>2, <1>5 DEF AntRecord, Having, change
<1>12. /\ Having(ant, change).state = "Returning" /\ Having(ant, change).reserved = 0
       /\ Having(ant, change).source = ant.source /\ Having(ant, change).cargo = "Food"
       /\ Having(ant, change).amount = n
  BY <1>2, AntFields DEF Having, change
<1>13. /\ u \in WorldRecord /\ u.ants[Forager] = Having(ant, change)
       /\ u.ants[Digger] = w.ants[Digger] /\ Frame(c, u, {"ants"})
  BY <1>1, <1>10, <1>11, AntChanged DEF Frame, ant
<1> HIDE DEF u
<1>14. u.sources = sources /\ u.carried = n /\ Frame(w, u, {"sources", "carried", "ants"})
  BY <1>1, <1>10, <1>13, WorldDomain DEF Frame
<1>15. IdsDiffer(sources) /\ ClaimsHold(sources, Having(ant, change))
  <2> DEFINE b == Having(ant, change)
  <2>1. IdsDiffer(w.sources) /\ ClaimsHold(w.sources, ant)
    BY DEF WorldInv, CrewHolds, ant
  <2>2. /\ b.source = ant.source /\ b.reserved = 0 /\ b \in AntRecord
        /\ \A j \in DOMAIN w.sources :
             sources[j].id = w.sources[j].id /\ (j # i => sources[j] = w.sources[j])
        /\ sources[i].reserved = b.reserved /\ sources[i].reserved <= sources[i].amount
    BY <1>6, <1>8, <1>9, <1>11, <1>12
  <2> HIDE DEF b
  <2> QED BY <1>2, <1>3, <1>9, <2>1, <2>2, ClaimsShift DEF b
<1>16. CrewHolds(u)
  BY <1>12, <1>13, <1>14, <1>15 DEF WorldInv, CrewHolds, ForagerHolds
<1>17. LandHolds(u) /\ LifeHolds(u)
  <2>1. /\ Frame(w, u, {"sources", "carried", "worked", "ants", "trails"})
        /\ Frame(w, u, {"open", "revision", "rooms", "zones", "zoned", "heaps", "worked",
                        "sources", "carried", "ants"})
    BY <1>14 DEF Frame
  <2> QED BY <1>1, <1>13, <2>1, LandKept, LifeKept DEF WorldInv
<1>18. WorldInv(u)
  BY <1>13, <1>16, <1>17 DEF WorldInv
<1>19. Arrived(w) = Routed(u, Forager, Hall)
  BY DEF Arrived, u, c, change, n, i, ant
<1> QED BY <1>18, <1>19, Strip, RoutedKeeps

\* A load that has come home is to be stored (world.cpp:863-867).
LEMMA HomeHolds ==
  ASSUME NEW w, WorldInv(w), w.ants[Forager].state = "Returning"
  PROVE  WorldInv(Ant(w, Forager, [path |-> <<>>, state |-> "Storing"]))
<1> DEFINE ant == w.ants[Forager]
           change == [path |-> <<>>, state |-> "Storing"]
           u == Ant(w, Forager, change)
<1>1. w \in WorldRecord /\ Forager \in Workers /\ Digger \in Workers \ {Forager}
  BY DEF WorldInv, Workers, Forager, Digger
<1>2. ant \in AntRecord /\ ant.state = "Returning"
  BY <1>1, Fields
<1>3. /\ ~(ant.reserved > 0) /\ ant.cargo = "Food" /\ w.carried = ant.amount
      /\ ClaimsHold(w.sources, ant) /\ IdsDiffer(w.sources) /\ DiggerHolds(w.ants[Digger])
  BY DEF WorldInv, CrewHolds, ForagerHolds
<1> HIDE DEF ant
<1>4. Having(ant, change) \in AntRecord
  <2>1. <<>> \in Seq(Turf)
    OBVIOUS
  <2> QED BY <1>2, <2>1 DEF AntRecord, Having
<1>5. /\ Having(ant, change).state = "Storing" /\ Having(ant, change).reserved = ant.reserved
      /\ Having(ant, change).source = ant.source /\ Having(ant, change).cargo = ant.cargo
      /\ Having(ant, change).amount = ant.amount
  BY <1>2, AntFields DEF Having
<1> HIDE DEF change
<1>6. /\ u \in WorldRecord /\ u.ants[Forager] = Having(ant, change)
      /\ u.ants[Digger] = w.ants[Digger] /\ Frame(w, u, {"ants"})
  BY <1>1, <1>4, AntChanged DEF Frame, ant
<1> HIDE DEF u
<1>7. u.sources = w.sources /\ u.carried = w.carried
  BY <1>1, <1>6, WorldDomain DEF Frame
<1>8. CrewHolds(u)
  <2> DEFINE b == Having(ant, change)
  <2>1. ClaimsHold(w.sources, b)
    BY <1>3, <1>5 DEF ClaimsHold, Due
  <2> QED BY <1>3, <1>5, <1>6, <1>7, <2>1 DEF CrewHolds, ForagerHolds
<1>9. LandHolds(u) /\ LifeHolds(u)
  BY <1>1, <1>6, LandKept, LifeKept DEF WorldInv, Frame
<1> QED BY <1>6, <1>8, <1>9 DEF WorldInv, u, change

\* A walk that is over is an arrival (world.cpp:694-697).
LEMMA TravelledHolds ==
  ASSUME NEW w, WorldInv(w), w.ants[Forager].state \in {"ToSource", "Returning"}
  PROVE  WorldInv(Travelled(w))
<1> DEFINE v == Walked(w)
<1>1. WorldInv(v) /\ v.ants[Forager].state = w.ants[Forager].state
  BY WalkedHolds DEF Kindred
<1>2. /\ w.ants[Forager].state = "ToSource" => WorldInv(Arrived(v))
      /\ w.ants[Forager].state = "Returning" =>
           WorldInv(Ant(v, Forager, [path |-> <<>>, state |-> "Storing"]))
  BY <1>1, ArrivedHolds, HomeHolds
<1> HIDE DEF v
<1> QED BY <1>1, <1>2 DEF Travelled, v

\* What goes into a heap fits it and the stores (world.cpp:513-540).
LEMMA HeapedFits ==
  ASSUME NEW w, WorldInv(w), NEW c \in w.zones, NEW n \in Nat,
         n <= Grains - HeapAt(w, c), n <= Capacity(w) - Stored(w), n <= w.carried
  PROVE  /\ Heaped(w, c, n) \in WorldRecord /\ LandHolds(Heaped(w, c, n))
         /\ Frame(w, Heaped(w, c, n), {"heaps", "carried"})
         /\ Heaped(w, c, n).carried = w.carried - n
<1> DEFINE D == DOMAIN w.heaps
           old == [d \in D \cup {c} |-> HeapAt(w, d)]
           heaps == [d \in D \cup {c} |-> HeapAt(w, d) + (IF d = c THEN n ELSE 0)]
           left == w.carried - n
           v == Heaped(w, c, n)
<1>1. w \in WorldRecord
  BY DEF WorldInv
<1>2. /\ w.zones \in SUBSET LaterRooms /\ w.heaps \in HeapRecord /\ w.carried \in Nat
      /\ w.open \in SUBSET Cells
  BY <1>1, Fields
<1>3. /\ D \in SUBSET LaterRooms /\ IsFiniteSet(D) /\ w.heaps \in [D -> 0 .. Grains]
      /\ TotalOf(w.heaps) = SumOf(w.heaps, D) /\ TotalOf(w.heaps) \in Nat
  BY <1>2, HeapsAre
<1>4. left \in Nat /\ Grains \in Nat
  BY <1>2, Strip
<1>5. \A d \in D \cup {c} : old[d] \in 0 .. Grains /\ old[d] = HeapAt(w, d)
  BY <1>3, <1>4 DEF HeapAt
<1>6. SumOf(old, D \cup {c}) = TotalOf(w.heaps)
  <2>1. \A d \in D : w.heaps[d] \in Int /\ old[d] \in Int /\ w.heaps[d] = old[d]
    BY <1>3, <1>5, <1>4 DEF HeapAt
  <2> HIDE DEF old
  <2>2. SumOf(w.heaps, D) = SumOf(old, D)
    BY ONLY <1>3, <2>1, SumAgree
  <2>3. CASE c \in D
    <3>1. D \cup {c} = D
      BY <2>3
    <3> QED BY <1>3, <2>2, <3>1
  <2>4. CASE c \notin D
    <3>1. old[c] = 0
      BY <1>5, <2>4 DEF HeapAt
    <3>2. SumOf(old, D \cup {c}) = SumOf(old, D) + old[c]
      <4>1. old[c] \in Int /\ \A d \in D : old[d] \in Int
        BY <2>1, <3>1
      <4> QED BY ONLY <1>3, <2>4, <4>1, SumAdd
    <3> QED BY <1>3, <2>2, <3>1, <3>2
  <2> QED BY <2>3, <2>4
<1>7. \A d \in D \cup {c} : heaps[d] \in 0 .. Grains /\ (d # c => heaps[d] = old[d])
  BY <1>4, <1>5
<1>8. heaps[c] = old[c] + n
  BY <1>5
<1>9. heaps \in [D \cup {c} -> 0 .. Grains] /\ DOMAIN heaps = D \cup {c}
  BY <1>7
<1> HIDE DEF old, heaps, left
<1>10. heaps \in HeapRecord
  BY <1>2, <1>3, <1>9 DEF HeapRecord
<1>11. TotalOf(heaps) = Stored(w) + n
  <2>1. IsFiniteSet(D \cup {c})
    BY <1>3, FS_AddElement
  <2>2. c \in D \cup {c} /\ \A d \in D \cup {c} : old[d] \in Int /\ heaps[d] \in Int
    BY <1>4, <1>5, <1>7
  <2>3. \A d \in D \cup {c} : d # c => old[d] = heaps[d]
    BY <1>7
  <2>4. SumOf(heaps, D \cup {c}) = SumOf(old, D \cup {c}) - old[c] + heaps[c]
    <3> DEFINE E == D \cup {c}
    <3>1. /\ IsFiniteSet(E) /\ c \in E /\ \A d \in E : old[d] \in Int
          /\ \A d \in E : heaps[d] \in Int
          /\ \A d \in E : d # c => old[d] = heaps[d]
      BY <2>1, <2>2, <2>3
    <3> HIDE DEF E
    <3>2. SumOf(heaps, E) = SumOf(old, E) - old[c] + heaps[c]
      BY ONLY <3>1, SumUpdate
    <3> QED BY <3>2 DEF E
  <2>5. TotalOf(heaps) = SumOf(heaps, D \cup {c})
    BY <1>9, <1>10, HeapsAre
  <2>6. old[c] \in Int
    BY <2>2
  <2> QED BY <1>3, <1>6, <1>8, <2>4, <2>5, <2>6 DEF Stored
<1>12. v = [w EXCEPT !.heaps = heaps, !.carried = left]
  BY DEF Heaped, heaps, left
<1>13. /\ v \in WorldRecord /\ v.heaps = heaps /\ v.carried = left
       /\ Frame(w, v, {"heaps", "carried"})
  BY ZenonT(60), <1>1, <1>4, <1>10, <1>12 DEF WorldRecord, Frame
<1> HIDE DEF v
<1>14. /\ v.open = w.open /\ v.revision = w.revision /\ v.rooms = w.rooms /\ v.zones = w.zones
       /\ v.zoned = w.zoned
  BY <1>1, <1>13, WorldDomain DEF Frame
<1>15. Stored(v) = Stored(w) + n /\ Stored(v) <= Capacity(v)
  <2>1. Stored(v) = Stored(w) + n /\ Capacity(v) = Capacity(w) /\ Stored(w) \in Nat
    BY <1>3, <1>11, <1>13, <1>14 DEF Stored, Capacity
  <2>2. IsFiniteSet(w.zones)
    BY <1>2, Strip, FS_Subset
  <2>3. Cardinality(w.zones) \in Nat
    BY <2>2, FS_CardinalityType
  <2>4. Capacity(w) \in Int
    BY <1>4, <2>3 DEF Capacity
  <2> QED BY <2>1, <2>4
<1>16. c \in w.open
  <2>1. Zones(w) \subseteq w.open /\ w.zones \subseteq Zones(w)
    BY <1>2, ZonesOpen DEF WorldInv, LandHolds, GroundHolds, ZonesHold, Zones
  <2> QED BY <2>1
<1>17. LandHolds(v)
  BY <1>9, <1>13, <1>14, <1>15, <1>16
     DEF WorldInv, LandHolds, GroundHolds, ZonesHold, ZonesCurrent, Zones
<1> QED BY <1>13, <1>17 DEF v, left

\* A load goes into the stores as far as there is room; the rest is held (world.cpp:513-540).
LEMMA UnloadedHolds ==
  ASSUME NEW w, WorldInv(w), w.ants[Forager].state = "Storing",
         NEW c \in w.zones, Room(w, c) > 0
  PROVE  WorldInv(Unloaded(w, c))
<1> DEFINE ant == w.ants[Forager]
           n == Room(w, c)
           left == ant.amount - n
           v == Heaped(w, c, n)
           some == [amount |-> left]
           none == [path |-> <<>>, amount |-> 0, cargo |-> "None", state |-> "AtHome",
                    source |-> 0]
           me == IF left > 0 THEN some ELSE none
           u == Ant(v, Forager, me)
<1>1. w \in WorldRecord /\ Forager \in Workers /\ Digger \in Workers \ {Forager}
  BY DEF WorldInv, Workers, Forager, Digger
<1>2. ant \in AntRecord /\ ant.state = "Storing"
  BY <1>1, Fields
<1>3. /\ ~(ant.reserved > 0) /\ ant.cargo = "Food" /\ w.carried = ant.amount
      /\ ClaimsHold(w.sources, ant) /\ IdsDiffer(w.sources) /\ DiggerHolds(w.ants[Digger])
  BY DEF WorldInv, CrewHolds, ForagerHolds
<1>4. ant.amount \in Nat /\ ant.reserved = 0
  BY <1>2, <1>3, AntFields
<1>5. n \in Nat /\ n <= ant.amount /\ n <= Grains - HeapAt(w, c) /\ n <= Capacity(w) - Stored(w)
  <2> DEFINE x == Grains - HeapAt(w, c)
             y == Capacity(w) - Stored(w)
  <2>1. w.zones \in SUBSET LaterRooms /\ w.heaps \in HeapRecord
    BY <1>1, Fields
  <2>2. Cardinality(w.zones) \in Nat /\ Grains \in Nat
    <3>1. IsFiniteSet(w.zones)
      BY <2>1, Strip, FS_Subset
    <3> QED BY <3>1, FS_CardinalityType, Strip
  <2>3. Stored(w) \in Nat /\ w.heaps \in [DOMAIN w.heaps -> 0 .. Grains]
    BY <2>1, HeapsAre DEF Stored
  <2>4. HeapAt(w, c) \in Int
    BY <2>2, <2>3 DEF HeapAt
  <2>5. x \in Int /\ y \in Int /\ ant.amount \in Int
    BY <1>4, <2>2, <2>3, <2>4 DEF Capacity
  <2>6. n = Min({ant.amount, x, y})
    BY DEF Room
  <2> HIDE DEF x, y, n, ant
  <2>7. n \in Int /\ n <= ant.amount /\ n <= x /\ n <= y
    BY ONLY <2>5, <2>6, MinOfThree
  <2>8. n > 0
    BY DEF n
  <2> QED BY <2>7, <2>8 DEF x, y
<1> HIDE DEF n
<1>6. left \in Nat
  BY <1>4, <1>5
<1>7. /\ v \in WorldRecord /\ LandHolds(v) /\ Frame(w, v, {"heaps", "carried"})
      /\ v.carried = w.carried - n
  BY <1>3, <1>5, HeapedFits
<1> HIDE DEF v
<1>8. v.carried = left /\ v.sources = w.sources /\ v.ants = w.ants
  BY <1>1, <1>3, <1>7, WorldDomain DEF Frame
<1> DEFINE b == Having(ant, me)
<1>9. /\ b \in AntRecord /\ b.reserved = 0 /\ b.state # "ToSource"
      /\ b.cargo = IF b.state \in {"Returning", "Storing"} THEN "Food" ELSE "None"
      /\ left = IF b.cargo = "Food" THEN b.amount ELSE 0
  <2> HIDE DEF ant, left
  <2>1. CASE left > 0
    <3>1. me = some
      BY <2>1
    <3>2. Having(ant, some) \in AntRecord
      BY <1>2, <1>6 DEF AntRecord, Having
    <3>3. /\ Having(ant, some).reserved = 0 /\ Having(ant, some).state = "Storing"
          /\ Having(ant, some).cargo = "Food" /\ Having(ant, some).amount = left
      BY <1>2, <1>3, <1>4, AntFields DEF Having
    <3> HIDE DEF some, none
    <3> QED BY <3>1, <3>2, <3>3
  <2>2. CASE ~(left > 0)
    <3>1. me = none /\ left = 0
      BY <1>6, <2>2
    <3>2. Having(ant, none) \in AntRecord
      <4>1. <<>> \in Seq(Turf)
        OBVIOUS
      <4> QED BY <1>2, <4>1 DEF AntRecord, Having
    <3>3. /\ Having(ant, none).reserved = 0 /\ Having(ant, none).state = "AtHome"
          /\ Having(ant, none).cargo = "None"
      BY <1>2, <1>4, AntFields DEF Having
    <3> HIDE DEF some, none
    <3> QED BY <3>1, <3>2, <3>3
  <2> QED BY <2>1, <2>2
<1> HIDE DEF me, left
<1>10. /\ u \in WorldRecord /\ u.ants[Forager] = b /\ u.ants[Digger] = w.ants[Digger]
       /\ Frame(v, u, {"ants"})
  BY <1>1, <1>7, <1>8, <1>9, AntChanged DEF Frame
<1> HIDE DEF u, b, ant
<1>11. u.sources = w.sources /\ u.carried = left
  BY <1>7, <1>8, <1>10, WorldDomain DEF Frame
<1>12. ClaimsHold(w.sources, b)
  <2>1. \A i \in DOMAIN w.sources : w.sources[i].reserved = 0
    BY <1>3, <1>4 DEF ClaimsHold, Due
  <2> QED BY <1>3, <1>9, <2>1 DEF ClaimsHold, Due
<1>13. CrewHolds(u)
  BY <1>3, <1>9, <1>10, <1>11, <1>12 DEF CrewHolds, ForagerHolds
<1>14. LandHolds(u)
  BY <1>7, <1>10, LandKept DEF Frame
<1>15. LifeHolds(u)
  <2>1. Frame(w, u, {"open", "revision", "rooms", "zones", "zoned", "heaps", "worked",
                     "sources", "carried", "ants"})
    BY <1>1, <1>7, <1>10, WorldDomain DEF Frame
  <2> QED BY <1>1, <1>10, <2>1, LifeKept DEF WorldInv
<1>16. WorldInv(u) /\ Unloaded(w, c) = Worked(u)
  BY <1>10, <1>13, <1>14, <1>15 DEF WorldInv, Unloaded, u, v, me, n, left, ant
<1> QED BY <1>16, WorkedKept

\* Whatever a forager does in her turn (world.cpp:670-697).
LEMMA ForagedHolds ==
  ASSUME NEW w, WorldInv(w), NEW v \in Foraged(w)
  PROVE  WorldInv(v)
<1> DEFINE ant == w.ants[Forager]
<1>1. w \in WorldRecord
  BY DEF WorldInv
<1>2. ant.state \in {"AtHome", "ToSource", "Returning", "Storing"}
  <2>1. ant \in AntRecord
    BY <1>1, Fields
  <2> QED BY <2>1, AntFields
<1>3. CASE ant.state = "AtHome"
  <2>1. v = w \/ \E i \in Offers(w) : v = Travelled(Chosen(w, i))
    BY <1>3 DEF Foraged
  <2>2. ASSUME NEW i \in Offers(w) PROVE WorldInv(Travelled(Chosen(w, i)))
    <3> DEFINE u == Chosen(w, i)
    <3>1. WorldInv(u) /\ u.ants[Forager].state = "ToSource"
      BY <1>3, ChosenHolds
    <3> HIDE DEF u
    <3>2. WorldInv(Travelled(u))
      BY <3>1, TravelledHolds
    <3> QED BY <3>2 DEF u
  <2> QED BY <2>1, <2>2
<1>4. CASE ant.state = "ToSource"
  <2>1. v \in {Released(w), Travelled(w)}
    BY <1>4 DEF Foraged
  <2> QED BY <1>4, <2>1, ReleasedHolds, TravelledHolds
<1>5. CASE ant.state = "Returning"
  <2>1. v = Travelled(w)
    BY <1>5 DEF Foraged
  <2> QED BY <1>5, <2>1, TravelledHolds
<1>6. CASE ant.state = "Storing"
  <2>1. v = w \/ \E c \in w.zones : Room(w, c) > 0 /\ v = Unloaded(w, c)
    BY <1>6 DEF Foraged
  <2> QED BY <1>6, <2>1, UnloadedHolds
<1> HIDE DEF ant
<1> QED BY <1>2, <1>3, <1>4, <1>5, <1>6

-----------------------------------------------------------------------------
(* The digger *)

\* A digger takes up a grain or puts it down.
LEMMA DiggerChanged ==
  ASSUME NEW w, WorldInv(w), NEW x \in {"None", "Spoil"}, NEW n \in Nat
  PROVE  /\ WorldInv(Ant(w, Digger, [cargo |-> x, amount |-> n]))
         /\ Frame(w, Ant(w, Digger, [cargo |-> x, amount |-> n]), {"ants"})
<1> DEFINE ant == w.ants[Digger]
           change == [cargo |-> x, amount |-> n]
           u == Ant(w, Digger, change)
<1>1. w \in WorldRecord /\ Digger \in Workers /\ Forager \in Workers \ {Digger}
  BY DEF WorldInv, Workers, Forager, Digger
<1>2. ant \in AntRecord /\ DiggerHolds(ant)
  BY <1>1, Fields DEF WorldInv, CrewHolds
<1> HIDE DEF ant
<1>3. Having(ant, change) \in AntRecord
  BY <1>2 DEF AntRecord, Having
<1>4. DiggerHolds(Having(ant, change))
  <2>1. /\ Having(ant, change).source = ant.source /\ Having(ant, change).cargo = x
        /\ Having(ant, change).reserved = ant.reserved
    BY <1>2, AntFields DEF Having
  <2> HIDE DEF change
  <2> QED BY <1>2, <2>1 DEF DiggerHolds
<1> HIDE DEF change
<1>5. /\ u \in WorldRecord /\ u.ants[Digger] = Having(ant, change)
      /\ u.ants[Forager] = w.ants[Forager] /\ Frame(w, u, {"ants"})
  BY <1>1, <1>3, AntChanged DEF Frame, ant
<1> HIDE DEF u
<1>6. u.sources = w.sources /\ u.carried = w.carried
  BY <1>1, <1>5, WorldDomain DEF Frame
<1>7. CrewHolds(u)
  BY <1>4, <1>5, <1>6 DEF WorldInv, CrewHolds, ForagerHolds
<1>8. LandHolds(u) /\ LifeHolds(u)
  BY <1>1, <1>5, LandKept, LifeKept DEF WorldInv, Frame
<1> QED BY <1>5, <1>7, <1>8 DEF WorldInv, u, change

\* Ground that opens in the nest, or closes outside of it (grid.cpp, world.cpp:357-379).
LEMMA GroundChanged ==
  ASSUME NEW w, WorldInv(w), NEW ground \in SUBSET Cells, Turf \subseteq ground,
         DOMAIN w.heaps \subseteq ground, w.open \cap Nest \subseteq ground
  PROVE  WorldInv([w EXCEPT !.open = ground, !.revision = @ + 1])
<1> DEFINE next == w.revision + 1
           v == [w EXCEPT !.open = ground, !.revision = next]
<1>1. w \in WorldRecord
  BY DEF WorldInv
<1>2. /\ w.revision \in Nat \ {0} /\ next \in Nat \ {0} /\ w.open \in SUBSET Cells
      /\ w.zoned \in Nat \X {FoundingRooms, LaterRooms}
  BY <1>1, Fields
<1> HIDE DEF next
<1>3. /\ v \in WorldRecord /\ v.open = ground /\ v.revision = next
      /\ Frame(w, v, {"open", "revision"})
  BY <1>1, <1>2 DEF WorldRecord, Frame
<1>4. [w EXCEPT !.open = ground, !.revision = @ + 1] = v
  BY DEF next
<1> HIDE DEF v
<1>5. v.heaps = w.heaps /\ v.rooms = w.rooms /\ v.zones = w.zones /\ v.zoned = w.zoned
  BY <1>1, <1>3, WorldDomain DEF Frame
<1>6. Zones(w) \subseteq Zones(v)
  <2>1. w.open \cap Nest \in SUBSET Cells /\ ground \cap Nest \in SUBSET Cells
    BY <1>2
  <2>2. Joined(w.open \cap Nest) \subseteq Joined(ground \cap Nest)
    BY <2>1, JoinedGrows
  <2> QED BY <1>3, <1>5, <2>2 DEF Zones
<1>7. w.zoned[1] <= w.revision /\ w.zones \subseteq Zones(w) /\ Stored(w) <= Capacity(w)
  BY DEF WorldInv, LandHolds, ZonesHold
<1>8. v.zoned[1] <= v.revision /\ ~ZonesCurrent(v)
  <2>1. w.zoned[1] \in Nat /\ w.revision \in Nat
    BY <1>2
  <2>2. w.zoned[1] < next
    BY <1>7, <2>1 DEF next
  <2>3. next \in Nat
    BY <1>2
  <2> QED BY <1>3, <1>5, <2>1, <2>2, <2>3 DEF ZonesCurrent
<1>9. LandHolds(v)
  BY <1>3, <1>5, <1>6, <1>7, <1>8 DEF LandHolds, GroundHolds, ZonesHold, Stored, Capacity
<1>10. CrewHolds(v) /\ LifeHolds(v)
  BY <1>1, <1>3, CrewKept, LifeKept DEF WorldInv, Frame
<1> QED BY <1>3, <1>4, <1>9, <1>10 DEF WorldInv

\* Whatever a digger does in its turn (world.cpp:890-913).
LEMMA ExcavatedHolds ==
  ASSUME NEW w, WorldInv(w), NEW v \in Excavated(w)
  PROVE  WorldInv(v)
<1>1. w \in WorldRecord
  BY DEF WorldInv
<1>2. /\ w.open \in SUBSET Cells /\ w.rooms \subseteq LaterRooms /\ w.heaps \in HeapRecord
      /\ Turf \subseteq w.open /\ DOMAIN w.heaps \subseteq w.open
      /\ DOMAIN w.heaps \subseteq LaterRooms /\ LaterRooms \subseteq Nest
  BY <1>1, Fields, HeapsAre, SavedRunAssumption DEF WorldInv, LandHolds, GroundHolds
<1>3. CASE w.ants[Digger].cargo = "Spoil"
  <2> DEFINE empty == Ant(w, Digger, [cargo |-> "None", amount |-> 0])
  <2>1. WorldInv(empty) /\ Frame(w, empty, {"ants"})
    BY DiggerChanged
  <2>2. v = w \/ v = empty \/ v = Tipped(empty, Dump)
    BY <1>3 DEF Excavated
  <2> HIDE DEF empty
  <2>3. empty.open = w.open /\ empty.heaps = w.heaps
    BY <1>1, <2>1, WorldDomain DEF Frame
  <2>4. /\ w.open \ {Dump} \in SUBSET Cells /\ Turf \subseteq w.open \ {Dump}
        /\ DOMAIN w.heaps \subseteq w.open \ {Dump} /\ w.open \cap Nest \subseteq w.open \ {Dump}
    BY <1>2, Strip
  <2>5. WorldInv([empty EXCEPT !.open = w.open \ {Dump}, !.revision = @ + 1])
    BY <2>1, <2>3, <2>4, GroundChanged
  <2>6. Tipped(empty, Dump) = [empty EXCEPT !.open = w.open \ {Dump}, !.revision = @ + 1]
    BY <2>3 DEF Tipped
  <2> QED BY <2>1, <2>2, <2>5, <2>6
<1>4. CASE w.ants[Digger].cargo # "Spoil"
  <2>1. \/ v = w
        \/ \E c \in w.rooms : v = Worked(Ant(Dug(w, c), Digger, [cargo |-> "Spoil", amount |-> 1]))
    BY <1>4 DEF Excavated
  <2>2. ASSUME NEW c \in w.rooms
        PROVE  WorldInv(Worked(Ant(Dug(w, c), Digger, [cargo |-> "Spoil", amount |-> 1])))
    <3> DEFINE u == Dug(w, c)
               x == Ant(u, Digger, [cargo |-> "Spoil", amount |-> 1])
    <3>1. w.open \cup {c} \in SUBSET Cells
      BY <1>2, Strip
    <3>2. WorldInv([w EXCEPT !.open = w.open \cup {c}, !.revision = @ + 1])
      BY <1>2, <3>1, GroundChanged
    <3>3. WorldInv(u)
      BY <3>2 DEF Dug
    <3> HIDE DEF u
    <3>4. WorldInv(x)
      BY <3>3, DiggerChanged
    <3> HIDE DEF x
    <3>5. WorldInv(Worked(x))
      BY <3>4, WorkedKept
    <3> QED BY <3>5 DEF x, u
  <2> QED BY <2>1, <2>2
<1> QED BY <1>3, <1>4

\* A turn of either worker.
LEMMA ActHolds == SavedInv /\ Act => SavedInv'
<1> SUFFICES ASSUME SavedInv, Act PROVE SavedInv'
  OBVIOUS
<1>1. WorldInv(world) /\ turn \in {1, 2} /\ turn' = turn + 1
  BY DEF SavedInv, Act, Workers, Forager, Digger
<1>2. WorldInv(world')
  <2>1. CASE turn = Forager
    <3>1. world' \in Foraged(world)
      BY <2>1 DEF Act
    <3> QED BY <1>1, <3>1, ForagedHolds
  <2>2. CASE turn # Forager
    <3>1. world' \in Excavated(world)
      BY <2>2 DEF Act
    <3> QED BY <1>1, <3>1, ExcavatedHolds
  <2> QED BY <2>1, <2>2
<1>3. WorldInv(world)'
  BY <1>2 DEF WorldInv, LandHolds, CrewHolds, LifeHolds, GroundHolds, ZonesHold, ZonesCurrent, Zones,
     Stored, Capacity, ForagerHolds
<1> QED BY <1>1, <1>3 DEF SavedInv

-----------------------------------------------------------------------------
(* The evening of a tick *)

\* The trails of a run are computed as the trail field's are.
LEMMA TrailsAgree ==
  /\ Trails!Untrodden = Untrodden
  /\ \A t, c, a : Trails!Deposited(t, c, a) = Deposited(t, c, a)
  /\ \A t, ground : Trails!Updated(t, ground) = Updated(t, ground)
  /\ \A f : Trails!RestoredTrails(f) = RestoredTrails(f)
<1>1. Trails!Untrodden = Untrodden
  BY DEF Trails!Untrodden, Untrodden, Trails!Blank, Blank
<1>2. ASSUME NEW t, NEW c, NEW a PROVE Trails!Deposited(t, c, a) = Deposited(t, c, a)
  BY DEF Trails!Deposited, Deposited, Trails!Dense!Marked, Dense!Marked
<1>3. ASSUME NEW f, NEW ground, NEW c PROVE Trails!Dense!Faded(f, ground, c) = Dense!Faded(f, ground, c)
  BY DEF Trails!Dense!Faded, Dense!Faded, Trails!Dense!Mixed, Dense!Mixed, Trails!Dense!Seen,
         Dense!Seen
<1>4. ASSUME NEW t, NEW ground PROVE Trails!Updated(t, ground) = Updated(t, ground)
  <2>1. Trails!Candidates(t) = Candidates(t)
    BY DEF Trails!Candidates, Candidates
  <2> QED BY <1>3, <2>1 DEF Trails!Updated, Updated
<1>5. ASSUME NEW f PROVE Trails!RestoredTrails(f) = RestoredTrails(f)
  BY DEF Trails!RestoredTrails, RestoredTrails, Trails!Blank, Blank
<1> QED BY <1>1, <1>2, <1>4, <1>5

\* A world with another tidy field of trails.
LEMMA TrailsChanged ==
  ASSUME NEW w, WorldInv(w), NEW t, Tidy(t)
  PROVE  /\ WorldInv([w EXCEPT !.trails = t]) /\ [w EXCEPT !.trails = t].trails = t
         /\ [w EXCEPT !.trails = t].open = w.open
<1> DEFINE v == [w EXCEPT !.trails = t]
<1>1. w \in WorldRecord /\ t \in TrailRecord
  BY DEF WorldInv, Tidy, TrailRecord
<1>2. v \in WorldRecord /\ v.trails = t /\ Frame(w, v, {"trails"})
  BY <1>1 DEF WorldRecord, Frame
<1> HIDE DEF v
<1>3. LandHolds(v) /\ CrewHolds(v)
  BY <1>1, <1>2, LandKept, CrewKept DEF WorldInv, Frame
<1>4. LifeHolds(v) /\ v.open = w.open
  <2>1. v.mature = w.mature /\ v.eggs = w.eggs /\ v.open = w.open
    BY <1>1, <1>2, WorldDomain DEF Frame
  <2> QED BY <1>2, <2>1 DEF LifeHolds, WorldInv
<1> QED BY <1>2, <1>3, <1>4 DEF WorldInv, v

\* A forager with a load leaves a mark where she stands (world.cpp:1230-1238).
LEMMA MarkHolds == SavedInv /\ MarkTrail => SavedInv'
<1> SUFFICES ASSUME SavedInv, MarkTrail PROVE SavedInv'
  OBVIOUS
<1>1. WorldInv(world) /\ turn' = 4 /\ world \in WorldRecord
  BY DEF SavedInv, MarkTrail, WorldInv
<1>2. PICK a \in Amounts :
        \/ world' = [world EXCEPT !.trails = Trails!Deposited(@, world.ants[Forager].at, a)]
        \/ world' = world
  BY DEF MarkTrail
<1> DEFINE t == Deposited(world.trails, world.ants[Forager].at, a)
<1>3. Tidy(t)
  <2>1. world.ants[Forager] \in AntRecord
    BY <1>1, Fields
  <2>2. world.ants[Forager].at \in Cells
    BY <2>1, AntFields, Strip
  <2>3. Tidy(world.trails)
    BY <1>1 DEF WorldInv, LifeHolds
  <2> QED BY <2>2, <2>3, DepositedTidy
<1>4. Trails!Deposited(world.trails, world.ants[Forager].at, a) = t
  BY TrailsAgree
<1>5. world' = [world EXCEPT !.trails = t] \/ world' = world
  BY <1>2, <1>4
<1> HIDE DEF t
<1>6. WorldInv(world')
  BY <1>1, <1>3, <1>5, TrailsChanged
<1>7. WorldInv(world)'
  BY <1>6 DEF WorldInv, LandHolds, CrewHolds, LifeHolds, GroundHolds, ZonesHold, ZonesCurrent, Zones,
     Stored, Capacity, ForagerHolds
<1> QED BY <1>1, <1>7 DEF SavedInv

\* A meal comes out of one heap (world.cpp:988-1004).
LEMMA EatenHolds ==
  ASSUME NEW w, WorldInv(w), NEW v \in Eaten(w)
  PROVE  WorldInv(v) /\ v.trails = w.trails /\ v.open = w.open
<1>1. w \in WorldRecord /\ w.heaps \in HeapRecord
  BY Fields DEF WorldInv
<1> DEFINE D == DOMAIN w.heaps
<1>2. /\ D \in SUBSET LaterRooms /\ IsFiniteSet(D) /\ w.heaps \in [D -> 0 .. Grains]
      /\ TotalOf(w.heaps) = SumOf(w.heaps, D)
  BY <1>1, HeapsAre
<1>3. CASE v = w
  BY <1>3
<1>4. ASSUME NEW c \in D, w.heaps[c] > 0, v = [w EXCEPT !.heaps[c] = @ - 1]
      PROVE  WorldInv(v) /\ v.trails = w.trails /\ v.open = w.open
  <2> DEFINE less == w.heaps[c] - 1
             heaps == [w.heaps EXCEPT ![c] = less]
  <2>1. less \in 0 .. Grains
    BY <1>2, <1>4, Strip
  <2>2. v = [w EXCEPT !.heaps = heaps]
    BY <1>4
  <2>3. /\ heaps \in [D -> 0 .. Grains] /\ heaps[c] = less
        /\ \A d \in D : d # c => w.heaps[d] = heaps[d]
    BY <1>2, <2>1
  <2> HIDE DEF heaps
  <2>4. heaps \in HeapRecord /\ DOMAIN heaps = D
    BY <1>2, <2>3 DEF HeapRecord
  <2>5. /\ v \in WorldRecord /\ v.heaps = heaps /\ Frame(w, v, {"heaps"})
    BY <1>1, <2>2, <2>4 DEF WorldRecord, Frame
  <2>6. TotalOf(heaps) = TotalOf(w.heaps) - w.heaps[c] + less
    <3>1. /\ IsFiniteSet(D) /\ c \in D /\ \A d \in D : w.heaps[d] \in Int
          /\ \A d \in D : heaps[d] \in Int
          /\ \A d \in D : d # c => w.heaps[d] = heaps[d]
      BY <1>2, <2>3, Strip
    <3>2. TotalOf(heaps) = SumOf(heaps, D)
      BY <2>4, HeapsAre
    <3> HIDE DEF D
    <3>3. SumOf(heaps, D) = SumOf(w.heaps, D) - w.heaps[c] + heaps[c]
      BY ONLY <3>1, SumUpdate
    <3> QED BY <1>2, <2>3, <3>2, <3>3
  <2> HIDE DEF less
  <2>7. /\ v.open = w.open /\ v.revision = w.revision /\ v.rooms = w.rooms /\ v.zones = w.zones
        /\ v.zoned = w.zoned /\ v.trails = w.trails
    BY <1>1, <2>5, WorldDomain DEF Frame
  <2>8. Stored(v) <= Capacity(v)
    <3>1. Stored(v) <= Stored(w) /\ Stored(w) \in Int /\ Stored(v) \in Int
      <4>1. w.heaps[c] \in Int /\ less = w.heaps[c] - 1
        BY <1>2, Strip DEF less
      <4>2. TotalOf(w.heaps) \in Int
        BY <1>1, HeapsAre
      <4> QED BY <2>5, <2>6, <4>1, <4>2 DEF Stored
    <3>2. Capacity(v) = Capacity(w) /\ Capacity(w) \in Int
      <4>1. w.zones \in SUBSET LaterRooms
        BY <1>1, Fields
      <4>2. IsFiniteSet(w.zones)
        BY <4>1, Strip, FS_Subset
      <4>3. Cardinality(w.zones) \in Nat
        BY <4>2, FS_CardinalityType
      <4> QED BY <2>7, <4>3, Strip DEF Capacity
    <3>3. Stored(w) <= Capacity(w)
      BY DEF WorldInv, LandHolds
    <3> QED BY <3>1, <3>2, <3>3
  <2>9. LandHolds(v)
    BY <2>4, <2>5, <2>7, <2>8
       DEF WorldInv, LandHolds, GroundHolds, ZonesHold, ZonesCurrent, Zones
  <2>10. CrewHolds(v) /\ LifeHolds(v)
    BY <1>1, <2>5, CrewKept, LifeKept DEF WorldInv, Frame
  <2> QED BY <2>5, <2>7, <2>9, <2>10 DEF WorldInv
<1>5. v = w \/ \E c \in D : w.heaps[c] > 0 /\ v = [w EXCEPT !.heaps[c] = @ - 1]
  BY DEF Eaten
<1> QED BY <1>3, <1>4, <1>5

\* The turns of a tick are counted afresh in the next.
LEMMA UnworkedHolds ==
  ASSUME NEW w, WorldInv(w)
  PROVE  /\ WorldInv([w EXCEPT !.worked = 0]) /\ [w EXCEPT !.worked = 0].worked = 0
         /\ Frame(w, [w EXCEPT !.worked = 0], {"worked"})
<1> DEFINE v == [w EXCEPT !.worked = 0]
<1>1. w \in WorldRecord
  BY DEF WorldInv
<1>2. v \in WorldRecord /\ v.worked = 0 /\ Frame(w, v, {"worked"})
  BY <1>1 DEF WorldRecord, Frame
<1> HIDE DEF v
<1>3. LandHolds(v) /\ CrewHolds(v) /\ LifeHolds(v)
  BY <1>1, <1>2, LandKept, CrewKept, LifeKept DEF WorldInv, Frame
<1> QED BY <1>2, <1>3 DEF WorldInv, v

\* The end of a tick: a meal, and trails that fade (world.cpp:566-568).
LEMMA EndTickHolds == SavedInv /\ EndTick => SavedInv'
<1> SUFFICES ASSUME SavedInv, EndTick PROVE SavedInv'
  OBVIOUS
<1>1. WorldInv(world) /\ turn' = 0
  BY DEF SavedInv, EndTick
<1>2. PICK fed \in IF (run.tick + 1) % Second = 0 THEN Eaten(world) ELSE {world} :
        world' = [(IF TrailsDue THEN Faded(fed) ELSE fed) EXCEPT !.worked = 0]
  BY DEF EndTick
<1>3. WorldInv(fed)
  BY <1>1, EatenHolds
<1> DEFINE t == Updated(fed.trails, fed.open)
           v == IF TrailsDue THEN Faded(fed) ELSE fed
<1>4. Tidy(t)
  BY <1>3, UpdatedTidy DEF WorldInv, LifeHolds
<1>5. Faded(fed) = [fed EXCEPT !.trails = t]
  BY TrailsAgree DEF Faded
<1> HIDE DEF t
<1>6. WorldInv(v)
  BY <1>3, <1>4, <1>5, TrailsChanged
<1> HIDE DEF v
<1>7. world' = [v EXCEPT !.worked = 0]
  BY <1>2 DEF v
<1>8. WorldInv(world') /\ world'.worked = 0
  BY <1>6, <1>7, UnworkedHolds
<1>9. WorldInv(world)'
  BY <1>8 DEF WorldInv, LandHolds, CrewHolds, LifeHolds, GroundHolds, ZonesHold, ZonesCurrent, Zones,
     Stored, Capacity, ForagerHolds
<1> QED BY <1>1, <1>8, <1>9 DEF SavedInv

-----------------------------------------------------------------------------
(* The morning of a tick *)

\* What is left when spent sites go: sites there were, each once, and all that are claimed.
Survive(t, s, k) ==
  /\ \A j \in DOMAIN t : \E i \in 1 .. k : t[j] = s[i]
  /\ \A i \in 1 .. k : s[i].reserved > 0 => \E j \in DOMAIN t : t[j] = s[i]
  /\ IdsDiffer(t)

\* One more site is looked at.
LEMMA SurviveOne ==
  ASSUME NEW s \in Seq(SourceRecord), IdsDiffer(s), NEW t \in Seq(SourceRecord),
         NEW k \in DOMAIN s, Survive(t, s, k - 1)
  PROVE  /\ Survive(Append(t, s[k]), s, k) /\ Append(t, s[k]) \in Seq(SourceRecord)
         /\ ~(s[k].reserved > 0) => Survive(t, s, k)
<1> DEFINE u == Append(t, s[k])
           n == Len(t)
<1>1. /\ k \in 1 .. Len(s) /\ Len(s) \in Nat /\ s[k] \in SourceRecord /\ n \in Nat
      /\ DOMAIN t = 1 .. n /\ DOMAIN s = 1 .. Len(s)
  BY SitesAre
<1>2. /\ u \in Seq(SourceRecord) /\ Len(u) = n + 1 /\ u[n + 1] = s[k]
      /\ \A j \in 1 .. n : u[j] = t[j]
  BY <1>1, AppendProperties
<1>3. DOMAIN u = 1 .. n + 1
  BY <1>2, SitesAre
<1> HIDE DEF u
<1>4. \A i \in 1 .. k : i = k \/ i \in 1 .. k - 1
  BY <1>1
<1>5. \A j \in DOMAIN u : j = n + 1 \/ j \in 1 .. n
  BY <1>1, <1>3
<1>6. 1 .. k - 1 \subseteq 1 .. k /\ 1 .. n \subseteq DOMAIN u /\ n + 1 \in DOMAIN u /\ k \in 1 .. k
  BY <1>1, <1>3
<1>7. \A j \in 1 .. n : t[j].id # s[k].id
  <2> SUFFICES ASSUME NEW j \in 1 .. n, t[j].id = s[k].id PROVE FALSE
    OBVIOUS
  <2>1. PICK i \in 1 .. k - 1 : t[j] = s[i]
    BY <1>1 DEF Survive
  <2>2. i \in DOMAIN s /\ i # k
    BY <1>1
  <2> QED BY <2>1, <2>2 DEF IdsDiffer
<1>8. IdsDiffer(u)
  BY <1>1, <1>2, <1>5, <1>7 DEF IdsDiffer, Survive
<1>9. \A j \in DOMAIN u : \E i \in 1 .. k : u[j] = s[i]
  BY <1>1, <1>2, <1>5, <1>6 DEF Survive
<1>10. \A i \in 1 .. k : s[i].reserved > 0 => \E j \in DOMAIN u : u[j] = s[i]
  <2> SUFFICES ASSUME NEW i \in 1 .. k, s[i].reserved > 0 PROVE \E j \in DOMAIN u : u[j] = s[i]
    OBVIOUS
  <2>1. CASE i = k
    BY <1>2, <1>6, <2>1
  <2>2. CASE i # k
    <3>1. PICK j \in DOMAIN t : t[j] = s[i]
      BY <1>4, <2>2 DEF Survive
    <3> QED BY <1>1, <1>2, <1>6, <3>1
  <2> QED BY <2>1, <2>2
<1>11. ~(s[k].reserved > 0) => Survive(t, s, k)
  BY <1>4, <1>6 DEF Survive
<1> QED BY <1>2, <1>8, <1>9, <1>10, <1>11 DEF Survive, u

\* Spent sites nobody claims go, and no others that are claimed (world.cpp:312-323).
LEMMA LastingIs ==
  ASSUME NEW s \in Seq(SourceRecord), IdsDiffer(s)
  PROVE  Lasting(s) \in Seq(SourceRecord) /\ Survive(Lasting(s), s, Len(s))
<1> DEFINE N == Len(s)
           S == Seq(SourceRecord)
           stays(i) == s[i].amount > 0 \/ s[i].reserved > 0
           Body(f) == [i \in 0 .. N |->
                         IF i = 0 THEN <<>>
                         ELSE IF stays(i) THEN Append(f[i - 1], s[i]) ELSE f[i - 1]]
           kept == CHOOSE f : f = Body(f)
           next == [p \in Steps(N, S) |-> IF stays(p[1]) THEN Append(p[2], s[p[1]]) ELSE p[2]]
<1>1. N \in Nat /\ DOMAIN s = 1 .. N /\ \A i \in 1 .. N : s[i] \in SourceRecord
  BY SitesAre
<1>2. Lasting(s) = kept[N]
  BY DEF Lasting
<1>3. <<>> \in S /\ next \in [Steps(N, S) -> S]
  <2>1. ASSUME NEW p \in Steps(N, S) PROVE next[p] \in S
    <3>1. p[1] \in 1 .. N /\ p[2] \in S
      BY DEF Steps
    <3>2. s[p[1]] \in SourceRecord
      BY <1>1, <3>1
    <3>3. Append(p[2], s[p[1]]) \in S
      BY <3>1, <3>2, AppendProperties
    <3> QED BY <3>1, <3>3
  <2> QED BY <2>1
<1>4. PICK f \in [0 .. N -> S] : Passed(f, <<>>, next, N)
  <2> HIDE DEF next, S, N
  <2> QED BY ONLY <1>1, <1>3, Iterated
<1>5. ASSUME NEW i \in 1 .. N
      PROVE  f[i] = IF stays(i) THEN Append(f[i - 1], s[i]) ELSE f[i - 1]
  <2>1. i - 1 \in 0 .. N /\ f[i - 1] \in S
    BY <1>1
  <2>2. <<i, f[i - 1]>> \in Steps(N, S)
    BY <2>1 DEF Steps
  <2>3. f[i] = next[<<i, f[i - 1]>>]
    BY <1>4 DEF Passed
  <2> HIDE DEF stays, S
  <2> QED BY <2>2, <2>3
<1>6. f[0] = <<>>
  BY <1>4 DEF Passed
<1>7. f = Body(f)
  <2> HIDE DEF stays
  <2>1. ASSUME NEW i \in 0 .. N PROVE f[i] = Body(f)[i]
    <3>1. CASE i = 0
      BY <1>6, <3>1
    <3>2. CASE i # 0
      <4>1. i \in 1 .. N
        BY <1>1, <3>2
      <4> QED BY <1>5, <4>1, <3>2
    <3> QED BY <3>1, <3>2
  <2> HIDE DEF S
  <2> QED BY <2>1
<1>8. kept = Body(kept)
  <2> HIDE DEF Body
  <2> QED BY <1>7
<1>9. \A i \in 0 .. N : kept[i] = Body(kept)[i]
  BY <1>8
<1>10. kept[0] = <<>> /\ \A i \in 1 .. N :
         kept[i] = IF stays(i) THEN Append(kept[i - 1], s[i]) ELSE kept[i - 1]
  <2> HIDE DEF kept, stays
  <2>1. 0 \in 0 .. N /\ \A i \in 1 .. N : i \in 0 .. N /\ i # 0
    BY <1>1
  <2> QED BY <1>9, <2>1
<1> HIDE DEF kept, S
<1> DEFINE Bad == {i \in 0 .. N : ~(kept[i] \in Seq(SourceRecord) /\ Survive(kept[i], s, i))}
<1>11. ASSUME NEW i \in Bad PROVE \E j \in Bad : j < i
  <2>1. i # 0
    <3> SUFFICES kept[0] \in Seq(SourceRecord) /\ Survive(kept[0], s, 0)
      OBVIOUS
    <3>1. <<>> \in Seq(SourceRecord) /\ DOMAIN <<>> = {} /\ 1 .. 0 = {}
      BY EmptySeq
    <3>2. Survive(<<>>, s, 0)
      BY <3>1 DEF Survive, IdsDiffer
    <3> QED BY <1>10, <3>1, <3>2
  <2>2. i \in 1 .. N /\ i - 1 \in 0 .. N /\ i - 1 < i /\ i \in DOMAIN s
    BY <1>1, <2>1
  <2>3. CASE i - 1 \in Bad
    BY <2>2, <2>3
  <2>4. CASE i - 1 \notin Bad
    <3>1. kept[i - 1] \in Seq(SourceRecord) /\ Survive(kept[i - 1], s, i - 1)
      BY <2>2, <2>4
    <3> DEFINE t == kept[i - 1]
    <3> HIDE DEF t, stays, Bad
    <3>2. /\ Survive(Append(t, s[i]), s, i) /\ Append(t, s[i]) \in Seq(SourceRecord)
          /\ ~(s[i].reserved > 0) => Survive(t, s, i)
      BY <2>2, <3>1, SurviveOne DEF t
    <3>3. kept[i] = Append(t, s[i]) \/ (~stays(i) /\ kept[i] = t)
      BY <1>10, <2>2 DEF t
    <3>4. ~stays(i) => ~(s[i].reserved > 0)
      BY DEF stays
    <3>5. kept[i] \in Seq(SourceRecord) /\ Survive(kept[i], s, i)
      BY <3>1, <3>2, <3>3, <3>4 DEF t
    <3> QED BY <3>5 DEF Bad
  <2> QED BY <2>3, <2>4
<1>12. Bad = {}
  <2> HIDE DEF Bad
  <2>1. Bad \in SUBSET (0 .. N)
    BY DEF Bad
  <2> HIDE DEF N
  <2> QED BY <1>1, <1>11, <2>1, NoneBadUpTo
<1>13. N \in 0 .. N
  BY <1>1
<1> HIDE DEF N
<1> QED BY <1>2, <1>12, <1>13 DEF N

\* Spent sites go, and no worker was on the way to one of them (world.cpp:544-551).
LEMMA RetiredHolds ==
  ASSUME NEW w, WorldInv(w)
  PROVE  WorldInv(Retired(w))
<1> DEFINE s == w.sources
           t == Lasting(s)
           v == [w EXCEPT !.sources = t]
           ant == w.ants[Forager]
<1>1. w \in WorldRecord /\ s \in Seq(SourceRecord) /\ IdsDiffer(s) /\ ClaimsHold(s, ant)
  BY Fields DEF WorldInv, CrewHolds
<1>2. t \in Seq(SourceRecord) /\ Survive(t, s, Len(s)) /\ DOMAIN s = 1 .. Len(s)
  BY <1>1, LastingIs, SitesAre
<1>3. Retired(w) = v
  BY DEF Retired
<1> HIDE DEF s, t
<1>4. v \in WorldRecord /\ v.sources = t /\ Frame(w, v, {"sources"})
  BY <1>1, <1>2 DEF WorldRecord, Frame
<1> HIDE DEF v
<1>5. ClaimsHold(t, ant)
  <2>1. ASSUME NEW j \in DOMAIN t
        PROVE  t[j].reserved = Due(ant, t[j].id) /\ t[j].reserved <= t[j].amount
    BY <1>1, <1>2 DEF Survive, ClaimsHold
  <2>2. ASSUME ant.reserved > 0 PROVE \E j \in DOMAIN t : t[j].id = ant.source
    <3>1. PICK i \in DOMAIN s : s[i].id = ant.source
      BY <1>1, <2>2 DEF ClaimsHold
    <3>2. s[i].reserved = ant.reserved
      BY <1>1, <3>1 DEF ClaimsHold, Due
    <3> QED BY <1>2, <2>2, <3>1, <3>2 DEF Survive
  <2> QED BY <2>1, <2>2 DEF ClaimsHold
<1>6. v.ants = w.ants /\ v.carried = w.carried
  BY <1>1, <1>4, WorldDomain DEF Frame
<1>7. CrewHolds(v)
  BY <1>2, <1>4, <1>5, <1>6 DEF WorldInv, CrewHolds, ForagerHolds, Survive
<1>8. LandHolds(v) /\ LifeHolds(v)
  BY <1>1, <1>4, LandKept, LifeKept DEF WorldInv, Frame
<1> QED BY <1>3, <1>4, <1>7, <1>8 DEF WorldInv

\* More store cells hold no less.
LEMMA RoomGrows ==
  ASSUME NEW D \in SUBSET LaterRooms, NEW E \in SUBSET D
  PROVE  /\ Cardinality(D) * Grains \in Nat /\ Cardinality(E) * Grains \in Nat
         /\ Cardinality(E) * Grains <= Cardinality(D) * Grains
<1>1. IsFiniteSet(D) /\ IsFiniteSet(E)
  BY Strip, FS_Subset
<1>2. Cardinality(D) \in Nat /\ Cardinality(E) \in Nat /\ Cardinality(E) <= Cardinality(D)
  BY <1>1, FS_CardinalityType, FS_Subset
<1>3. Grains \in Nat
  BY Strip
<1> QED BY <1>2, <1>3

\* Zones are computed, and only then another room is planned (world.cpp:572-594).
LEMMA PlannedHolds ==
  ASSUME NEW w, WorldInv(w)
  PROVE  WorldInv(Planned(w))
<1> DEFINE r == RefreshedZones(w)
           u == IF ZonesCurrent(w) THEN w ELSE r
           v == [u EXCEPT !.rooms = LaterRooms]
<1>1. w \in WorldRecord
  BY DEF WorldInv
<1>2. /\ w.revision \in Nat \ {0} /\ w.rooms \in {FoundingRooms, LaterRooms}
      /\ w.rooms \subseteq LaterRooms /\ w.open \in SUBSET Cells /\ w.heaps \in HeapRecord
      /\ w.zones \subseteq Zones(w) /\ Stored(w) <= Capacity(w)
  BY <1>1, Fields DEF WorldInv, LandHolds, ZonesHold
<1>3. WorldInv(r) /\ ZonesCurrent(r)
  <2> DEFINE Z == Zones(w)
             stamp == <<w.revision, w.rooms>>
  <2>1. Z \in SUBSET LaterRooms /\ stamp \in Nat \X {FoundingRooms, LaterRooms}
    BY <1>2 DEF Zones
  <2>2. r = [w EXCEPT !.zones = Z, !.zoned = stamp]
    BY DEF RefreshedZones
  <2> HIDE DEF r, Z, stamp
  <2>3. /\ r \in WorldRecord /\ r.zones = Z /\ r.zoned = stamp
        /\ Frame(w, r, {"zones", "zoned"})
    BY <1>1, <2>1, <2>2 DEF WorldRecord, Frame
  <2>4. r.open = w.open /\ r.revision = w.revision /\ r.rooms = w.rooms /\ r.heaps = w.heaps
    BY <1>1, <2>3, WorldDomain DEF Frame
  <2>5. r.zones = Zones(r) /\ ZonesCurrent(r) /\ r.zoned[1] = w.revision
    BY <2>3, <2>4 DEF ZonesCurrent, Zones, Z, stamp
  <2>6. Stored(r) <= Capacity(r)
    <3>1. /\ Cardinality(Z) * Grains \in Nat /\ Cardinality(w.zones) * Grains \in Nat
          /\ Cardinality(w.zones) * Grains <= Cardinality(Z) * Grains
      BY <1>2, <2>1, RoomGrows DEF Z
    <3>2. Stored(r) = Stored(w) /\ Stored(w) \in Nat
      BY <1>2, <2>4, HeapsAre DEF Stored
    <3> QED BY <1>2, <2>3, <3>1, <3>2 DEF Capacity
  <2>7. LandHolds(r)
    BY <1>2, <2>4, <2>5, <2>6 DEF WorldInv, LandHolds, GroundHolds, ZonesHold
  <2>8. CrewHolds(r) /\ LifeHolds(r)
    BY <1>1, <2>3, CrewKept, LifeKept DEF WorldInv, Frame
  <2> QED BY <2>3, <2>5, <2>7, <2>8 DEF WorldInv
<1> HIDE DEF r
<1>4. WorldInv(u) /\ ZonesCurrent(u)
  BY <1>3
<1>5. Planned(w) = u \/ Planned(w) = v
  BY DEF Planned, r
<1> HIDE DEF u
<1>6. /\ u \in WorldRecord /\ u.zones = Zones(u) /\ u.zoned = <<u.revision, u.rooms>>
      /\ u.rooms \subseteq LaterRooms
  BY <1>4, Fields DEF WorldInv, LandHolds, ZonesHold, ZonesCurrent
<1>7. v \in WorldRecord /\ v.rooms = LaterRooms /\ Frame(u, v, {"rooms"})
  BY <1>6 DEF WorldRecord, Frame
<1> HIDE DEF v
<1>8. /\ v.open = u.open /\ v.revision = u.revision /\ v.heaps = u.heaps /\ v.zones = u.zones
      /\ v.zoned = u.zoned
  BY <1>6, <1>7, WorldDomain DEF Frame
<1>9. v.zones \subseteq Zones(v) /\ (ZonesCurrent(v) => v.zones = Zones(v))
  <2>1. v.zones \subseteq Zones(v)
    BY <1>6, <1>7, <1>8 DEF Zones
  <2>2. ZonesCurrent(v) => u.rooms = LaterRooms
    BY <1>6, <1>7, <1>8 DEF ZonesCurrent
  <2>3. u.rooms = LaterRooms => Zones(v) = Zones(u)
    BY <1>7, <1>8 DEF Zones
  <2> QED BY <1>6, <1>8, <2>1, <2>2, <2>3
<1>10. LandHolds(v)
  BY <1>4, <1>8, <1>9 DEF WorldInv, LandHolds, GroundHolds, ZonesHold, Stored, Capacity
<1>11. CrewHolds(v) /\ LifeHolds(v)
  BY <1>4, <1>6, <1>7, CrewKept, LifeKept DEF WorldInv, Frame
<1>12. WorldInv(v)
  BY <1>7, <1>10, <1>11 DEF WorldInv
<1> QED BY <1>4, <1>5, <1>12

\* The beginning of a tick (world.cpp:544-551).
LEMMA BeginTickHolds == SavedInv /\ BeginTick => SavedInv'
<1> SUFFICES ASSUME SavedInv, BeginTick PROVE SavedInv'
  OBVIOUS
<1>1. WorldInv(world) /\ turn' = 1
  BY DEF SavedInv, BeginTick, Forager
<1> DEFINE u == Retired(world)
<1>2. WorldInv(u)
  BY <1>1, RetiredHolds
<1>3. world' = Planned(u) \/ world' = u
  BY DEF BeginTick
<1> HIDE DEF u
<1>4. WorldInv(world')
  BY <1>2, <1>3, PlannedHolds
<1>5. WorldInv(world)'
  BY <1>4 DEF WorldInv, LandHolds, CrewHolds, LifeHolds, GroundHolds, ZonesHold, ZonesCurrent, Zones,
     Stored, Capacity, ForagerHolds
<1> QED BY <1>1, <1>5 DEF SavedInv

-----------------------------------------------------------------------------
(* The founding, and the player's commands *)

\* A new colony is in order (world.cpp:36-60).
LEMMA FoundedHolds == WorldInv(Founded) /\ Founded.worked = 0
<1> DEFINE w == Founded
           r == 1 + Cardinality(FoundingAir)
           zones == Joined(FoundingAir \cap Nest) \cap FoundingRooms
           heaps == StockedHeaps(zones, Cardinality(zones) * Grains)
           traits == [vigor |-> 0, industry |-> IndustryTier]
           brood == << [role |-> "Gyne"] >>
           ants == [a \in Workers |-> NewAnt]
           trails0 == Trails!Untrodden
<1>1. FoundingAir \in SUBSET Cells /\ Turf \subseteq FoundingAir /\ r \in Nat \ {0}
  <2>1. FoundingAir \in SUBSET Cells /\ Turf \subseteq FoundingAir /\ IsFiniteSet(FoundingAir)
    BY SavedRunAssumption, FS_Subset
  <2>2. Cardinality(FoundingAir) \in Nat
    BY <2>1, FS_CardinalityType
  <2> QED BY <2>1, <2>2
<1>2. zones \in SUBSET LaterRooms /\ zones \subseteq FoundingAir
  BY <1>1, Strip, ZonesOpen
<1>3. Cardinality(zones) * Grains \in Nat
  BY <1>2, RoomGrows
<1>4. /\ heaps \in HeapRecord /\ DOMAIN heaps = zones
      /\ TotalOf(heaps) <= Cardinality(zones) * Grains
  BY <1>2, <1>3, StockFits
<1>5. Sites \in Seq(SourceRecord) /\ IdsDiffer(Sites) /\ \A i \in DOMAIN Sites : Sites[i].reserved = 0
  <2> DEFINE New == [id : Nat \ {0}, at : Turf, amount : Nat, reserved : {0}, known : BOOLEAN]
  <2>1. Sites \in Seq(New) /\ IdsDiffer(Sites)
    BY SavedRunAssumption DEF IdsDiffer
  <2>2. \A s \in New : s \in SourceRecord /\ s.reserved = 0
    BY DEF SourceRecord
  <2> HIDE DEF New
  <2>3. /\ Len(Sites) \in Nat /\ Sites \in [1 .. Len(Sites) -> New]
        /\ DOMAIN Sites = 1 .. Len(Sites)
    BY <2>1, LenProperties
  <2>4. Sites \in [1 .. Len(Sites) -> SourceRecord]
    BY <2>2, <2>3
  <2> QED BY <2>1, <2>2, <2>3, <2>4, SeqDef
<1>6. traits \in [vigor : 0 .. MaxTier, industry : 0 .. MaxTier] /\ brood \in Broods
  <2>1. [role |-> "Gyne"] \in [role : {"Gyne", "Worker"}]
    OBVIOUS
  <2> QED BY <2>1, SessionAssumption DEF MaxTier, Broods
<1>7. NewAnt \in AntRecord
  <2>1. <<>> \in Seq(Turf)
    OBVIOUS
  <2> QED BY <2>1, Strip DEF NewAnt, AntRecord
<1>8. trails0 \in TrailRecord /\ Tidy(trails0)
  BY TrailsAgree, UntroddenTidy DEF Tidy, TrailRecord
<1>9. ants \in [Workers -> AntRecord] /\ ants[Forager] = NewAnt /\ ants[Digger] = NewAnt
  BY <1>7 DEF Workers
<1>10. w = [open |-> FoundingAir, revision |-> r, rooms |-> FoundingRooms, passages |-> {},
            zones |-> zones, zoned |-> <<r, FoundingRooms>>, sources |-> Sites,
            heaps |-> heaps, carried |-> 0, worked |-> 0, trails |-> trails0, mature |-> TRUE,
            eggs |-> 1, brood |-> brood, traits |-> traits, ants |-> ants]
  BY DEF Founded
<1> HIDE DEF w, r, zones, heaps, traits, brood, ants, trails0
<1>11. w \in WorldRecord
  BY <1>1, <1>2, <1>4, <1>5, <1>6, <1>8, <1>9, <1>10 DEF WorldRecord
<1>12. LandHolds(w)
  <2>1. Zones(w) = zones
    BY <1>10 DEF Zones, zones
  <2>2. /\ w.open = FoundingAir /\ w.heaps = heaps /\ w.zones = zones /\ w.revision = r
        /\ w.zoned[1] = r
    BY <1>10
  <2> QED BY <1>1, <1>2, <1>4, <2>1, <2>2 DEF LandHolds, GroundHolds, ZonesHold, Stored, Capacity
<1>13. CrewHolds(w)
  <2>1. /\ w.sources = Sites /\ w.carried = 0 /\ w.ants[Forager] = NewAnt
        /\ w.ants[Digger] = NewAnt
    BY <1>9, <1>10
  <2>2. ClaimsHold(Sites, NewAnt)
    <3>1. \A i \in DOMAIN Sites : Sites[i].amount \in Nat
      BY <1>5, SitesAre, SiteFields
    <3> QED BY <1>5, <3>1 DEF ClaimsHold, Due, NewAnt
  <2> QED BY <1>5, <2>1, <2>2 DEF CrewHolds, ForagerHolds, DiggerHolds, NewAnt
<1>14. LifeHolds(w) /\ w.worked = 0
  BY <1>8, <1>10 DEF LifeHolds
<1> QED BY <1>11, <1>12, <1>13, <1>14 DEF WorldInv, w

\* A colony of two workers.
LEMMA TwoWorkers == IsFiniteSet(Workers) /\ Cardinality(Workers) = 2
<1>1. IsFiniteSet({Forager}) /\ Cardinality({Forager}) = 1
  BY ONLY FS_Singleton
<1>2. Digger \notin {Forager} /\ Workers = {Forager} \cup {Digger}
  BY DEF Workers, Forager, Digger
<1>3. /\ IsFiniteSet({Forager} \cup {Digger})
      /\ Cardinality({Forager} \cup {Digger}) = Cardinality({Forager}) + 1
  BY ONLY <1>1, <1>2, FS_AddElement
<1> QED BY <1>1, <1>2, <1>3

\* A run starts in order.
LEMMA RunStarts == InitRun => SavedInv /\ IInv
<1> SUFFICES ASSUME InitRun PROVE SavedInv /\ IInv
  OBVIOUS
<1>1. SavedInv
  BY FoundedHolds DEF InitRun, SavedInv
<1>2. Cardinality(Workers) = 2
  BY TwoWorkers
<1>3. NewSession \in SessionRecord
  BY DEF NewSession, SessionRecord, None, LevelRecord, FocusSet, MaxLevel
<1>4. /\ run = [NewSession EXCEPT !.crew = 2] /\ booked = [spent |-> 0, granted |-> 0]
  BY <1>2 DEF InitRun
<1>5. SessionTypeOK
  <2>1. run \in SessionRecord
    BY <1>3, <1>4 DEF SessionRecord
  <2> QED BY <1>4, <2>1 DEF SessionTypeOK
<1>6. /\ run.work = 0 /\ run.remainder = 0 /\ run.accounted = 0 /\ run.productive = 0
      /\ run.levels = None /\ run.adaptation = None
  BY <1>4 DEF NewSession
<1>7. WorkBalances /\ CountersHold(run)
  <2>1. Block \in Nat \ {0} /\ booked.spent = 0 /\ booked.granted = 0
    BY <1>4, SessionAssumption
  <2>2. (0 + 0 - 0) * Block + 0 = 0
    BY <2>1
  <2> QED BY <1>6, <2>1, <2>2 DEF WorkBalances, CountersHold, None, MaxLevel
<1> QED BY <1>1, <1>5, <1>7 DEF IInv

\* What the player does leaves the world alone, and keeps the session's accounts.
LEMMA CommandHolds == SavedInv /\ IInv /\ Command => SavedInv' /\ IInv'
<1> SUFFICES ASSUME SavedInv, IInv, Command PROVE SavedInv' /\ IInv'
  OBVIOUS
<1>1. turn' = turn /\ world' = world
  BY DEF Command
<1>2. SavedInv'
  BY <1>1 DEF SavedInv, WorldInv, LandHolds, CrewHolds, LifeHolds, GroundHolds, ZonesHold,
              ZonesCurrent, Zones, Stored, Capacity, ForagerHolds
<1>3. NextSession
  BY DEF Command, NextSession
<1> QED BY <1>2, <1>3, NextHolds

\* A tick's productive turns are paid for.
LEMMA TickPaid == SavedInv /\ IInv /\ EndTick => IInv'
<1> SUFFICES ASSUME SavedInv, IInv, EndTick PROVE IInv'
  OBVIOUS
<1>1. world.worked \in Nat
  BY Fields DEF SavedInv, WorldInv
<1>2. Cardinality(Workers) = 2
  BY TwoWorkers
<1>3. Step(world.worked, 2)
  BY <1>2 DEF EndTick
<1> QED BY <1>1, <1>3, StepHolds

-----------------------------------------------------------------------------
(* Documents *)

SavedAntRecord ==
  [at : Turf, cargo : {"None", "Food", "Spoil"}, amount : Nat,
   state : {"AtHome", "ToSource", "Returning", "Storing"}, source : Nat, reserved : Nat,
   path : Seq(Turf), valid : BOOLEAN]
RunFields ==
  {"open", "rooms", "passages", "sources", "heaps", "stored", "trails", "mature", "eggs", "brood",
   "traits", "session", "ants"}

\* What a document says of life in the nest.
LifeSaved(d) ==
  /\ d.mature \in BOOLEAN /\ d.eggs \in Nat /\ (d.mature \/ d.eggs = 0) /\ d.brood \in Broods
  /\ d.traits \in [vigor : 0 .. MaxTier, industry : 0 .. MaxTier]

\* Sites as they were, but for what is known of them.
SameSites(s, t) ==
  /\ s \in Seq(SourceRecord) /\ t \in Seq(SourceRecord) /\ DOMAIN t = DOMAIN s
  /\ \A i \in DOMAIN s : t[i].id = s[i].id /\ t[i].at = s[i].at /\ t[i].amount = s[i].amount
                         /\ t[i].reserved = s[i].reserved

\* A worker as it was, but for a site it names without a claim on it.
SameWorker(a, b) ==
  /\ a \in SavedAntRecord /\ b \in SavedAntRecord /\ Frame(a, b, {"source"})
  /\ a.reserved > 0 \/ a.source = 0 => b.source = a.source

\* The run a document holds, read again from whichever version wrote it.
Alike(r, d) ==
  /\ DOMAIN d = RunFields /\ LifeSaved(d)
  /\ \A n \in {"open", "heaps", "stored", "trails", "session"} : d[n] = r[n]
  /\ d.passages = {} /\ d.rooms \in {FoundingRooms, LaterRooms}
  /\ SameSites(r.sources, d.sources)
  /\ DOMAIN d.ants = Workers /\ \A a \in Workers : SameWorker(r.ants[a], d.ants[a])

\* A run as its document has it.
IsSaved(r) ==
  /\ DOMAIN r = RunFields /\ LifeSaved(r) /\ r.passages = {}
  /\ r = [n \in RunFields |-> r[n]]
  /\ r.rooms \in {FoundingRooms, LaterRooms} /\ r.sources \in Seq(SourceRecord)
  /\ IdsDiffer(r.sources) /\ r.ants \in [Workers -> SavedAntRecord]
  /\ \A a \in Workers : r.ants[a].reserved > 0 =>
       \E i \in DOMAIN r.sources : r.sources[i].id = r.ants[a].source

\* What a worker's record is in a document.
LEMMA SavedAntFields ==
  ASSUME NEW a \in SavedAntRecord
  PROVE  /\ a.at \in Turf /\ a.cargo \in {"None", "Food", "Spoil"} /\ a.amount \in Nat
         /\ a.state \in {"AtHome", "ToSource", "Returning", "Storing"} /\ a.source \in Nat
         /\ a.reserved \in Nat /\ a.path \in Seq(Turf) /\ a.valid \in BOOLEAN
         /\ DOMAIN a = {"at", "cargo", "amount", "state", "source", "reserved", "path", "valid"}
         /\ a = [n \in DOMAIN a |-> a[n]]
BY DEF SavedAntRecord

\* A worker is saved with the word whether its route is current (world.cpp:1276).
LEMMA AntSaved ==
  ASSUME NEW w, WorldInv(w), NEW a \in Workers
  PROVE  /\ SavedAnt(w, a) \in SavedAntRecord
         /\ Frame(SavedAnt(w, a), w.ants[a], {"valid"})
         /\ SavedAnt(w, a).valid = Fresh(w, a)
<1> DEFINE ant == w.ants[a]
           fresh == Fresh(w, a)
           less == Unroutable(ant)
           more == [valid |-> fresh]
<1>1. ant \in AntRecord
  BY Fields DEF WorldInv
<1>2. fresh \in BOOLEAN
  BY DEF Fresh
<1> HIDE DEF fresh, ant
<1>3. /\ DOMAIN less = {"at", "cargo", "amount", "state", "source", "reserved", "path"}
      /\ \A n \in DOMAIN less : less[n] = ant[n]
  BY <1>1, AntFields DEF Unroutable, Lacking
<1>4. SavedAnt(w, a) = Having(less, more)
  BY DEF SavedAnt, ant, fresh
<1> HIDE DEF less
<1>5. /\ DOMAIN Having(less, more) = DOMAIN less \cup {"valid"}
      /\ \A n \in DOMAIN less : Having(less, more)[n] = ant[n]
      /\ Having(less, more)["valid"] = fresh
      /\ Having(less, more) = [n \in DOMAIN less \cup {"valid"} |-> Having(less, more)[n]]
  BY <1>3 DEF Having
<1> DEFINE b == Having(less, more)
<1> HIDE DEF b, more
<1>6. b = [at |-> ant.at, cargo |-> ant.cargo, amount |-> ant.amount, state |-> ant.state,
           source |-> ant.source, reserved |-> ant.reserved, path |-> ant.path, valid |-> fresh]
  BY <1>3, <1>5 DEF b
<1>7. b \in SavedAntRecord
  BY <1>1, <1>2, <1>6, AntFields DEF SavedAntRecord
<1>8. Frame(b, ant, {"valid"}) /\ b.valid = fresh
  BY <1>6 DEF Frame
<1> QED BY <1>4, <1>7, <1>8 DEF b, ant, fresh

\* The document of a world.
LEMMA RunSaved ==
  ASSUME NEW w, WorldInv(w), NEW s
  PROVE  IsSaved(Saved(w, s))
<1> DEFINE r == Saved(w, s)
           ants == [a \in Workers |-> SavedAnt(w, a)]
<1>1. w \in WorldRecord
  BY DEF WorldInv
<1>2. r = [open |-> w.open, rooms |-> w.rooms, passages |-> w.passages, sources |-> w.sources,
           heaps |-> w.heaps, stored |-> Stored(w), trails |-> w.trails.front,
           mature |-> w.mature, eggs |-> w.eggs, brood |-> w.brood, traits |-> w.traits,
           session |-> s, ants |-> ants]
  BY DEF Saved
<1>3. ants \in [Workers -> SavedAntRecord]
  BY AntSaved
<1> HIDE DEF r, ants
<1>4. DOMAIN r = RunFields /\ r = [n \in RunFields |-> r[n]]
  BY <1>2 DEF RunFields
<1>5. /\ r.passages = w.passages /\ r.rooms = w.rooms /\ r.sources = w.sources /\ r.ants = ants
      /\ r.mature = w.mature /\ r.eggs = w.eggs /\ r.brood = w.brood /\ r.traits = w.traits
  BY <1>2
<1>6. LifeSaved(r)
  BY <1>1, <1>5, Fields DEF LifeSaved, WorldInv, LifeHolds
<1>7. ASSUME NEW a \in Workers, r.ants[a].reserved > 0
      PROVE  \E i \in DOMAIN r.sources : r.sources[i].id = r.ants[a].source
  <2>1. /\ SavedAnt(w, a) \in SavedAntRecord /\ Frame(SavedAnt(w, a), w.ants[a], {"valid"})
        /\ r.ants[a] = SavedAnt(w, a)
    BY <1>5, AntSaved DEF ants
  <2>2. w.ants[a].reserved = r.ants[a].reserved /\ w.ants[a].source = r.ants[a].source
    BY <2>1, SavedAntFields DEF Frame
  <2>3. w.ants[a].reserved > 0
    BY <1>7, <2>2
  <2>4. a = Forager
    BY <2>3 DEF WorldInv, CrewHolds, DiggerHolds, Workers
  <2> QED BY <1>5, <2>2, <2>3, <2>4 DEF WorldInv, CrewHolds, ClaimsHold
<1>8. w.passages = {} /\ w.rooms \in {FoundingRooms, LaterRooms} /\ w.sources \in Seq(SourceRecord)
  BY <1>1, Fields
<1>9. IdsDiffer(w.sources)
  BY DEF WorldInv, CrewHolds
<1> QED BY <1>3, <1>4, <1>5, <1>6, <1>7, <1>8, <1>9 DEF IsSaved, r

\* A document of this version or the last one is read as it was (profile_codec.cpp:369-401).
LEMMA Passable ==
  ASSUME NEW r, IsSaved(r)
  PROVE  Having(Lacking(r, {"passages"}), [passages |-> {}]) = r
<1> DEFINE d == Having(Lacking(r, {"passages"}), [passages |-> {}])
<1>1. DOMAIN Lacking(r, {"passages"}) = RunFields \ {"passages"}
  BY DEF IsSaved, Lacking
<1>2. \A n \in RunFields \ {"passages"} : Lacking(r, {"passages"})[n] = r[n]
  BY DEF IsSaved, Lacking
<1>3. DOMAIN d = RunFields /\ d = [n \in RunFields |-> d[n]]
  BY <1>1 DEF Having, RunFields
<1>4. ASSUME NEW n \in RunFields PROVE d[n] = r[n]
  <2>1. CASE n = "passages"
    BY <1>1, <2>1 DEF Having, IsSaved
  <2>2. CASE n # "passages"
    BY <1>1, <1>2, <2>2 DEF Having
  <2> QED BY <2>1, <2>2
<1> HIDE DEF d
<1>5. r = [n \in RunFields |-> r[n]]
  BY DEF IsSaved
<1> QED BY <1>3, <1>4, <1>5 DEF d

\* A run is like itself.
LEMMA SavedIsAlike ==
  ASSUME NEW r, IsSaved(r)
  PROVE  Alike(r, r)
<1>1. SameSites(r.sources, r.sources)
  BY DEF IsSaved, SameSites
<1>2. \A a \in Workers : SameWorker(r.ants[a], r.ants[a])
  BY DEF IsSaved, SameWorker, Frame
<1> QED BY <1>1, <1>2 DEF IsSaved, Alike

\* A worker that named its site by place and is given its id again (profile_codec.cpp:325-345).
LEMMA AntRenamed ==
  ASSUME NEW r, IsSaved(r), NEW a \in Workers, NEW old, old.sources = r.sources,
         NEW new, DOMAIN new.sources = DOMAIN r.sources, Len(new.sources) = Len(r.sources),
         \A i \in DOMAIN r.sources : new.sources[i].id = r.sources[i].id
  PROVE  SameWorker(r.ants[a], ById(new, ByPlace(old, r.ants[a])))
<1> DEFINE ant == r.ants[a]
           place == IndexOf(r.sources, ant.source)
           less == Lacking(ant, {"source"})
           byPlace == ByPlace(old, ant)
           id == IF place \in 0 .. Len(new.sources) - 1 THEN new.sources[place + 1].id ELSE 0
           b == ById(new, byPlace)
<1>1. /\ ant \in SavedAntRecord /\ r.sources \in Seq(SourceRecord) /\ IdsDiffer(r.sources)
      /\ ant.reserved > 0 => \E i \in DOMAIN r.sources : r.sources[i].id = ant.source
  BY DEF IsSaved
<1>2. /\ Len(r.sources) \in Nat /\ DOMAIN r.sources = 1 .. Len(r.sources)
      /\ \A i \in DOMAIN r.sources : r.sources[i] \in SourceRecord
  BY <1>1, SitesAre
<1>3. /\ \A i \in DOMAIN r.sources : r.sources[i].id = ant.source => place = i - 1
      /\ (\A i \in DOMAIN r.sources : r.sources[i].id # ant.source) => place = -1
  <2>1. /\ \A i \in 1 .. Len(r.sources) : r.sources[i].id = ant.source => place = i - 1
        /\ (\A i \in 1 .. Len(r.sources) : r.sources[i].id # ant.source) => place = -1
    BY <1>1, <1>2, Found
  <2> QED BY <1>2, <2>1
<1>4. /\ byPlace = Having(less, [index |-> place])
      /\ b = Having(Lacking(byPlace, {"index"}),
                    [source |-> IF byPlace.index \in 0 .. Len(new.sources) - 1
                                THEN new.sources[byPlace.index + 1].id ELSE 0])
  BY DEF ByPlace, ById
<1> HIDE DEF ant, place, b, byPlace
<1>5. /\ DOMAIN less = {"at", "cargo", "amount", "state", "reserved", "path", "valid"}
      /\ \A n \in DOMAIN less : less[n] = ant[n]
  BY <1>1, SavedAntFields DEF Lacking
<1> HIDE DEF less
<1>6. /\ DOMAIN byPlace = DOMAIN less \cup {"index"} /\ byPlace.index = place
      /\ \A n \in DOMAIN less : byPlace[n] = ant[n]
  BY <1>4, <1>5 DEF Having
<1>7. b = Having(Lacking(byPlace, {"index"}), [source |-> id])
  BY <1>4, <1>6
<1> HIDE DEF id
<1>8. /\ DOMAIN Lacking(byPlace, {"index"}) = DOMAIN less
      /\ \A n \in DOMAIN less : Lacking(byPlace, {"index"})[n] = ant[n]
  BY <1>5, <1>6 DEF Lacking
<1>9. /\ DOMAIN b = DOMAIN less \cup {"source"} /\ b = [n \in DOMAIN b |-> b[n]]
      /\ b["source"] = id /\ \A n \in DOMAIN less : b[n] = ant[n]
  BY <1>5, <1>7, <1>8 DEF Having
<1>10. b = [at |-> ant.at, cargo |-> ant.cargo, amount |-> ant.amount, state |-> ant.state,
            source |-> id, reserved |-> ant.reserved, path |-> ant.path, valid |-> ant.valid]
  BY <1>5, <1>9
<1>11. id \in Nat /\ (ant.source = 0 => id = 0) /\ (ant.reserved > 0 => id = ant.source)
  <2>1. CASE \E i \in DOMAIN r.sources : r.sources[i].id = ant.source
    <3>1. PICK i \in DOMAIN r.sources : r.sources[i].id = ant.source
      BY <2>1
    <3>2. place = i - 1 /\ i \in 1 .. Len(r.sources) /\ new.sources[i].id = ant.source
      BY <1>2, <1>3, <3>1
    <3>3. place \in 0 .. Len(new.sources) - 1 /\ place + 1 = i
      BY <1>2, <3>2
    <3>4. id = ant.source
      BY <3>2, <3>3 DEF id
    <3> QED BY <1>1, <3>4, SavedAntFields
  <2>2. CASE ~\E i \in DOMAIN r.sources : r.sources[i].id = ant.source
    <3>1. place = -1 /\ ~(ant.reserved > 0)
      BY <1>1, <1>3, <2>2
    <3>2. ~(place \in 0 .. Len(new.sources) - 1)
      BY <3>1
    <3>3. id = 0
      BY <3>2 DEF id
    <3> QED BY <3>1, <3>3
  <2> QED BY <2>1, <2>2
<1>12. b \in SavedAntRecord
  BY <1>1, <1>10, <1>11, SavedAntFields DEF SavedAntRecord
<1>13. Frame(ant, b, {"source"}) /\ b.source = id
  BY <1>1, <1>10, SavedAntFields DEF Frame
<1> QED BY <1>1, <1>11, <1>12, <1>13 DEF SameWorker, ant, b, byPlace

\* The part of a run the oldest documents hold (profile_codec.cpp:303-345).
OldFields ==
  {"open", "sources", "heaps", "stored", "trails", "mature", "eggs", "brood", "traits", "session",
   "ants"}
Aged(r, b) ==
  /\ DOMAIN b = OldFields /\ LifeSaved(b)
  /\ \A n \in {"open", "heaps", "stored", "trails", "session"} : b[n] = r[n]
  /\ b.sources = [i \in DOMAIN r.sources |-> Lacking(r.sources[i], {"known"})]
  /\ DOMAIN b.ants = Workers
  /\ \A a \in Workers : \E old : old.sources = r.sources /\ b.ants[a] = ByPlace(old, r.ants[a])

\* A document from before rooms, sites by place and sites that are known.
LEMMA AgedIs ==
  ASSUME NEW r, IsSaved(r)
  PROVE  Aged(r, BeforeRooms(Lacking(r, {"passages"})))
<1> DEFINE v3 == Lacking(r, {"passages"})
           less == Lacking(v3, {"rooms"})
           b == BeforeRooms(v3)
<1>1. /\ DOMAIN v3 = RunFields \ {"passages"}
      /\ \A n \in RunFields \ {"passages"} : v3[n] = r[n]
  BY DEF IsSaved, Lacking
<1> HIDE DEF v3
<1>2. DOMAIN less = OldFields /\ \A n \in OldFields : less[n] = r[n]
  BY <1>1 DEF Lacking, RunFields, OldFields
<1>3. b = [less EXCEPT !.sources = [i \in DOMAIN less.sources |-> Lacking(less.sources[i], {"known"})],
                       !.ants = [a \in DOMAIN less.ants |-> ByPlace(v3, less.ants[a])]]
  BY DEF BeforeRooms
<1> HIDE DEF less, b
<1>4. /\ less.sources = r.sources /\ less.ants = r.ants /\ v3.sources = r.sources
      /\ DOMAIN r.ants = Workers
  BY <1>1, <1>2 DEF OldFields, RunFields, IsSaved
<1> DEFINE sources == [i \in DOMAIN r.sources |-> Lacking(r.sources[i], {"known"})]
           ants == [a \in Workers |-> ByPlace(v3, r.ants[a])]
<1>5. b = [less EXCEPT !.sources = sources, !.ants = ants]
  BY <1>3, <1>4
<1> HIDE DEF sources, ants
<1>6. /\ DOMAIN b = OldFields /\ b.sources = sources /\ b.ants = ants
      /\ \A n \in OldFields \ {"sources", "ants"} : b[n] = r[n]
  BY <1>2, <1>5 DEF OldFields
<1>7. LifeSaved(b)
  <2>1. /\ b.mature = r.mature /\ b.eggs = r.eggs /\ b.brood = r.brood /\ b.traits = r.traits
    BY <1>6 DEF OldFields
  <2> QED BY <2>1 DEF IsSaved, LifeSaved
<1>8. DOMAIN b.ants = Workers /\ \A a \in Workers : b.ants[a] = ByPlace(v3, r.ants[a])
  BY <1>6 DEF ants
<1>9. \A n \in {"open", "heaps", "stored", "trails", "session"} : b[n] = r[n]
  BY <1>6 DEF OldFields
<1> QED BY <1>4, <1>6, <1>7, <1>8, <1>9 DEF Aged, b, v3, sources

\* A document from before traits and castes, brought up to the second version.
LEMMA AgedWithoutTraits ==
  ASSUME NEW r, NEW b, Aged(r, b)
  PROVE  Aged(r, Traited(BeforeTraits(b)))
<1> DEFINE less == Lacking(b, {"traits", "mature", "eggs"})
           bare == [i \in DOMAIN b.brood |-> Lacking(b.brood[i], {"role"})]
           c == BeforeTraits(b)
           brood == [i \in DOMAIN c.brood |-> Having(c.brood[i], [role |-> "Worker"])]
           more == [traits |-> Untiered, mature |-> FALSE, eggs |-> 0, brood |-> brood]
           d == Traited(c)
<1>1. DOMAIN b = OldFields /\ b.brood \in Broods
  BY DEF Aged, LifeSaved
<1>2. /\ DOMAIN less = OldFields \ {"traits", "mature", "eggs"}
      /\ \A n \in DOMAIN less : less[n] = b[n]
  BY <1>1 DEF Lacking
<1>3. c = [less EXCEPT !.brood = bare]
  <2>1. less.brood = b.brood
    BY <1>2 DEF OldFields
  <2>2. c = [less EXCEPT !.brood = [i \in DOMAIN less.brood |-> Lacking(less.brood[i], {"role"})]]
    BY DEF BeforeTraits
  <2> HIDE DEF less, c
  <2> QED BY <2>1, <2>2
<1> HIDE DEF less, c
<1>4. /\ DOMAIN c = OldFields \ {"traits", "mature", "eggs"} /\ c.brood = bare
      /\ \A n \in DOMAIN c \ {"brood"} : c[n] = b[n]
  BY <1>2, <1>3 DEF OldFields
<1>5. DOMAIN bare = 1 .. 1 /\ bare[1] = Lacking(b.brood[1], {"role"})
  BY <1>1 DEF Broods
<1>6. DOMAIN bare[1] = {}
  <2>1. b.brood[1] \in [role : {"Gyne", "Worker"}]
    BY <1>1 DEF Broods
  <2>2. DOMAIN b.brood[1] = {"role"}
    BY <2>1
  <2> QED BY <1>5, <2>2 DEF Lacking
<1> HIDE DEF bare
<1>7. brood \in Broods
  <2>1. brood = [i \in 1 .. 1 |-> Having(bare[i], [role |-> "Worker"])]
    BY <1>4, <1>5
  <2>2. \A i \in 1 .. 1 : i = 1
    OBVIOUS
  <2>3. Having(bare[1], [role |-> "Worker"]) = [role |-> "Worker"]
    BY <1>6 DEF Having
  <2>4. [role |-> "Worker"] \in [role : {"Gyne", "Worker"}]
    OBVIOUS
  <2> HIDE DEF brood
  <2> QED BY <2>1, <2>2, <2>3, <2>4 DEF Broods
<1>8. d = Having(c, more)
  BY DEF Traited
<1> HIDE DEF d, brood
<1>9. /\ DOMAIN d = OldFields /\ d.traits = Untiered /\ d.mature = FALSE /\ d.eggs = 0
      /\ d.brood = brood
      /\ \A n \in OldFields \ {"traits", "mature", "eggs", "brood"} : d[n] = c[n]
  BY <1>4, <1>8 DEF Having, OldFields
<1>10. \A n \in OldFields \ {"traits", "mature", "eggs", "brood"} : d[n] = b[n]
  BY <1>4, <1>9
<1>11. LifeSaved(d)
  <2>1. Untiered \in [vigor : 0 .. MaxTier, industry : 0 .. MaxTier]
    BY DEF Untiered, MaxTier
  <2>2. d.mature \in BOOLEAN /\ d.eggs \in Nat /\ d.eggs = 0
    <3>1. d.mature = FALSE /\ d.eggs = 0
      BY <1>9
    <3>2. d.mature \in BOOLEAN
      BY ONLY <3>1, Zenon
    <3>3. d.eggs \in Nat
      BY ONLY <3>1
    <3> QED BY ONLY <3>1, <3>2, <3>3
  <2>3. d.brood \in Broods /\ d.traits \in [vigor : 0 .. MaxTier, industry : 0 .. MaxTier]
    BY <1>7, <1>9, <2>1
  <2> QED BY <2>2, <2>3 DEF LifeSaved
<1>12. /\ d.sources = b.sources /\ d.ants = b.ants
       /\ \A n \in {"open", "heaps", "stored", "trails", "session"} : d[n] = b[n]
  BY <1>10 DEF OldFields
<1> QED BY <1>9, <1>11, <1>12 DEF Aged, d, c

\* The second migration and the third make an old document a current one (profile_codec.cpp:325-366).
LEMMA AgedMigrates ==
  ASSUME NEW r, IsSaved(r), NEW b, Aged(r, b)
  PROVE  Alike(r, Having(Roomed(b, [a \in DOMAIN b.ants |-> ById(b, b.ants[a])]),
                         [passages |-> {}]))
<1> DEFINE n == Len(r.sources)
           ants == [a \in DOMAIN b.ants |-> ById(b, b.ants[a])]
           sources == [i \in DOMAIN b.sources |-> Known(b.sources[i])]
           more == [rooms |-> FoundingRooms, ants |-> ants, sources |-> sources]
           m == Roomed(b, ants)
           d == Having(m, [passages |-> {}])
<1>1. /\ r.sources \in Seq(SourceRecord) /\ n \in Nat /\ DOMAIN r.sources = 1 .. n
      /\ \A i \in 1 .. n : r.sources[i] \in SourceRecord
  BY SitesAre DEF IsSaved
<1>2. b.sources = [i \in 1 .. n |-> Lacking(r.sources[i], {"known"})] /\ DOMAIN b.ants = Workers
  BY <1>1 DEF Aged
<1>3. Len(b.sources) = n /\ DOMAIN b.sources = 1 .. n
  <2> DEFINE T == {Lacking(r.sources[i], {"known"}) : i \in 1 .. n}
  <2>1. b.sources \in [1 .. n -> T]
    BY <1>2
  <2> HIDE DEF T, n
  <2>2. b.sources \in Seq(T) /\ DOMAIN b.sources = 1 .. n
    BY <1>1, <2>1, SeqDef
  <2> QED BY ONLY <1>1, <2>2, LenProperties
<1>4. ASSUME NEW i \in 1 .. n
      PROVE  /\ b.sources[i].id = r.sources[i].id /\ Known(b.sources[i]) \in SourceRecord
             /\ Known(b.sources[i]).id = r.sources[i].id
             /\ Known(b.sources[i]).at = r.sources[i].at
             /\ Known(b.sources[i]).amount = r.sources[i].amount
             /\ Known(b.sources[i]).reserved = r.sources[i].reserved
  <2> DEFINE s == r.sources[i]
             less == Lacking(s, {"known"})
             k == Known(b.sources[i])
  <2>1. s \in SourceRecord /\ b.sources[i] = less
    BY <1>1, <1>2
  <2> HIDE DEF s
  <2>2. DOMAIN less = {"id", "at", "amount", "reserved"} /\ \A f \in DOMAIN less : less[f] = s[f]
    BY <2>1 DEF Lacking, SourceRecord
  <2>3. k = Having(less, [known |-> TRUE])
    BY <2>1 DEF Known
  <2> HIDE DEF k, less
  <2>4. /\ DOMAIN k = {"id", "at", "amount", "reserved", "known"} /\ k["known"] = TRUE
        /\ \A f \in {"id", "at", "amount", "reserved"} : k[f] = s[f]
        /\ k = [f \in DOMAIN k |-> k[f]]
    BY <2>2, <2>3 DEF Having
  <2>5. k = [id |-> s.id, at |-> s.at, amount |-> s.amount, reserved |-> s.reserved,
             known |-> TRUE]
    BY <2>4
  <2>6. k \in SourceRecord
    BY <2>1, <2>5, SiteFields DEF SourceRecord
  <2>7. less.id = s.id
    BY <2>2
  <2> QED BY <2>1, <2>5, <2>6, <2>7 DEF k, s
<1>5. SameSites(r.sources, sources)
  <2>1. sources \in [1 .. n -> SourceRecord] /\ \A i \in 1 .. n : sources[i] = Known(b.sources[i])
    BY <1>3, <1>4
  <2> HIDE DEF sources
  <2>2. sources \in Seq(SourceRecord) /\ DOMAIN sources = DOMAIN r.sources
    BY <1>1, <2>1, SeqDef
  <2> QED BY <1>1, <1>4, <2>1, <2>2 DEF SameSites
<1>6. DOMAIN ants = Workers /\ \A a \in Workers : SameWorker(r.ants[a], ants[a])
  <2>1. DOMAIN ants = Workers /\ \A a \in Workers : ants[a] = ById(b, b.ants[a])
    BY <1>2
  <2> HIDE DEF ants
  <2>2. ASSUME NEW a \in Workers PROVE SameWorker(r.ants[a], ants[a])
    <3>1. PICK old : old.sources = r.sources /\ b.ants[a] = ByPlace(old, r.ants[a])
      BY DEF Aged
    <3>2. SameWorker(r.ants[a], ById(b, ByPlace(old, r.ants[a])))
      BY <1>1, <1>3, <1>4, <3>1, AntRenamed
    <3> QED BY <2>1, <3>1, <3>2
  <2> QED BY <2>1, <2>2
<1>7. m = Having(b, more) /\ DOMAIN b = OldFields
  BY DEF Roomed, Known, Aged
<1> HIDE DEF ants, sources, m
<1>8. /\ DOMAIN m = OldFields \cup {"rooms"} /\ m["rooms"] = FoundingRooms
      /\ m["ants"] = ants /\ m["sources"] = sources
      /\ \A f \in OldFields \ {"ants", "sources"} : m[f] = b[f]
  BY <1>7 DEF Having, OldFields
<1>9. /\ DOMAIN d = RunFields /\ d["passages"] = {} /\ \A f \in DOMAIN m : d[f] = m[f]
  BY <1>8 DEF Having, OldFields, RunFields
<1> HIDE DEF d
<1>10. /\ d.rooms = FoundingRooms /\ d.ants = ants /\ d.sources = sources /\ d.passages = {}
       /\ \A f \in OldFields \ {"ants", "sources"} : d[f] = b[f]
  BY <1>8, <1>9 DEF OldFields
<1>11. LifeSaved(d)
  <2>1. d.mature = b.mature /\ d.eggs = b.eggs /\ d.brood = b.brood /\ d.traits = b.traits
    BY <1>10 DEF OldFields
  <2> QED BY <2>1 DEF Aged, LifeSaved
<1>12. \A f \in {"open", "heaps", "stored", "trails", "session"} : d[f] = r[f]
  BY <1>10 DEF Aged, OldFields
<1> QED BY <1>5, <1>6, <1>9, <1>10, <1>11, <1>12 DEF Alike, d, m, ants, sources

\* A document of any version this program knows is read as one of its own (profile_codec.cpp:386-401).
LEMMA OpenedIs ==
  ASSUME NEW r, IsSaved(r), NEW d, d = [version |-> Current, receipt |-> "None", run |-> r]
  PROVE  /\ \A v \in 1 .. Current :
              /\ Migrated(AsVersion(v, d)).version = Current
              /\ Alike(r, Migrated(AsVersion(v, d)).run)
         /\ Migrated(AsVersion(0, d)).version # Current
<1> DEFINE v3 == Lacking(r, {"passages"})
           b2 == BeforeRooms(v3)
           b1 == BeforeTraits(b2)
           Receipted(v, x) == [version |-> v, receipt |-> "None", run |-> x]
           Bare(v, x) == [version |-> v, run |-> x]
           Old(v, x) == IF v < 2 THEN Bare(v, x) ELSE Receipted(v, x)
           named(x) == Roomed(x, [a \in DOMAIN x.ants |-> ById(x, x.ants[a])])
           passed(x) == Having(x, [passages |-> {}])
<1>1. ASSUME NEW v \in 0 .. 4 PROVE AsVersion(v, d) = Old(v, Older(v, r))
  <2> DEFINE head == [d EXCEPT !.version = v]
             doc == IF v < 2 THEN Lacking(head, {"receipt"}) ELSE head
  <2>1. head = Receipted(v, r)
    OBVIOUS
  <2>2. Lacking(Receipted(v, r), {"receipt"}) = Bare(v, r)
    BY DEF Lacking
  <2>3. doc = Old(v, r)
    BY <2>1, <2>2
  <2>4. AsVersion(v, d) = InRun(doc, LAMBDA x : Older(v, x))
    BY DEF AsVersion
  <2> HIDE DEF doc
  <2>5. AsVersion(v, d) = IF "run" \in DOMAIN doc THEN [doc EXCEPT !.run = Older(v, @)] ELSE doc
    BY <2>4 DEF InRun
  <2>6. "run" \in DOMAIN Old(v, r) /\ [Old(v, r) EXCEPT !.run = Older(v, @)] = Old(v, Older(v, r))
    OBVIOUS
  <2> QED BY <2>3, <2>5, <2>6
<1>2. /\ Older(4, r) = r /\ Older(3, r) = v3 /\ Older(2, r) = b2 /\ Older(1, r) = b1
      /\ Older(0, r) = b1
  BY DEF Older
<1> HIDE DEF v3, b2, b1
<1>3. ASSUME NEW x PROVE MigrateV1(Bare(1, x)) = Receipted(2, Traited(x))
  <2> DEFINE doc == Having(Bare(1, x), [version |-> 2, receipt |-> "None"])
  <2>1. doc = Receipted(2, x)
    BY DEF Having
  <2>2. MigrateV1(Bare(1, x)) = IF "run" \in DOMAIN doc THEN [doc EXCEPT !.run = Traited(@)] ELSE doc
    BY DEF MigrateV1, InRun
  <2> HIDE DEF doc
  <2> QED BY <2>1, <2>2
<1>4. ASSUME NEW x PROVE /\ MigrateV2(Receipted(2, x)) = Receipted(3, named(x))
                         /\ MigrateV2(Bare(0, x)) = Bare(3, named(x))
  BY DEF MigrateV2, InRun
<1>5. ASSUME NEW x PROVE MigrateV3(Receipted(3, x)) = Receipted(4, passed(x))
  BY DEF MigrateV3, InRun
<1>6. ASSUME NEW x, NEW v PROVE Receipted(v, x).version = v /\ Bare(v, x).version = v
  OBVIOUS
<1> HIDE DEF named, passed, Receipted, Bare
<1>7. AsVersion(4, d) = Receipted(4, r) /\ Migrated(AsVersion(4, d)) = Receipted(4, r)
  <2>1. AsVersion(4, d) = Receipted(4, r)
    BY <1>1, <1>2
  <2> QED BY <1>6, <2>1 DEF Migrated
<1>8. Migrated(AsVersion(3, d)) = Receipted(4, passed(v3))
  <2>1. AsVersion(3, d) = Receipted(3, v3)
    BY <1>1, <1>2
  <2> QED BY <1>6, <1>5, <2>1 DEF Migrated
<1>9. Migrated(AsVersion(2, d)) = Receipted(4, passed(named(b2)))
  <2>1. AsVersion(2, d) = Receipted(2, b2)
    BY <1>1, <1>2
  <2> QED BY <1>6, <1>4, <1>5, <2>1 DEF Migrated
<1>10. Migrated(AsVersion(1, d)) = Receipted(4, passed(named(Traited(b1))))
  <2>1. AsVersion(1, d) = Bare(1, b1)
    BY <1>1, <1>2
  <2> QED BY <1>6, <1>3, <1>4, <1>5, <2>1 DEF Migrated
<1>11. Migrated(AsVersion(0, d)) = Bare(3, named(b1))
  <2>1. AsVersion(0, d) = Bare(0, b1)
    BY <1>1, <1>2
  <2> QED BY <1>6, <1>4, <2>1 DEF Migrated
<1>12. Alike(r, r) /\ passed(v3) = r
  BY SavedIsAlike, Passable DEF passed, v3
<1>13. Aged(r, b2) /\ Aged(r, Traited(b1))
  BY AgedIs, AgedWithoutTraits DEF b2, b1, v3
<1>14. Alike(r, passed(named(b2))) /\ Alike(r, passed(named(Traited(b1))))
  BY <1>13, AgedMigrates DEF passed, named
<1>15. ASSUME NEW v \in 1 .. Current
       PROVE  /\ Migrated(AsVersion(v, d)).version = Current
              /\ Alike(r, Migrated(AsVersion(v, d)).run)
  <2>1. v \in {1, 2, 3, 4}
    BY DEF Current
  <2>2. \A x : Receipted(4, x).version = Current /\ Receipted(4, x).run = x
    BY DEF Current, Receipted
  <2> QED BY <1>7, <1>8, <1>9, <1>10, <1>12, <1>14, <2>1, <2>2
<1>16. Migrated(AsVersion(0, d)).version # Current
  BY <1>6, <1>11 DEF Current
<1> QED BY <1>15, <1>16

-----------------------------------------------------------------------------
(* A run is opened *)

\* What the workers bring home is what the forager carries.
LEMMA CarriedIs ==
  ASSUME NEW w, DOMAIN w.ants = Workers, w.ants[Forager].amount \in Nat,
         w.ants[Digger].cargo # "Food"
  PROVE  Carried(w) = IF w.ants[Forager].cargo = "Food" THEN w.ants[Forager].amount ELSE 0
<1> DEFINE f == [a \in Workers |-> IF w.ants[a].cargo = "Food" THEN w.ants[a].amount ELSE 0]
<1>1. Carried(w) = SumOf(f, Workers)
  BY DEF Carried, TotalOf, SumOf
<1>2. /\ f[Digger] = 0 /\ f[Forager] \in Nat
      /\ f[Forager] = IF w.ants[Forager].cargo = "Food" THEN w.ants[Forager].amount ELSE 0
  BY DEF Workers
<1> HIDE DEF f
<1>3. /\ Forager \in Workers /\ Workers \ {Forager} = {Digger} /\ {Digger} \ {Digger} = {}
      /\ \A a \in Workers : f[a] \in Int
  BY <1>2 DEF Workers, Forager, Digger
<1>4. IsFiniteSet(Workers) /\ IsFiniteSet({Digger})
  BY TwoWorkers, FS_Singleton
<1>5. SumOf(f, Workers) = f[Forager] + SumOf(f, {Digger})
  <2>1. SumOf(f, Workers) = f[Forager] + SumOf(f, Workers \ {Forager})
    BY ONLY <1>3, <1>4, SumTake
  <2> QED BY <1>3, <2>1
<1>6. SumOf(f, {Digger}) = 0
  <2>1. Digger \in {Digger} /\ \A a \in {Digger} : f[a] \in Int
    BY <1>2
  <2>2. SumOf(f, {Digger}) = f[Digger] + SumOf(f, {Digger} \ {Digger})
    BY ONLY <1>4, <2>1, SumTake
  <2> QED BY <1>2, <1>3, <2>2, SumEmpty
<1> QED BY <1>1, <1>2, <1>5, <1>6

\* Claims are sound as the codec and the world ask for it (world.cpp:1302-1320).
LEMMA SourcesSound ==
  ASSUME NEW x, x.sources \in Seq(SourceRecord), IdsDiffer(x.sources), DOMAIN x.ants = Workers,
         ClaimsHold(x.sources, x.ants[Forager]), x.ants[Forager].reserved \in Nat,
         x.ants[Digger].source = 0, x.ants[Digger].reserved = 0
  PROVE  SourcesHold(x)
<1> DEFINE n == Len(x.sources)
<1>1. /\ n \in Nat /\ DOMAIN x.sources = 1 .. n
      /\ \A i \in 1 .. n : x.sources[i] \in SourceRecord
  BY SitesAre
<1>2. ASSUME NEW i \in 1 .. n
      PROVE  Reserved(x, x.sources[i].id) = Due(x.ants[Forager], x.sources[i].id)
  <2> DEFINE id == x.sources[i].id
             mine == {a \in DOMAIN x.ants : x.ants[a].source = id}
             g == [a \in mine |-> x.ants[a].reserved]
  <2>1. id # 0
    BY <1>1, SiteFields
  <2>2. Reserved(x, id) = SumOf(g, mine)
    BY DEF Reserved, TotalOf, SumOf
  <2> HIDE DEF id
  <2>3. mine = IF x.ants[Forager].source = id THEN {Forager} ELSE {}
    BY <2>1 DEF Workers
  <2>4. CASE x.ants[Forager].source = id
    <3>1. mine = {Forager} /\ g[Forager] = x.ants[Forager].reserved
      BY <2>3, <2>4
    <3> HIDE DEF g, mine
    <3>2. IsFiniteSet({Forager})
      BY FS_Singleton
    <3>3. \A a \in {Forager} : g[a] \in Int
      BY <3>1
    <3>4. IsFiniteSet({Forager}) /\ Forager \in {Forager} /\ \A a \in {Forager} : g[a] \in Int
      BY <3>2, <3>3
    <3>5. SumOf(g, {Forager}) = g[Forager] + SumOf(g, {Forager} \ {Forager})
      BY ONLY <3>4, SumTake
    <3>6. {Forager} \ {Forager} = {}
      OBVIOUS
    <3>7. SumOf(g, {Forager}) = x.ants[Forager].reserved
      <4>1. SumOf(g, {}) = 0
        BY SumEmpty
      <4>2. SumOf(g, {Forager} \ {Forager}) = 0
        BY ONLY <3>6, <4>1, Zenon
      <4>3. g[Forager] = x.ants[Forager].reserved /\ g[Forager] \in Nat
        BY <3>1
      <4> QED BY ONLY <3>5, <4>2, <4>3
    <3>8. Reserved(x, id) = x.ants[Forager].reserved
      BY <2>2, <3>1, <3>7
    <3>9. Due(x.ants[Forager], id) = x.ants[Forager].reserved
      BY <2>4 DEF Due
    <3> QED BY <3>8, <3>9 DEF id
  <2>5. CASE x.ants[Forager].source # id
    <3>1. mine = {}
      BY <2>3, <2>5
    <3> HIDE DEF g, mine
    <3> QED BY <2>2, <2>5, <3>1, SumEmpty DEF Due, id
  <2> QED BY <2>4, <2>5
<1>3. \A i \in DOMAIN x.sources :
        /\ 0 <= x.sources[i].reserved /\ x.sources[i].reserved <= x.sources[i].amount
        /\ x.sources[i].reserved = Reserved(x, x.sources[i].id)
  BY <1>1, <1>2, SiteFields DEF ClaimsHold
<1>4. \A a \in DOMAIN x.ants : x.ants[a].reserved > 0 =>
        IndexOf(x.sources, x.ants[a].source) >= 0
  <2> SUFFICES ASSUME NEW a \in Workers, x.ants[a].reserved > 0
               PROVE  IndexOf(x.sources, x.ants[a].source) >= 0
    OBVIOUS
  <2>1. a = Forager
    BY DEF Workers
  <2>2. PICK i \in DOMAIN x.sources : x.sources[i].id = x.ants[Forager].source
    BY <2>1 DEF ClaimsHold
  <2>3. IndexOf(x.sources, x.ants[Forager].source) = i - 1
    BY <1>1, <2>2, Found
  <2> QED BY <1>1, <2>1, <2>2, <2>3
<1> QED BY <1>3, <1>4 DEF SourcesHold, IdsDiffer

\* Heaps are sound as the codec and the world ask for it.
LEMMA HeapsSound ==
  ASSUME NEW x, x.heaps \in HeapRecord, DOMAIN x.heaps \subseteq x.open
  PROVE  HeapsHold(x, TotalOf(x.heaps))
BY HeapsAre DEF HeapsHold

\* A worker is read again with a current route or an old one (world.cpp:109-116).
LEMMA AntRouted ==
  ASSUME NEW a \in SavedAntRecord, NEW n \in Nat \ {0}
  PROVE  /\ Route(n, a) \in AntRecord /\ Frame(Route(n, a), a, {"revision"})
         /\ Route(n, a).revision = IF a.valid THEN n ELSE 0
<1> DEFINE less == Lacking(a, {"valid"})
           r == IF a.valid THEN n ELSE 0
           b == Having(less, [revision |-> r])
<1>1. r \in Nat /\ Route(n, a) = b
  BY DEF Route
<1> HIDE DEF r
<1>2. /\ DOMAIN less = {"at", "cargo", "amount", "state", "source", "reserved", "path"}
      /\ \A f \in DOMAIN less : less[f] = a[f]
  BY SavedAntFields DEF Lacking
<1> HIDE DEF less
<1>3. /\ DOMAIN b = DOMAIN less \cup {"revision"} /\ b["revision"] = r
      /\ \A f \in DOMAIN less : b[f] = a[f]
      /\ b = [f \in DOMAIN b |-> b[f]]
  BY <1>2 DEF Having
<1> HIDE DEF b
<1>4. b = [at |-> a.at, cargo |-> a.cargo, amount |-> a.amount, state |-> a.state,
           source |-> a.source, reserved |-> a.reserved, path |-> a.path, revision |-> r]
  BY <1>2, <1>3
<1>5. b \in AntRecord
  BY <1>1, <1>4, SavedAntFields DEF AntRecord
<1>6. Frame(b, a, {"revision"}) /\ b.revision = r
  BY <1>4 DEF Frame
<1> QED BY <1>1, <1>5, <1>6 DEF r

\* What the document says of the workers is what they are, but for names without a claim.
LEMMA WorkersRead ==
  ASSUME NEW w, WorldInv(w), NEW s, NEW d, Alike(Saved(w, s), d), NEW a \in Workers
  PROVE  /\ d.ants[a] \in SavedAntRecord
         /\ Frame(w.ants[a], d.ants[a], {"source", "revision"})
         /\ d.ants[a].valid = Fresh(w, a)
         /\ w.ants[a].reserved > 0 \/ w.ants[a].source = 0 => d.ants[a].source = w.ants[a].source
<1> DEFINE old == w.ants[a]
           saved == SavedAnt(w, a)
           new == d.ants[a]
<1>1. old \in AntRecord
  BY Fields DEF WorldInv
<1>2. saved \in SavedAntRecord /\ Frame(saved, old, {"valid"}) /\ saved.valid = Fresh(w, a)
  BY AntSaved
<1>3. Saved(w, s).ants[a] = saved
  BY DEF Saved
<1>4. SameWorker(saved, new)
  BY <1>3 DEF Alike
<1> HIDE DEF old, saved, new
<1>5. /\ new \in SavedAntRecord /\ Frame(saved, new, {"source"})
      /\ saved.reserved > 0 \/ saved.source = 0 => new.source = saved.source
  BY <1>4 DEF SameWorker
<1>6. /\ DOMAIN old = {"at", "cargo", "amount", "state", "source", "reserved", "path", "revision"}
      /\ DOMAIN saved = {"at", "cargo", "amount", "state", "source", "reserved", "path", "valid"}
  BY <1>1, <1>2, AntFields, SavedAntFields
<1>7. Frame(old, new, {"source", "revision"}) /\ new.valid = saved.valid
  BY <1>2, <1>5, <1>6 DEF Frame
<1>8. old.reserved = saved.reserved /\ old.source = saved.source
  BY <1>2, <1>6 DEF Frame
<1> QED BY <1>2, <1>5, <1>7, <1>8 DEF old, new, saved

\* What the restoring constructor takes over (world.cpp:62-133).
Misfit(d) ==
  (DOMAIN d.heaps = {} /\ d.stored > 0) \/ d.stored > Cardinality(Zones(d)) * Grains
FilledFrom(d, v) ==
  /\ v.open = d.open /\ v.rooms = d.rooms /\ v.passages = d.passages /\ v.zones = Zones(d)
  /\ v.sources = d.sources /\ v.trails = RestoredTrails(d.trails) /\ v.mature = d.mature
  /\ v.eggs = d.eggs /\ v.brood = d.brood /\ v.traits = d.traits
  /\ v.heaps = IF Misfit(d) THEN StockedHeaps(Zones(d), d.stored) ELSE d.heaps
  /\ \A a \in Workers : v.ants[a] = Route(v.revision, d.ants[a])

\* The world that opens is in order, and so is the document it came from (world.cpp:62-133,
\* profile_codec.cpp:369-381).
LEMMA OpensWell ==
  ASSUME NEW w, WorldInv(w), NEW s, CountersHold(s), NEW d, Alike(Saved(w, s), d)
  PROVE  /\ WorldInv(Restored(d)) /\ Restored(d).worked = 0 /\ InvariantHolds(Restored(d))
         /\ ValidWorld(d) /\ CountersHold(d.session) /\ d.session = s
         /\ FilledFrom(d, Restored(d)) /\ Restored(d).carried = w.carried
<1> DEFINE n == 1 + Cardinality(d.open)
           zones == Zones(d)
           misfit == (DOMAIN d.heaps = {} /\ d.stored > 0) \/ d.stored > Cardinality(zones) * Grains
           heaps == IF misfit THEN StockedHeaps(zones, d.stored) ELSE d.heaps
           stamp == <<n, d.rooms>>
           field == Trails!RestoredTrails(d.trails)
           ants == [a \in Workers |-> Route(n, d.ants[a])]
           bare ==
             [open |-> d.open, revision |-> n, rooms |-> d.rooms, passages |-> d.passages,
              zones |-> zones, zoned |-> stamp, sources |-> d.sources, heaps |-> heaps,
              trails |-> field, mature |-> d.mature, eggs |-> d.eggs, brood |-> d.brood,
              traits |-> d.traits, worked |-> 0, carried |-> 0, ants |-> ants]
           load == Carried(bare)
           v == Restored(d)
<1>1. /\ w \in WorldRecord /\ w.open \in SUBSET Cells /\ w.heaps \in HeapRecord
      /\ w.trails \in TrailRecord /\ w.sources \in Seq(SourceRecord)
      /\ w.ants[Forager] \in AntRecord /\ w.ants[Digger] \in AntRecord
  BY Fields DEF WorldInv
<1>2. /\ Turf \subseteq w.open /\ DOMAIN w.heaps \subseteq w.open
      /\ Stored(w) \in Nat /\ Stored(w) = TotalOf(w.heaps)
  BY <1>1, HeapsAre DEF WorldInv, LandHolds, GroundHolds, Stored
<1>3. /\ d.open = w.open /\ d.heaps = w.heaps /\ d.stored = Stored(w)
      /\ d.trails = w.trails.front /\ d.session = s
  <2>1. /\ Saved(w, s).open = w.open /\ Saved(w, s).heaps = w.heaps
        /\ Saved(w, s).stored = Stored(w) /\ Saved(w, s).trails = w.trails.front
        /\ Saved(w, s).session = s
    BY DEF Saved
  <2>2. \A f \in {"open", "heaps", "stored", "trails", "session"} : d[f] = Saved(w, s)[f]
    BY DEF Alike
  <2> QED BY <2>1, <2>2
<1>4. SameSites(w.sources, d.sources)
  <2>1. Saved(w, s).sources = w.sources
    BY DEF Saved
  <2> QED BY <2>1 DEF Alike
<1>5. /\ d.passages = {} /\ d.rooms \in {FoundingRooms, LaterRooms} /\ LifeSaved(d)
      /\ DOMAIN d.ants = Workers
  BY DEF Alike
<1>6. n \in Nat \ {0} /\ zones \in SUBSET LaterRooms /\ zones \subseteq w.open
  <2>1. IsFiniteSet(d.open)
    BY <1>1, <1>3, SavedRunAssumption, FS_Subset
  <2>2. Cardinality(d.open) \in Nat
    BY <2>1, FS_CardinalityType
  <2>3. zones \subseteq d.rooms /\ d.rooms \subseteq LaterRooms
    BY <1>5, Strip DEF Zones
  <2>4. zones \subseteq w.open
    BY <1>1, <1>2, <1>3, ZonesOpen DEF Zones
  <2> QED BY <2>2, <2>3, <2>4
<1> HIDE DEF n, zones
<1>7. Cardinality(zones) * Grains \in Nat
  BY <1>6, RoomGrows
<1>8. /\ heaps \in HeapRecord /\ DOMAIN heaps \subseteq w.open
      /\ TotalOf(heaps) <= Cardinality(zones) * Grains
  <2>1. CASE misfit
    <3>1. heaps = StockedHeaps(zones, d.stored) /\ d.stored \in Nat
      BY <1>2, <1>3, <2>1
    <3>2. /\ heaps \in HeapRecord /\ DOMAIN heaps = zones
          /\ TotalOf(heaps) <= Cardinality(zones) * Grains
      BY <1>6, <3>1, StockFits
    <3> QED BY <1>6, <3>2
  <2>2. CASE ~misfit
    <3>1. heaps = w.heaps /\ d.stored <= Cardinality(zones) * Grains
      BY <1>2, <1>3, <1>7, <2>2
    <3> QED BY <1>1, <1>2, <1>3, <3>1
  <2> QED BY <2>1, <2>2
<1>9. field \in TrailRecord /\ Tidy(field)
  <2>1. d.trails \in Field
    BY <1>1, <1>3 DEF TrailRecord
  <2>2. Tidy(field)
    BY <2>1, TrailsAgree, RestoredTidy
  <2> QED BY <2>2 DEF Tidy, TrailRecord
<1>10. \A a \in Workers :
         /\ d.ants[a] \in SavedAntRecord
         /\ Frame(w.ants[a], d.ants[a], {"source", "revision"})
         /\ w.ants[a].reserved > 0 \/ w.ants[a].source = 0 => d.ants[a].source = w.ants[a].source
  BY WorkersRead
<1>11. ants \in [Workers -> AntRecord] /\ \A a \in Workers : Frame(ants[a], d.ants[a], {"revision"})
  BY <1>6, <1>10, AntRouted
<1>12. v = [bare EXCEPT !.carried = load]
  BY DEF Restored, n, zones
<1> HIDE DEF heaps, misfit, stamp, field, ants
<1>13. Forager \in Workers /\ Digger \in Workers
  BY DEF Workers
<1> DEFINE f0 == w.ants[Forager]
           f1 == d.ants[Forager]
           f2 == ants[Forager]
           g0 == w.ants[Digger]
           g1 == d.ants[Digger]
           g2 == ants[Digger]
<1>14. /\ f0 \in AntRecord /\ f1 \in SavedAntRecord /\ f2 \in AntRecord
       /\ g0 \in AntRecord /\ g1 \in SavedAntRecord /\ g2 \in AntRecord
       /\ Frame(f0, f1, {"source", "revision"}) /\ Frame(f2, f1, {"revision"})
       /\ Frame(g0, g1, {"source", "revision"}) /\ Frame(g2, g1, {"revision"})
       /\ f0.reserved > 0 \/ f0.source = 0 => f1.source = f0.source
       /\ g0.reserved > 0 \/ g0.source = 0 => g1.source = g0.source
  BY <1>1, <1>10, <1>11, <1>13
<1>15. /\ ForagerHolds(w, f0) /\ ClaimsHold(w.sources, f0) /\ DiggerHolds(g0)
       /\ IdsDiffer(w.sources)
  BY DEF WorldInv, CrewHolds
<1> HIDE DEF f0, f1, f2, g0, g1, g2
<1>16. /\ f1.cargo = f0.cargo /\ f2.cargo = f0.cargo /\ f1.state = f0.state /\ f2.state = f0.state
       /\ f1.amount = f0.amount /\ f2.amount = f0.amount /\ f2.source = f1.source
       /\ f1.reserved = f0.reserved /\ f2.reserved = f0.reserved
  BY ZenonT(60), <1>14, AntFields DEF Frame
<1>17. /\ g1.source = 0 /\ g2.source = 0 /\ g1.reserved = 0 /\ g2.reserved = 0
       /\ g2.cargo # "Food"
  <2>1. g1.source = 0
    BY <1>14, <1>15 DEF DiggerHolds
  <2>2. g2.source = g1.source /\ g2.reserved = g1.reserved /\ g2.cargo = g1.cargo
    BY <1>14, AntFields DEF Frame
  <2>3. g1.reserved = g0.reserved /\ g1.cargo = g0.cargo
    BY <1>14, AntFields DEF Frame
  <2> QED BY <1>15, <2>1, <2>2, <2>3 DEF DiggerHolds
<1>18. /\ IdsDiffer(d.sources) /\ ClaimsHold(d.sources, f1) /\ ClaimsHold(d.sources, f2)
  <2>1. /\ DOMAIN d.sources = DOMAIN w.sources
        /\ \A i \in DOMAIN w.sources : /\ d.sources[i].id = w.sources[i].id
                                       /\ d.sources[i].amount = w.sources[i].amount
                                       /\ d.sources[i].reserved = w.sources[i].reserved
    BY <1>4 DEF SameSites
  <2>2. IdsDiffer(d.sources)
    BY <1>15, <2>1 DEF IdsDiffer
  <2>3. f0.reserved \in Nat
    BY <1>14, AntFields
  <2>4. ClaimsHold(d.sources, f1)
    <3>1. CASE f0.reserved > 0
      BY <1>14, <1>15, <1>16, <2>1, <3>1 DEF ClaimsHold, Due
    <3>2. CASE ~(f0.reserved > 0)
      <4>1. f0.reserved = 0 /\ f1.reserved = 0
        BY <1>16, <2>3, <3>2
      <4> QED BY <1>15, <2>1, <4>1 DEF ClaimsHold, Due
    <3> QED BY <3>1, <3>2
  <2>5. ClaimsHold(d.sources, f2)
    BY <1>16, <2>4 DEF ClaimsHold, Due
  <2> QED BY <2>2, <2>4, <2>5
<1>19. load = w.carried /\ load \in Nat
  <2>1. bare.ants = ants /\ DOMAIN ants = Workers
    BY <1>11
  <2> HIDE DEF bare
  <2>2. /\ DOMAIN bare.ants = Workers /\ bare.ants[Forager] = f2 /\ bare.ants[Digger] = g2
        /\ bare.ants[Forager].amount \in Nat
    BY <1>14, <2>1, AntFields DEF f2, g2
  <2>3. load = IF f2.cargo = "Food" THEN f2.amount ELSE 0
    BY <1>17, <2>2, CarriedIs
  <2>4. w.carried \in Nat
    BY <1>1, Fields
  <2> QED BY <1>15, <1>16, <2>3, <2>4 DEF ForagerHolds
<1>20. bare.carried = 0 /\ v = [bare EXCEPT !.carried = load]
  BY <1>12
<1> HIDE DEF v, load
<1>21. v = [open |-> w.open, revision |-> n, rooms |-> d.rooms, passages |-> {},
            zones |-> zones, zoned |-> stamp, sources |-> d.sources, heaps |-> heaps,
            trails |-> field, mature |-> d.mature, eggs |-> d.eggs, brood |-> d.brood,
            traits |-> d.traits, worked |-> 0, carried |-> load, ants |-> ants]
  BY <1>3, <1>5, <1>20
<1> HIDE DEF bare
<1>22. v \in WorldRecord
  <2>1. stamp \in Nat \X {FoundingRooms, LaterRooms}
    BY <1>5, <1>6 DEF stamp
  <2>2. /\ d.mature \in BOOLEAN /\ d.eggs \in Nat /\ d.brood \in Broods
        /\ d.traits \in [vigor : 0 .. MaxTier, industry : 0 .. MaxTier]
    BY <1>5 DEF LifeSaved
  <2>3. d.sources \in Seq(SourceRecord)
    BY <1>4 DEF SameSites
  <2> QED BY <1>1, <1>5, <1>6, <1>8, <1>9, <1>11, <1>19, <1>21, <2>1, <2>2, <2>3 DEF WorldRecord
<1>23. LandHolds(v)
  <2>1. Zones(v) = zones
    BY <1>3, <1>21 DEF Zones, zones
  <2>2. v.open = w.open /\ v.heaps = heaps /\ v.zones = zones /\ v.zoned[1] = n /\ v.revision = n
    BY <1>21 DEF stamp
  <2> QED BY <1>2, <1>6, <1>8, <2>1, <2>2 DEF LandHolds, GroundHolds, ZonesHold, Stored, Capacity
<1>24. CrewHolds(v)
  <2>1. v.sources = d.sources /\ v.carried = w.carried /\ v.ants[Forager] = f2 /\ v.ants[Digger] = g2
    BY <1>19, <1>21 DEF f2, g2
  <2> QED BY <1>15, <1>16, <1>17, <1>18, <2>1 DEF CrewHolds, ForagerHolds, DiggerHolds
<1>25. LifeHolds(v) /\ v.worked = 0
  BY <1>5, <1>9, <1>21 DEF LifeHolds, LifeSaved
<1>26. WorldInv(v)
  BY <1>22, <1>23, <1>24, <1>25 DEF WorldInv
<1>27. InvariantHolds(v)
  <2>1. v.sources = d.sources /\ v.heaps = heaps /\ v.open = w.open /\ v.ants = ants
    BY <1>21
  <2>2. SourcesHold(v)
    <3>1. /\ v.sources \in Seq(SourceRecord) /\ DOMAIN v.ants = Workers
          /\ v.ants[Forager] = f2 /\ v.ants[Digger] = g2 /\ f2.reserved \in Nat
      BY <1>4, <1>11, <1>14, <2>1, AntFields DEF SameSites, f2, g2
    <3> QED BY <1>17, <1>18, <2>1, <3>1, SourcesSound
  <2>3. HeapsHold(v, Stored(v))
    BY <1>8, <2>1, HeapsSound DEF Stored
  <2>4. ASSUME NEW a \in Workers PROVE v.ants[a].at \in v.open /\ v.ants[a].amount >= 0
    <3>1. ants[a] \in AntRecord
      BY <1>11
    <3> QED BY <1>2, <2>1, <3>1, AntFields
  <2> QED BY <1>23, <2>2, <2>3, <2>4 DEF InvariantHolds, LandHolds
<1>28. ValidWorld(d)
  <2>1. SourcesHold(d)
    <3>1. d.sources \in Seq(SourceRecord) /\ f1.reserved \in Nat
      BY <1>4, <1>14, SavedAntFields DEF SameSites
    <3> QED BY <1>5, <1>17, <1>18, <3>1, SourcesSound DEF f1, g1
  <2>2. HeapsHold(d, d.stored)
    BY <1>1, <1>2, <1>3, HeapsSound
  <2>3. \A i \in DOMAIN d.sources : d.sources[i].at \in d.open
    <3>1. \A i \in DOMAIN d.sources : d.sources[i] \in SourceRecord
      BY <1>4, SitesAre DEF SameSites
    <3> QED BY <1>2, <1>3, <3>1, SiteFields
  <2>4. ASSUME NEW a \in Workers
        PROVE  /\ d.ants[a].at \in d.open
               /\ \A k \in DOMAIN d.ants[a].path : d.ants[a].path[k] \in d.open
    <3>1. d.ants[a].at \in Turf /\ d.ants[a].path \in Seq(Turf)
      BY <1>10, SavedAntFields
    <3>2. \A k \in DOMAIN d.ants[a].path : d.ants[a].path[k] \in Turf
      BY <3>1, LenProperties, ElementOfSeq
    <3> QED BY <1>2, <1>3, <3>1, <3>2
  <2>5. d.traits.vigor <= MaxTier /\ d.traits.industry <= MaxTier /\ (d.mature \/ d.eggs = 0)
    BY <1>5 DEF LifeSaved, MaxTier
  <2>6. Cardinality({b \in DOMAIN d.brood : d.brood[b].role = "Gyne"}) <= MaxWinged
    <3> DEFINE S == {b \in DOMAIN d.brood : d.brood[b].role = "Gyne"}
    <3>1. S \subseteq {1}
      BY <1>5 DEF LifeSaved, Broods
    <3> HIDE DEF S
    <3>2. IsFiniteSet({1}) /\ Cardinality({1}) = 1
      BY ONLY FS_Singleton
    <3>3. Cardinality(S) \in Nat /\ Cardinality(S) <= 1
      <4>1. IsFiniteSet(S) /\ Cardinality(S) <= Cardinality({1})
        BY ONLY <3>1, <3>2, FS_Subset
      <4> QED BY <3>2, <4>1, FS_CardinalityType
    <3> QED BY <3>3 DEF S, MaxWinged
  <2> QED BY <1>5, <2>1, <2>2, <2>3, <2>4, <2>5, <2>6 DEF ValidWorld
<1>29. FilledFrom(d, v) /\ v.carried = w.carried
  <2>1. /\ v.open = d.open /\ v.rooms = d.rooms /\ v.passages = d.passages /\ v.zones = zones
        /\ v.sources = d.sources /\ v.trails = field /\ v.mature = d.mature
        /\ v.eggs = d.eggs /\ v.brood = d.brood /\ v.traits = d.traits /\ v.heaps = heaps
        /\ v.ants = ants /\ v.revision = n /\ v.carried = w.carried
    BY <1>3, <1>5, <1>19, <1>21
  <2>2. field = RestoredTrails(d.trails)
    BY TrailsAgree DEF field
  <2>3. heaps = IF Misfit(d) THEN StockedHeaps(Zones(d), d.stored) ELSE d.heaps
    BY DEF heaps, misfit, zones, Misfit
  <2>4. \A a \in Workers : ants[a] = Route(n, d.ants[a])
    BY DEF ants
  <2> QED BY <2>1, <2>2, <2>3, <2>4 DEF FilledFrom, zones
<1> QED BY <1>3, <1>25, <1>26, <1>27, <1>28, <1>29 DEF v

-----------------------------------------------------------------------------
(* A copy and what it was copied from *)

\* The field of trails that is read again is the one that was saved (pheromones.cpp:82-91).
LEMMA TrailsCopied ==
  ASSUME NEW t, Tidy(t)
  PROVE  RestoredTrails(t.front) = t
<1>1. /\ t = [front |-> t.front, back |-> t.back, active |-> t.active] /\ t.back = Blank
      /\ t.active = {c \in Cells : t.front[c] > 0}
  BY DEF Tidy
<1> QED BY <1>1 DEF RestoredTrails

\* As long as the zones were up to date, a copy is like the world it was taken of.
LEMMA CopyIsAlike ==
  ASSUME NEW w, WorldInv(w), ZonesCurrent(w), w.worked = 0, NEW s, CountersHold(s)
  PROVE  Likeness(Restored(Saved(w, s))) = Likeness(w)
<1> DEFINE d == Saved(w, s)
           v == Restored(d)
           K == {"open", "rooms", "passages", "zones", "sources", "heaps", "carried", "trails",
                 "mature", "eggs", "brood", "traits", "worked", "ants"}
           like(x) == [a \in Workers |-> Having(Unroutable(x.ants[a]), [fresh |-> Fresh(x, a)])]
<1>1. w \in WorldRecord /\ IsSaved(d) /\ Alike(d, d)
  BY RunSaved, SavedIsAlike DEF WorldInv
<1>2. WorldInv(v) /\ v.worked = 0 /\ FilledFrom(d, v) /\ v.carried = w.carried
  BY <1>1, OpensWell
<1>3. /\ d.open = w.open /\ d.rooms = w.rooms /\ d.passages = w.passages /\ d.heaps = w.heaps
      /\ d.sources = w.sources /\ d.stored = Stored(w) /\ d.trails = w.trails.front
      /\ d.mature = w.mature /\ d.eggs = w.eggs /\ d.brood = w.brood /\ d.traits = w.traits
      /\ \A a \in Workers : d.ants[a] = SavedAnt(w, a)
  BY DEF Saved
<1> HIDE DEF d, v
<1>4. Zones(d) = w.zones
  <2>1. Zones(d) = Zones(w)
    BY <1>3 DEF Zones
  <2> QED BY <2>1 DEF WorldInv, LandHolds, ZonesHold
<1>5. ~Misfit(d)
  <2>1. w.heaps \in HeapRecord /\ w.zones \in SUBSET LaterRooms
    BY <1>1, Fields
  <2>2. TotalOf(w.heaps) = SumOf(w.heaps, DOMAIN w.heaps) /\ TotalOf(w.heaps) \in Nat
    BY <2>1, HeapsAre
  <2>3. DOMAIN w.heaps = {} => TotalOf(w.heaps) = 0
    BY <2>2, SumEmpty
  <2>4. Stored(w) = TotalOf(w.heaps) /\ Stored(w) <= Cardinality(w.zones) * Grains
    BY DEF WorldInv, LandHolds, Stored, Capacity
  <2>5. Cardinality(w.zones) * Grains \in Nat
    BY <2>1, RoomGrows
  <2> QED BY <1>3, <1>4, <2>2, <2>3, <2>4, <2>5 DEF Misfit
<1>6. v.trails = w.trails
  <2>1. RestoredTrails(w.trails.front) = w.trails
    BY TrailsCopied DEF WorldInv, LifeHolds
  <2> QED BY <1>2, <1>3, <2>1 DEF FilledFrom
<1>7. \A n \in K \ {"ants"} : v[n] = w[n]
  <2>1. /\ v.open = w.open /\ v.rooms = w.rooms /\ v.passages = w.passages /\ v.zones = w.zones
        /\ v.sources = w.sources /\ v.heaps = w.heaps /\ v.carried = w.carried
        /\ v.trails = w.trails /\ v.mature = w.mature /\ v.eggs = w.eggs /\ v.brood = w.brood
        /\ v.traits = w.traits /\ v.worked = w.worked
    BY <1>2, <1>3, <1>4, <1>5, <1>6 DEF FilledFrom
  <2> QED BY <2>1
<1>8. ASSUME NEW a \in Workers
      PROVE  Unroutable(v.ants[a]) = Unroutable(w.ants[a]) /\ Fresh(v, a) = Fresh(w, a)
  <2> DEFINE old == w.ants[a]
             saved == SavedAnt(w, a)
             new == v.ants[a]
  <2>1. old \in AntRecord /\ v.revision \in Nat \ {0}
    BY <1>1, <1>2, Fields DEF WorldInv
  <2>2. saved \in SavedAntRecord /\ Frame(saved, old, {"valid"}) /\ saved.valid = Fresh(w, a)
    BY AntSaved
  <2>3. new = Route(v.revision, saved)
    BY <1>2, <1>3 DEF FilledFrom
  <2> HIDE DEF saved
  <2>4. /\ new \in AntRecord /\ Frame(new, saved, {"revision"})
        /\ new.revision = IF saved.valid THEN v.revision ELSE 0
    BY <2>1, <2>2, <2>3, AntRouted
  <2>5. Fresh(v, a) <=> Fresh(w, a)
    BY <2>1, <2>2, <2>4, SavedAntFields DEF Fresh
  <2> HIDE DEF old, new
  <2>6. /\ new.at = old.at /\ new.cargo = old.cargo /\ new.amount = old.amount
        /\ new.state = old.state /\ new.source = old.source /\ new.reserved = old.reserved
        /\ new.path = old.path
    <3>1. /\ new.at = saved.at /\ new.cargo = saved.cargo /\ new.amount = saved.amount
          /\ new.state = saved.state /\ new.source = saved.source
          /\ new.reserved = saved.reserved /\ new.path = saved.path
      BY <2>4, AntFields DEF Frame
    <3>2. /\ saved.at = old.at /\ saved.cargo = old.cargo /\ saved.amount = old.amount
          /\ saved.state = old.state /\ saved.source = old.source
          /\ saved.reserved = old.reserved /\ saved.path = old.path
      BY <2>2, SavedAntFields DEF Frame
    <3> QED BY <3>1, <3>2
  <2>7. /\ DOMAIN new = {"at", "cargo", "amount", "state", "source", "reserved", "path", "revision"}
        /\ DOMAIN old = DOMAIN new
    BY <2>1, <2>4, AntFields
  <2>8. \A n \in DOMAIN new \ {"revision"} : new[n] = old[n]
    BY <2>6, <2>7
  <2>9. Unroutable(new) = Unroutable(old)
    BY <2>7, <2>8 DEF Unroutable, Lacking
  <2>10. Fresh(v, a) \in BOOLEAN /\ Fresh(w, a) \in BOOLEAN
    BY DEF Fresh
  <2> QED BY <2>5, <2>9, <2>10 DEF new, old
<1>9. like(v) = like(w)
  BY <1>8
<1>10. v \in WorldRecord
  BY <1>2 DEF WorldInv
<1>11. /\ Lacking(w, {"revision", "zoned"}) = [n \in K |-> w[n]]
       /\ Lacking(v, {"revision", "zoned"}) = [n \in K |-> v[n]]
  <2>1. /\ DOMAIN w \ {"revision", "zoned"} = K /\ DOMAIN v \ {"revision", "zoned"} = K
    BY <1>1, <1>10, WorldDomain
  <2> QED BY <2>1 DEF Lacking
<1>12. Likeness(w) = [[n \in K |-> w[n]] EXCEPT !.ants = like(w)]
  BY <1>11 DEF Likeness
<1>13. Likeness(v) = [[n \in K |-> v[n]] EXCEPT !.ants = like(v)]
  BY <1>11 DEF Likeness
<1> HIDE DEF like
<1>14. [[n \in K |-> w[n]] EXCEPT !.ants = like(w)] = [[n \in K |-> v[n]] EXCEPT !.ants = like(w)]
  BY <1>7
<1> QED BY <1>9, <1>12, <1>13, <1>14 DEF d, v

-----------------------------------------------------------------------------
\* Whatever was saved opens, whichever version wrote it, but for one nobody knows.
LEMMA OpenedHolds ==
  ASSUME WorldInv(world), CountersHold(run)
  PROVE  /\ \A v \in Versions : /\ Accepted(Opened(v)) /\ WorldInv(Restored(Opened(v).run))
                                /\ Restored(Opened(v).run).worked = 0
                                /\ Opened(v).run.session = run
                                /\ FilledFrom(Opened(v).run, Restored(Opened(v).run))
                                /\ Alike(Saved(world, run), Opened(v).run)
         /\ ~Accepted(Opened(0))
<1> DEFINE r == Saved(world, run)
<1>1. IsSaved(r) /\ Document = [version |-> Current, receipt |-> "None", run |-> r]
  BY RunSaved DEF Document
<1> HIDE DEF r
<1>2. /\ \A v \in 1 .. Current : /\ Migrated(AsVersion(v, Document)).version = Current
                                 /\ Alike(r, Migrated(AsVersion(v, Document)).run)
      /\ Migrated(AsVersion(0, Document)).version # Current
  BY <1>1, OpenedIs
<1>3. \A v : Opened(v) = Migrated(AsVersion(v, Document))
  BY DEF Opened
<1>4. Versions \subseteq 1 .. Current
  BY DEF Versions, Current
<1>5. ASSUME NEW v \in Versions
      PROVE  /\ Accepted(Opened(v)) /\ WorldInv(Restored(Opened(v).run))
             /\ Restored(Opened(v).run).worked = 0 /\ Opened(v).run.session = run
             /\ FilledFrom(Opened(v).run, Restored(Opened(v).run))
             /\ Alike(r, Opened(v).run)
  <2> DEFINE d == Opened(v).run
  <2>1. Opened(v).version = Current /\ Alike(r, d)
    BY <1>2, <1>3, <1>4
  <2> HIDE DEF d
  <2>2. /\ WorldInv(Restored(d)) /\ Restored(d).worked = 0 /\ InvariantHolds(Restored(d))
        /\ ValidWorld(d) /\ CountersHold(d.session) /\ d.session = run /\ FilledFrom(d, Restored(d))
    BY <2>1, OpensWell DEF r
  <2> QED BY <2>1, <2>2 DEF Accepted, d
<1>6. ~Accepted(Opened(0))
  BY <1>2, <1>3 DEF Accepted
<1> QED BY <1>5, <1>6 DEF r

\* A run that is opened again is the run that was saved, on ground that is in order.
LEMMA ReopenHolds ==
  ASSUME SavedInv, IInv, NEW v \in Versions, Reopen(v)
  PROVE  SavedInv' /\ IInv' /\ world'.open = world.open /\ world'.trails = world.trails
<1>1. WorldInv(world) /\ CountersHold(run)
  BY DEF SavedInv, IInv
<1> DEFINE d == Opened(v).run
           u == Restored(d)
<1>2. /\ WorldInv(u) /\ u.worked = 0 /\ d.session = run /\ FilledFrom(d, u)
      /\ Alike(Saved(world, run), d)
  BY <1>1, OpenedHolds
<1>3. turn = 0 /\ turn' = turn /\ world' = u /\ run' = run /\ booked' = booked
  BY <1>2 DEF Reopen
<1> HIDE DEF d, u
<1>4. WorldInv(world') /\ world'.worked = 0
  BY <1>2, <1>3
<1>5. WorldInv(world)'
  BY <1>4 DEF WorldInv, LandHolds, CrewHolds, LifeHolds, GroundHolds, ZonesHold, ZonesCurrent, Zones,
     Stored, Capacity, ForagerHolds
<1>6. SavedInv'
  BY <1>3, <1>4, <1>5 DEF SavedInv
<1>7. IInv'
  BY <1>3, NextHolds
<1>8. d.open = world.open /\ d.trails = world.trails.front
  <2>1. /\ Saved(world, run).open = world.open /\ Saved(world, run).trails = world.trails.front
    BY DEF Saved
  <2>2. d["open"] = Saved(world, run)["open"] /\ d["trails"] = Saved(world, run)["trails"]
    BY <1>2 DEF Alike
  <2> QED BY <2>1, <2>2
<1>9. u.open = world.open /\ u.trails = world.trails
  <2>1. RestoredTrails(world.trails.front) = world.trails
    BY <1>1, TrailsCopied DEF WorldInv, LifeHolds
  <2> QED BY <1>2, <1>8, <2>1 DEF FilledFrom
<1> QED BY <1>3, <1>6, <1>7, <1>9

\* The world and the session stay in order over every step of the run.
LEMMA RunKeeps == SavedInv /\ IInv /\ [NextRun]_savedVars => SavedInv' /\ IInv'
<1> SUFFICES ASSUME SavedInv, IInv, [NextRun]_savedVars PROVE SavedInv' /\ IInv'
  OBVIOUS
<1>1. CASE BeginTick
  <2>1. UNCHANGED <<run, booked>>
    BY <1>1 DEF BeginTick
  <2> QED BY <1>1, <2>1, BeginTickHolds, NextHolds
<1>2. CASE Act
  <2>1. UNCHANGED <<run, booked>>
    BY <1>2 DEF Act
  <2> QED BY <1>2, <2>1, ActHolds, NextHolds
<1>3. CASE MarkTrail
  <2>1. UNCHANGED <<run, booked>>
    BY <1>3 DEF MarkTrail
  <2> QED BY <1>3, <2>1, MarkHolds, NextHolds
<1>4. CASE EndTick
  BY <1>4, EndTickHolds, TickPaid
<1>5. CASE Command
  BY <1>5, CommandHolds
<1>6. CASE \E v \in Versions : Reopen(v)
  BY <1>6, ReopenHolds
<1>7. CASE UNCHANGED savedVars
  <2>1. turn' = turn /\ world' = world /\ UNCHANGED <<run, booked>>
    BY <1>7 DEF savedVars
  <2>2. SavedInv'
    BY <2>1 DEF SavedInv, WorldInv, LandHolds, CrewHolds, LifeHolds, GroundHolds, ZonesHold,
                ZonesCurrent, Zones, Stored, Capacity, ForagerHolds
  <2> QED BY <2>1, <2>2, NextHolds
<1> QED BY <1>1, <1>2, <1>3, <1>4, <1>5, <1>6, <1>7 DEF NextRun

\* Claims, heaps, zones, workers and trails are in order between any two steps, for any strip,
\* any sites, rooms and prices, and whatever the player does (world.cpp:1302-1320).
THEOREM SavedInvariance == SpecRun => [](SavedInv /\ IInv)
BY RunStarts, RunKeeps, PTL DEF SpecRun

\* A run opens again, whichever version wrote it (profile_codec.cpp:369-401).
THEOREM ProfilesAlwaysReopen == SpecRun => []ProfilesReopen
<1>1. SavedInv /\ IInv => ProfilesReopen
  BY OpenedHolds DEF SavedInv, IInv, ProfilesReopen
<1> QED BY <1>1, SavedInvariance, PTL

\* Saving and opening leaves no mark on what follows (world.cpp:62-133, 1252-1282).
THEOREM CopiesShareTheFuture == SpecRun => []SameFuture
<1>1. SavedInv /\ IInv => SameFuture
  <2> SUFFICES ASSUME SavedInv, IInv, turn = 0, ZonesCurrent(world)
               PROVE  /\ Likeness(Restored(Document.run)) = Likeness(world)
                      /\ Document.run.session = run
    BY DEF SameFuture
  <2>1. WorldInv(world) /\ world.worked = 0 /\ CountersHold(run)
    BY DEF SavedInv, IInv
  <2>2. Document.run = Saved(world, run) /\ Document.run.session = run
    BY DEF Document, Saved
  <2> QED BY <2>1, <2>2, CopyIsAlike
<1> QED BY <1>1, SavedInvariance, PTL

\* Work balances over a run that is saved and opened at will (session.cpp:27-34).
THEOREM WorkBalancesOverSaves == SpecRun => []WorkBalances
<1>1. SavedInv /\ IInv => WorkBalances
  BY DEF IInv
<1> QED BY <1>1, SavedInvariance, PTL

-----------------------------------------------------------------------------
(* The trails of a run *)

\* v has w's trails.
Trailed(w, v) == "trails" \in DOMAIN v /\ v.trails = w.trails

\* The parts the workers' turns are made of leave no trail.
LEMMA PartsLeaveNoTrail ==
  ASSUME NEW w, "trails" \in DOMAIN w
  PROVE  /\ \A a, change : Trailed(w, Ant(w, a, change))
         /\ Trailed(w, Worked(w))
         /\ \A a, d : Trailed(w, Routed(w, a, d))
         /\ \A i, n : Trailed(w, Claim(w, i, n)) /\ Trailed(w, Loaded(w, i, n))
         /\ \A c, n : Trailed(w, Heaped(w, c, n))
         /\ \A c : Trailed(w, Dug(w, c)) /\ Trailed(w, Tipped(w, c))
<1>1. ASSUME NEW a, NEW change PROVE Trailed(w, Ant(w, a, change))
  BY DEF Trailed, Ant
<1>2. Trailed(w, Worked(w))
  BY DEF Trailed, Worked
<1>3. ASSUME NEW a, NEW d PROVE Trailed(w, Routed(w, a, d))
  BY <1>1 DEF Routed
<1>4. ASSUME NEW i, NEW n PROVE Trailed(w, Claim(w, i, n))
  BY DEF Trailed, Claim
<1>5. ASSUME NEW i, NEW n PROVE Trailed(w, Loaded(w, i, n))
  BY DEF Trailed, Loaded
<1>6. ASSUME NEW c, NEW n PROVE Trailed(w, Heaped(w, c, n))
  BY DEF Trailed, Heaped
<1>7. ASSUME NEW c PROVE Trailed(w, Dug(w, c)) /\ Trailed(w, Tipped(w, c))
  BY DEF Trailed, Dug, Tipped
<1> QED BY <1>1, <1>2, <1>3, <1>4, <1>5, <1>6, <1>7

\* A walk and its end leave none either: only an evening does (world.cpp:1230-1238).
LEMMA WalksLeaveNoTrail ==
  ASSUME NEW w, "trails" \in DOMAIN w
  PROVE  /\ Trailed(w, Stepped(w)) /\ Trailed(w, Arrived(w)) /\ Trailed(w, Released(w))
         /\ \A i : Trailed(w, Chosen(w, i))
         /\ \A c : Trailed(w, Unloaded(w, c))
<1>1. Trailed(w, Stepped(w))
  <2> DEFINE ant == w.ants[Forager]
             u == Ant(w, Forager, [at |-> ant.path[1], path |-> Tail(ant.path)])
  <2>1. Trailed(w, u)
    BY PartsLeaveNoTrail
  <2>2. Stepped(w) = w \/ Stepped(w) = Worked(u)
    BY DEF Stepped
  <2> HIDE DEF u
  <2>3. Trailed(u, Worked(u))
    BY <2>1, PartsLeaveNoTrail DEF Trailed
  <2> QED BY <2>1, <2>2, <2>3 DEF Trailed
<1>2. Trailed(w, Arrived(w))
  <2> DEFINE i == PlaceOf(w, Forager)
             n == Min({w.sources[i].amount, w.ants[Forager].reserved})
             u == Loaded(w, i, n)
             v == Ant(u, Forager, [cargo |-> "Food", amount |-> n, reserved |-> 0,
                                   state |-> "Returning"])
  <2>1. Arrived(w) = Routed(v, Forager, Hall)
    BY DEF Arrived
  <2>2. Trailed(w, u)
    BY PartsLeaveNoTrail
  <2> HIDE DEF u
  <2>3. Trailed(u, v)
    BY <2>2, PartsLeaveNoTrail DEF Trailed
  <2> HIDE DEF v
  <2>4. Trailed(v, Routed(v, Forager, Hall))
    BY <2>3, PartsLeaveNoTrail DEF Trailed
  <2> QED BY <2>1, <2>2, <2>3, <2>4 DEF Trailed
<1>3. Trailed(w, Released(w))
  <2> DEFINE i == PlaceOf(w, Forager)
             freed == IF i = 0 THEN w ELSE Claim(w, i, -w.ants[Forager].reserved)
             v == Ant(freed, Forager, [path |-> <<>>, source |-> 0, reserved |-> 0,
                                       state |-> "AtHome"])
  <2>1. Trailed(w, freed)
    BY PartsLeaveNoTrail DEF Trailed
  <2>2. Released(w) = v
    BY DEF Released
  <2> HIDE DEF freed
  <2>3. Trailed(freed, v)
    BY <2>1, PartsLeaveNoTrail DEF Trailed
  <2> QED BY <2>1, <2>2, <2>3 DEF Trailed
<1>4. ASSUME NEW i PROVE Trailed(w, Chosen(w, i))
  <2> DEFINE u == Claim(w, i, Offered(w, i))
             v == Ant(u, Forager, [source |-> w.sources[i].id, reserved |-> Offered(w, i),
                                   state |-> "ToSource"])
  <2>1. Chosen(w, i) = Routed(v, Forager, w.sources[i].at)
    BY DEF Chosen
  <2>2. Trailed(w, u)
    BY PartsLeaveNoTrail
  <2> HIDE DEF u
  <2>3. Trailed(u, v)
    BY <2>2, PartsLeaveNoTrail DEF Trailed
  <2> HIDE DEF v
  <2>4. Trailed(v, Routed(v, Forager, w.sources[i].at))
    BY <2>3, PartsLeaveNoTrail DEF Trailed
  <2> QED BY <2>1, <2>2, <2>3, <2>4 DEF Trailed
<1>5. ASSUME NEW c PROVE Trailed(w, Unloaded(w, c))
  <2> DEFINE left == w.ants[Forager].amount - Room(w, c)
             me == IF left > 0 THEN [amount |-> left]
                   ELSE [path |-> <<>>, amount |-> 0, cargo |-> "None", state |-> "AtHome",
                         source |-> 0]
             u == Heaped(w, c, Room(w, c))
             v == Ant(u, Forager, me)
  <2>1. Unloaded(w, c) = Worked(v)
    BY DEF Unloaded
  <2>2. Trailed(w, u)
    BY PartsLeaveNoTrail
  <2> HIDE DEF u, me
  <2>3. Trailed(u, v)
    BY <2>2, PartsLeaveNoTrail DEF Trailed
  <2> HIDE DEF v
  <2>4. Trailed(v, Worked(v))
    BY <2>3, PartsLeaveNoTrail DEF Trailed
  <2> QED BY <2>1, <2>2, <2>3, <2>4 DEF Trailed
<1> QED BY <1>1, <1>2, <1>3, <1>4, <1>5

\* A forager on her way.
LEMMA TravelLeavesNoTrail ==
  ASSUME NEW w, "trails" \in DOMAIN w
  PROVE  Trailed(w, Travelled(w))
<1> DEFINE r == IF Fresh(w, Forager) THEN w ELSE Routed(w, Forager, Goal(w))
           u == Walked(w)
<1>1. u = Stepped(r)
  BY DEF Walked
<1>2. Trailed(w, r)
  BY PartsLeaveNoTrail DEF Trailed
<1> HIDE DEF r
<1>3. Trailed(r, u)
  BY <1>1, <1>2, WalksLeaveNoTrail DEF Trailed
<1>4. \/ Travelled(w) = u \/ Travelled(w) = Arrived(u)
      \/ Travelled(w) = Ant(u, Forager, [path |-> <<>>, state |-> "Storing"])
  BY DEF Travelled
<1> HIDE DEF u
<1>5. Trailed(u, u) /\ Trailed(u, Arrived(u))
      /\ Trailed(u, Ant(u, Forager, [path |-> <<>>, state |-> "Storing"]))
  BY <1>3, WalksLeaveNoTrail, PartsLeaveNoTrail DEF Trailed
<1> QED BY <1>2, <1>3, <1>4, <1>5 DEF Trailed

\* No turn of a worker leaves a trail.
LEMMA TurnsLeaveNoTrail ==
  ASSUME NEW w, WorldInv(w), NEW v \in Foraged(w) \cup Excavated(w)
  PROVE  v.trails = w.trails
<1>1. "trails" \in DOMAIN w
  BY WorldDomain DEF WorldInv
<1>2. CASE v \in Foraged(w)
  <2>1. w.ants[Forager].state \in {"AtHome", "ToSource", "Returning", "Storing"}
    <3>1. w.ants[Forager] \in AntRecord
      BY Fields DEF WorldInv
    <3> QED BY <3>1, AntFields
  <2>2. \/ v = w \/ v = Travelled(w) \/ v = Released(w)
        \/ \E i \in Offers(w) : v = Travelled(Chosen(w, i))
        \/ \E c \in w.zones : v = Unloaded(w, c)
    BY <1>2, <2>1 DEF Foraged
  <2>3. ASSUME NEW i PROVE Travelled(Chosen(w, i)).trails = w.trails
    <3> DEFINE u == Chosen(w, i)
    <3>1. Trailed(w, u)
      BY <1>1, WalksLeaveNoTrail
    <3> HIDE DEF u
    <3>2. Trailed(u, Travelled(u))
      BY <3>1, TravelLeavesNoTrail DEF Trailed
    <3> QED BY <3>1, <3>2 DEF Trailed, u
  <2> QED BY <1>1, <2>2, <2>3, WalksLeaveNoTrail, TravelLeavesNoTrail DEF Trailed
<1>3. CASE v \in Excavated(w)
  <2> DEFINE empty == Ant(w, Digger, [cargo |-> "None", amount |-> 0])
  <2>1. Trailed(w, empty)
    BY <1>1, PartsLeaveNoTrail
  <2>2. \/ v = w \/ v = empty \/ v = Tipped(empty, Dump)
        \/ \E c : v = Worked(Ant(Dug(w, c), Digger, [cargo |-> "Spoil", amount |-> 1]))
    BY <1>3 DEF Excavated
  <2> HIDE DEF empty
  <2>3. Trailed(empty, Tipped(empty, Dump))
    BY <2>1, PartsLeaveNoTrail DEF Trailed
  <2>4. ASSUME NEW c
        PROVE  Worked(Ant(Dug(w, c), Digger, [cargo |-> "Spoil", amount |-> 1])).trails = w.trails
    <3> DEFINE u == Dug(w, c)
               x == Ant(u, Digger, [cargo |-> "Spoil", amount |-> 1])
    <3>1. Trailed(w, u)
      BY <1>1, PartsLeaveNoTrail
    <3> HIDE DEF u
    <3>2. Trailed(u, x)
      BY <3>1, PartsLeaveNoTrail DEF Trailed
    <3> HIDE DEF x
    <3>3. Trailed(x, Worked(x))
      BY <3>2, PartsLeaveNoTrail DEF Trailed
    <3> QED BY <3>1, <3>2, <3>3 DEF Trailed, x, u
  <2> QED BY <2>1, <2>2, <2>3, <2>4 DEF Trailed
<1> QED BY <1>2, <1>3

\* The morning and the founding leave no trail.
LEMMA MorningLeavesNoTrail ==
  ASSUME NEW w, WorldInv(w)
  PROVE  /\ Retired(w).trails = w.trails /\ Planned(w).trails = w.trails
         /\ Retired(w).open = w.open /\ Planned(w).open = w.open
<1>1. "trails" \in DOMAIN w /\ "open" \in DOMAIN w
  BY WorldDomain DEF WorldInv
<1>2. Retired(w).trails = w.trails /\ Retired(w).open = w.open
  BY <1>1 DEF Retired
<1>3. Planned(w).trails = w.trails /\ Planned(w).open = w.open
  BY <1>1 DEF Planned, RefreshedZones
<1> QED BY <1>2, <1>3

\* An evening's trails are the dense field's.
LEMMA EveningIsDense ==
  ASSUME SavedInv, EndTick
  PROVE  Trails!Dense!Update \/ UNCHANGED <<world.trails.front, world.open>>
<1>1. WorldInv(world)
  BY DEF SavedInv
<1>2. PICK fed \in IF (run.tick + 1) % Second = 0 THEN Eaten(world) ELSE {world} :
        world' = [(IF TrailsDue THEN Faded(fed) ELSE fed) EXCEPT !.worked = 0]
  BY DEF EndTick
<1>3. WorldInv(fed) /\ fed.trails = world.trails /\ fed.open = world.open
  BY <1>1, EatenHolds
<1>4. "trails" \in DOMAIN fed /\ "open" \in DOMAIN fed
  BY <1>3, WorldDomain DEF WorldInv
<1>5. CASE TrailsDue
  <2> DEFINE t == Updated(fed.trails, fed.open)
  <2>1. Faded(fed) = [fed EXCEPT !.trails = t]
    BY TrailsAgree DEF Faded
  <2>2. t.front = Everywhere(world.trails, world.open)
    BY <1>1, <1>3, ComputedEverywhere DEF WorldInv, LifeHolds
  <2> HIDE DEF t
  <2>3. world' = [[fed EXCEPT !.trails = t] EXCEPT !.worked = 0]
    BY <1>2, <1>5, <2>1
  <2>4. world'.trails = t /\ world'.open = world.open
    BY <1>3, <1>4, <2>3
  <2>5. \A f, ground, c : Trails!Dense!Faded(f, ground, c) = Dense!Faded(f, ground, c)
    BY DEF Trails!Dense!Faded, Dense!Faded, Trails!Dense!Mixed, Dense!Mixed, Trails!Dense!Seen,
           Dense!Seen
  <2>6. Everywhere(world.trails, world.open)
          = [c \in Cells |-> Trails!Dense!Faded(world.trails.front, world.open, c)]
    BY <2>5 DEF Everywhere
  <2> QED BY <2>2, <2>4, <2>6 DEF Trails!Dense!Update
<1>6. CASE ~TrailsDue
  <2>1. world' = [fed EXCEPT !.worked = 0]
    BY <1>2, <1>6
  <2> QED BY <1>3, <1>4, <2>1
<1> QED BY <1>5, <1>6

\* A mark is one of the dense field's.
LEMMA MarkIsDense ==
  ASSUME SavedInv, MarkTrail
  PROVE  \/ \E c \in Cells, a \in Amounts : Trails!Dense!Deposit(c, a)
         \/ UNCHANGED <<world.trails.front, world.open>>
<1>1. WorldInv(world) /\ world \in WorldRecord /\ Tidy(world.trails)
  BY DEF SavedInv, WorldInv, LifeHolds
<1> DEFINE c == world.ants[Forager].at
<1>2. c \in Cells
  <2>1. world.ants[Forager] \in AntRecord
    BY <1>1, Fields
  <2> QED BY <2>1, AntFields, Strip
<1>3. PICK a \in Amounts :
        world' = [world EXCEPT !.trails = Trails!Deposited(@, c, a)] \/ world' = world
  BY DEF MarkTrail
<1> HIDE DEF c
<1>4. CASE world' = world
  BY <1>4
<1>5. CASE world' = [world EXCEPT !.trails = Trails!Deposited(@, c, a)]
  <2>1. world'.trails = Deposited(world.trails, c, a) /\ world'.open = world.open
    BY <1>1, <1>5, WorldDomain, TrailsAgree
  <2>2. world'.trails.front = Dense!Marked(world.trails.front, c, a)
    BY <1>1, <2>1 DEF Deposited, Tidy
  <2>3. Trails!Dense!Marked(world.trails.front, c, a) = Dense!Marked(world.trails.front, c, a)
    BY DEF Trails!Dense!Marked, Dense!Marked
  <2>4. world.open \in SUBSET Cells
    BY <1>1, Fields
  <2>5. Trails!Dense!Deposit(c, a)
    BY <2>1, <2>2, <2>3, <2>4 DEF Trails!Dense!Deposit
  <2> QED BY <1>2, <2>5
<1> QED BY <1>3, <1>4, <1>5

\* The sparse trails of a run that digs, tips, saves and opens are the dense ones
\* (pheromones.cpp:27-91).
THEOREM TrailsOfRun == SpecRun => TrailsOfRunAreDense
<1>1. InitRun => Trails!Dense!Init
  <2> SUFFICES ASSUME InitRun PROVE Trails!Dense!Init
    OBVIOUS
  <2>1. world.trails = Untrodden /\ world.open = FoundingAir
    BY TrailsAgree DEF InitRun, Founded
  <2> QED BY <2>1, SavedRunAssumption DEF Trails!Dense!Init, Untrodden, Blank
<1>2. SavedInv /\ IInv /\ [NextRun]_savedVars
        => [Trails!Dense!Next]_<<world.trails.front, world.open>>
  <2> SUFFICES ASSUME SavedInv, IInv, [NextRun]_savedVars
               PROVE  [Trails!Dense!Next]_<<world.trails.front, world.open>>
    OBVIOUS
  <2>1. WorldInv(world) /\ WorldInv(world)'
    BY RunKeeps DEF SavedInv
  <2>2. world'.open \in SUBSET Cells
    BY <2>1, Fields DEF WorldInv
  <2>3. world'.trails = world.trails => [Trails!Dense!Next]_<<world.trails.front, world.open>>
    BY <2>2 DEF Trails!Dense!Next, Trails!Dense!Ground
  <2>4. CASE BeginTick
    <3> DEFINE u == Retired(world)
    <3>1. WorldInv(u) /\ u.trails = world.trails
      BY <2>1, RetiredHolds, MorningLeavesNoTrail
    <3>2. world' = Planned(u) \/ world' = u
      BY <2>4 DEF BeginTick
    <3> HIDE DEF u
    <3> QED BY <2>3, <3>1, <3>2, MorningLeavesNoTrail
  <2>5. CASE Act
    <3>1. world' \in Foraged(world) \cup Excavated(world)
      BY <2>5 DEF Act
    <3> QED BY <2>1, <2>3, <3>1, TurnsLeaveNoTrail
  <2>6. CASE MarkTrail
    BY <2>6, MarkIsDense DEF Trails!Dense!Next
  <2>7. CASE EndTick
    BY <2>7, EveningIsDense DEF Trails!Dense!Next
  <2>8. CASE Command
    BY <2>3, <2>8 DEF Command
  <2>9. CASE \E v \in Versions : Reopen(v)
    BY <2>3, <2>9, ReopenHolds
  <2>10. CASE UNCHANGED savedVars
    BY <2>3, <2>10 DEF savedVars
  <2> QED BY <2>4, <2>5, <2>6, <2>7, <2>8, <2>9, <2>10 DEF NextRun
<1> QED
  BY <1>1, <1>2, SavedInvariance, PTL
     DEF SpecRun, TrailsOfRunAreDense, Trails!RefinesDense, Trails!Dense!Spec
===============================================================================
