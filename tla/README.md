# Verification of the ant-farm simulator

TLA+ modules for the parts of the simulator where a mistake would be expensive and hard to test:
what happens to a player's profile when the machine fails at the wrong moment, how prestige is paid
for, how real time becomes saves and ticks, what a press of a button means, the bookkeeping of the
colony (food, brood, digging) over any order of workers' turns, deaths and changes of mind, how ants
get past each other over ground that changes, and whether a run that is saved and opened again is
the run it was.  TLC checks each module on small instances, and TLAPS proves their safety
properties, and the refinements of the two abstract specifications, for every instance; what is left
to TLC is one liveness property and two comparisons of algorithms with a reference.

Paths below are relative to the repository (`src/...` here is `src/src/...` in `PROJECT.json`).

## 1. The system

The program is one process with one thread.  Every frame, `app/main.cpp` handles the recovery
prompt, takes input, gives the frame's time to the save coordinator (which may write the profile)
and then to a fixed-step clock (which steps the simulation in ticks of 1/20 s).  What is concurrent
is below and around it: other instances of the program at the same profile directory, the file
system with failures, crashes and power cuts, and, inside the simulation, hundreds of workers that
act one after another in a tick and hold claims on shared things over many ticks.

| Component | State | Operations | Interacts with | What makes it hard | What makes it correct |
|---|---|---|---|---|---|
| Save service `persistence/save_service.cpp` | `profile.json`, backup, temporaries, lock, counter, revision | open, load, commit, recover backup, replace unreadable | file system, other instances; called by the main loop | six file operations per commit, a failure or crash between any two; two platforms | an acknowledged commit survives everything; failed means not installed; nothing unreadable is destroyed; one writer |
| Prestige `game/prestige.cpp` | wallet, earned, spent, tiers, generation, receipt | flight, abandon, buy trait, found a run | main loop builds candidates from the session and commits them | retries and restarts after a failure; the same colony offered twice | the ledger balances; one payout per colony; fresh run ids |
| Main loop, durable part `app/main.cpp` | identity, live session, shop, prompt | start, recover, durable actions, autosave, exit save | save service, prestige, session | commit first, adopt after; uncertain results | what the player was shown is on disk; memory follows the file |
| Save coordinator, frame clock `app/save_coordinator.cpp`, `app/main.cpp` | time since the last attempt, pending request; accumulator | poll; sleep, hold, advance | each other through the prompt and the pause | stalls, changes of speed, prompts | bounded loss, no bursts, never ahead of real time, the chosen speed is real |
| World: food `sim/world.cpp` | sites, reservations, cargo, heaps, counters, dropped loads | choose, pick up, store, consume, clean, retire, die | biology eats, excavation adds cells, snapshot | each worker holds claims for many ticks; the same amount is counted in several places | claims exact, food conserved, counters match, room means a cell |
| World: colony life `sim/world.cpp` | queen, ants, brood, corpses, latches | lay, tend, carry, grow, hatch, starve, die, decompose | food rations, cleaning, codec's validation | many lists change in one second in a fixed order; carriers die | lists stay disjoint and savable; population balances; brood always resolves |
| World: excavation `sim/nest_plan.cpp`, `sim/world.cpp` | rooms, passages, work cache, claims, diggers, mound | review, widen, site, link, claim, dig, haul | terrain, task choice, deaths | stale claims and caches; preemption; rock | crews fit; grains balance; only planned ground is cut; never stuck |
| World: choice of tasks `sim/tasks.cpp` | none | weigh, draw | stimuli of the world, focus of the session | integer weights, cut to 32 bits | each task gets the draws it weighs |
| World: movement and crowding `sim/world.cpp`, `sim/navigation.cpp`, `sim/grid.cpp` | positions, routes, occupancy, home field, path budget | plan, walk, wait, step aside | everything that walks, digs or tips | routes grow old under walkers; occupancy kept by increments; plans are rationed | current routes can be walked; only births crowd; an errand's route ends where it was sent, and only there is it done |
| World: trails `sim/pheromones.cpp` | two fields, active cells | deposit, update, restore | foragers, terrain | only part of the field is computed | it is the field computed everywhere |
| Session, progression `game/session.cpp`, `game/progression.cpp` | work, upgrades, focus, cooldown | step, focus, buy, snapshot, restore | main loop, world | integer scaling of periods | no work lost or made |
| Reference policies `game/policy.cpp` | milestones seen | decide | headless runner | sequential | buys what a player could |
| Profile codec `persistence/profile_codec.cpp` | none | encode, decode, validate, migrate | save service, session, world | the rules must accept every reachable world, through every migration | what is saved is accepted and is the same run |
| Interface state and input `presentation/desktop_input.cpp`, `interaction.cpp`, `ui_state.cpp`, the controls of `renderer.cpp` | scene, capture, armed confirmation, held press, requests | window callbacks, input, requests, draw | main loop carries requests out | a press and its release are frames apart, and the scene may change at three points of a frame | what is carried out was pressed where it was shown |
| Drawing, camera, icons, terrain damage, window size, snapshot view | derived | draw | snapshot only | floating-point layout | no effect on the simulation |
| Terrain generation, random generator | seed | pure functions | world | numeric | determinism |
| Content loader, paths, headless runner, benchmark | none | I/O, command line | session | sequential | - |

Everything that is hard to test in these parts is listed, at its line, under `hazards` in
`PROJECT.json` with the properties that would catch it going wrong.

## 2. The modules

| Module | Models | Composes |
|---|---|---|
| `DurableProfile` | the abstract store: one profile that changes by whole revisions | - |
| `SaveService` | `save_service.cpp`, one action per file operation | implements `DurableProfile` |
| `SaveServiceProofs` | theorems about `SaveService` | |
| `Prestige` | `prestige.cpp` as pure operators on records | - |
| `App` | `main.cpp`: identity, session, shop, prompt, commits | extends `Prestige`, abstracts `SaveService` |
| `AppProofs` | theorems about `App` and `Prestige` | |
| `SaveCoordinator`, `FrameClock` | `save_coordinator.cpp`; the accumulator of `main.cpp` | - |
| `MainLoop` | one frame after another | conjoins `SaveCoordinator` and `FrameClock` |
| `FoodEconomy` | sites, foragers, heaps, meals, dropped loads | - |
| `FoodProofs` | theorems about `FoodEconomy` | |
| `Totals` | lemmas about sums over finite sets and values passed on from step to step | used by all proofs but those of `SaveService` and `Colony` |
| `Colony` | queen, brood, workers, corpses | - |
| `ColonyProofs` | theorems about `Colony` | |
| `Excavation` | nest plan, claims, digging, hauling | - |
| `ExcavationProofs` | theorems about `Excavation` | |
| `Tasks` | `tasks.cpp` and the weights of `World::choose_task`, as operators | used by `MCExcavation` |
| `Navigation` | `grid.cpp` and `navigation.cpp`: ground, home field, path search, as operators | - |
| `Traffic` | walks of workers, queen and winged queens | extends `Navigation` |
| `TrafficProofs` | theorems about `Traffic` and `Navigation` | |
| `TrailWeights`, `DenseTrails` | the constants of `pheromones.cpp`; the field computed everywhere | - |
| `TrailField` | `pheromones.cpp` | implements `DenseTrails` |
| `Session` | `session.cpp`, the content rules of `progression.cpp`, the purchases of `policy.cpp` | - |
| `ProfileCodec` | migrations and validation of `profile_codec.cpp`, as operators | - |
| `SavedRun` | a run saved and opened again | extends `Session`, `ProfileCodec`; has a `TrailField` |
| `Interface` | window events, input, requests, controls | - |
| `RunProofs` | theorems about `Session`, `Tasks`, `TrailField`, `MainLoop`, `Interface` and `SavedRun` | |
| `MCSaveService`, `MCPlatforms`, `MCApp`, `MCExcavation`, `MCTraffic`, `MCSavedRun`, `MCInterface` | instances for TLC | |

Operators marked `Fault:` in the modules are plausible mistakes.  They are used by nothing: the
`mutants` of `PROJECT.json` put each in the place of the definition that follows it and TLC then
finds the listed property violated, which shows that the property depends on that code.

### SaveService

A file's content is a revision and a payload (a profile that validates), unreadable garbage, a torn
write or nothing.  `disk` is what processes read, `platter` the set of disk states a power cut may
leave: every directory operation reaches the platter in its own time, until `sync_directory`
returns.  Each process runs `open`, `load`, then any number of commits; `pc` names the next file
operation of `commit` (`save_service.cpp:77-111`): candidate and backup to temporaries, both
verified by reading back, backup renamed, current renamed, directory synced, temporaries removed.
`Hazards` selects what the environment may do: fail a read, write, rename, sync or remove, hand in a
snapshot that does not validate, kill a process, cut the power, damage a file.  `Platform` selects
the branch of `#if defined(_WIN32)`.  The backup is only damaged while `profile.json` is whole: with
both gone there is nothing left that any program could save.

### App

The store here has three outcomes per commit - installed, failed, and installed but reported as
failed - which are those `SaveService` shows to a caller.  A colony is reduced to what prestige
reads (births, winged queens, maturity, the queen), and history variables follow each lineage of
profiles: colonies founded, run ids used, flights paid.  `told` holds the flights whose success the
player saw.  `drifted` marks a commit that was installed but reported as failed.

### MainLoop

One unit of time is 1/100 s; a tick takes five.  A frame is three steps: the prompt, the input, and
the rest (`Saves!Poll(delta)` together with one of `Clock!Hold`, `Clock!Sleep`, `Clock!Advance`).
The code's doubles are exact here.

### FoodEconomy, Colony, Excavation

All three cut `World::step` differently.  In `FoodEconomy` and `Excavation` a step is the opening of
a tick, one worker's turn in the order of ids, or the end of the tick, because claims are made and
dropped inside a tick; in `Colony` the whole of `update_biology` is one step and nurses and cleaners
act between two seconds.  Preferences - which site, which heap, which task, which route - only
decide among choices that the models leave open; walking is "arrived or not yet".

`Excavation` sees the ground as a small graph of cells.  `Updates` is `NestPlan::update`: passages
and rooms are reviewed, an unfinished room without an entrance gets one, and, when there is no
project, a room is widened or sited, or a cross-passage planned.  `work` is the cache of
`work_cells` with whether it is current, so that a stale one would show.  How many bites a cell
takes is left open: a digger at its face either cuts through or does not.  Which of the routes
through soil a passage takes is left open, and so are the limits of the planner's search on steps and
length; the cells a room gains as it is widened come at once, where the code adds a ring at a time.

### Tasks, Navigation, Traffic

`Tasks` is `tasks.cpp` as it is computed, in integers.  `Excavation` leaves a worker's choice of
task open; the assumption `ChoiceIsOpen` of `MCExcavation` compares that with what a draw can give.

`Navigation` has the home field, as a wave from home, and the bounded search node by node, over a
ground with a revision; both are recursive functions of the number of rounds.  The assumption
`RoutesAgree` of `MCTraffic` compares the two on every ground of two rows of three.  In `Traffic` an
ant is a cell, a route and whether the route is current; a step is one ant's turn, and a crossing
from cell to cell is one step, "not yet across" otherwise.  Turns of one kind of worker are
functions from what the ant sees (its own state, the occupancy, the plans left in the tick, the
ground) to the outcomes it can have, so that `move_one_tick`, `route_to` and `refresh_path` appear
once and are used as the code uses them.  `choose_task` is open: a worker may drop any task that
does not carry.  A scout held up on a leg forgets which leg it was on.

### TrailField

`front_` and `back_` are functions on cells, `active_` a set.  `Updated` computes candidates only,
swaps the fields and wipes the old one where candidates were.  `DenseTrails` is the same arithmetic
on every cell.  `Restore` is a field read from a document, which names no active cells.

### Session, ProfileCodec, SavedRun

`Session` maps a session record to the one an operation leaves.  `ProfileCodec` has the three
migrations and those rules of `validate_world` that relate parts of a document: sites and claims,
heaps, rooms and stores, tiers, winged queens.  `SavedRun` puts a session and the part of the world
a document holds into one record; `Saved` is what `snapshot` writes, `Restored` what the restoring
constructors derive, and `AsVersion` what an older program would have written of the same run.  The
world is cut down to what differs between a run and its copy: a strip of cells with one forager and
one digger, one nutrient, walks inside the nest in one step, brood and corpses that do not change,
and a second room the plan adds when stores are half full.  There is no ration of plans: a route that
grew old is planned anew at the next turn, as rations are the subject of `Traffic`.  A step maps a world to the worlds it can
leave (`Foraged`, `Excavated`, `Planned`, ...), as the handlers change one `World`.  `Reopen` puts
the restored copy in the place of the run, so that all later steps run on it.  Version 1 knew no
traits, so it is opened only without them.

### Interface

A frame is events, `update_input`, the requests of `main.cpp`, and `draw`, where controls are
tracked in the order they are drawn.  The window is twelve spots, the overlaps of the controls'
rectangles in the smallest window, 1024 by 640.  History variables say which scene was on the screen
(`shown`), which one when the button went down (`begun`), and how many presses there were in this
visit to the pause menu.  Controls that ask for the same thing are one control, which lets a press
on one and a release on another count as a click: more than the code allows.  At most one key that
asks for something goes down in a frame.  There is no input before the first frame, because raylib
polls the window in `EndDrawing`.

## 3. The runs

| Run | Instance | Questions |
|---|---|---|
| `save_platforms` | two instances, three revisions, and one of two branches; POSIX: every write/rename/sync/validation failure, crash and power cut; Windows: two payloads, write and rename failures, crashes, damage from outside and both ways of recovery | POSIX: does an acknowledged profile survive everything; is the backup the revision before; does failed mean not installed; is there one writer; is it a `DurableProfile`; Windows: does some readable revision survive every point of the remove-then-rename |
| `save_lost_original` | *violation*: two damages | an original moved aside by one process is overwritten by the next: names restart at the same number |
| `app_profile` | three kinds of colony, a debug hook, damage, restarts, three generations | ledger, one payout, fresh run ids, promises kept, memory follows file, traits once, help remembered |
| `app_uncertain` | *violation*: two seeds | after a commit reported as failed the program may overwrite an installed flight |
| `main_loop` | interval of 60 units, six frame times from 1/100 s to 0.6 s, speeds 1 and 20 | bounded loss, every write due, never ahead, speed real |
| `food` | two workers, two sites at a time and three over time, one scout, two to three cells | counters match, room means a cell, deposits make progress, claims exact and ended, food conserved |
| `colony_life` | one founder, six ids, all durations minimal | lists disjoint and savable, population balances, carriers live, brood advances |
| `excavation` | eight cells with a rock and a pocket, three workers, crews of two | crews fit, grains balance, only planned ground is cut, never stuck |
| `traffic` | two workers, the queen, a winged queen, nine cells, one ant to a cell, one route a tick or none | actors restorable, only births crowd, the current route of an errand ends where the errand does |
| `traffic_errands` | *violation*: the same instance | a load is taken up far from its site by a worker whose route grew old in a tick without a plan left |
| `saved_run` | five ticks, two sites, two rooms, one upgrade, one focus, a save after any step, opened as version 1 to 4 | documents accepted, the copy is the run, work balances, the trails are the dense ones |
| `interface` | twelve spots, any order of presses, moves, releases, keys, frames and results of commits | requests stay in their scene, abandoning is meant |

A type invariant that a run checks is a conjunct of one of its properties (`LedgerBalances`,
`CountersMatch`, `ColonySaves`, `RequestsStayInScene`).  `WritesAreDue` joins `PromptStopsAll` and
`AutosavesSpaced`.  The assumptions `ExactFloor`, `ChoiceIsOpen` and `RoutesAgree` are comparisons
of pure algorithms with a reference, which TLC evaluates before the run (`ExactFloor` for every
value of a register of twelve bits, `Digits` = 6).

**Why the bounds are enough.**  `MCPlatforms` has an instance of `SaveService` for each branch of
`#if defined(_WIN32)`, with its own hazards and bounds; the first state says which one was compiled,
and the other never moves, so the run has the states of the two and not their product.  A commit of
the save service only looks at the current revision and the one before it, so three revisions show
first, second and later commits; a second process matters through the lock only.  `MaxTemp` bounds
the temporary names one process lifetime takes and lets each process commit or recover at least
once.  In `App` three generations give a first flight, a flight after a flight and one after an
abandoned run; `MaxLegacy` = 12 covers the traits that can be bought with them.  `Deltas` of
`MainLoop` holds a short frame, the 25-unit cap, both sides of the 50-unit sleep limit and exactly
one interval.  `FoodEconomy` needs two workers to interleave and two sites to disagree; a forager
carries two and a site holds one, so that a heap of one takes a load, part of one or none of it.
`Colony` needs one dying carrier, one item of each stage and one winged queen.  `Excavation` needs
one more worker than a crew, a room, a widening and a cross-passage. `Traffic` needs every kind of
ant, a cell of room one so that two ants meet it, a way that opens and one that closes, and a budget
that is there or used up; the queen and one of the two workers die (`Mortal`), since the other
worker's death and the winged queen's do to occupancy and routes what theirs do.  `SavedRun` needs a
site that is emptied while claimed, a room known to the plan and not yet to the zones, a tick on
either side of a second and of a trail update.  Its colony has no industry tier, because a document
of version 1 has none; all a tier changes in a session is the length of a block, and
`WorkBalancesOverSaves` is proved for every tier and every base that leave one.  `Interface` has no
bound of its own: the capture, the press and the scenes are finite.

**Deadlock** is checked except in `save_platforms`: on Windows the model itself stops at its bounds
on names and revisions.  (In the other runs a crash, another frame or another tick is always possible.)

**Fairness.**  Only `FoodEconomy` assumes any: `WF_vars(Next)`, that the world goes on being
stepped, because `ReservationsEnd` is its one liveness property.  A worker's turn is not assumed
fair separately: turns come in a fixed order within a step.  Expiry is counted in turns, so weak
fairness of the whole is what the code's loop gives.  That brood resolves is stated without fairness
as `BroodAdvances`: every second brings every item nearer to hatching or to starving, by a bounded
measure.

## 4. What is proved

`SaveServiceProofs` proves for any set of processes, payloads, garbage, hazards and any bounds:

- `TypeCorrect`: `Spec => []TypeOK`, on both platforms.  `TypeOK` is not inductive; `TypeInv` adds
  what the stage of a process says about its counter and payload (`StageOK`).
- `SingleWriter`: on POSIX the lock is held exactly by the process that is alive.
- `Refinement`: on POSIX `SaveService` implements `DurableProfile`.  This holds with damage from
  outside and with recovery too, which the passing runs exercise on the Windows branch only.
- `AckedDurable`: on POSIX an acknowledged profile is what every power cut leaves, or a later one.
- `BackupCorrect`: on POSIX the backup is the revision before the current one, or its copy.
- `FailedNotInstalled`: on POSIX a commit reported as failed has not installed its candidate.
- `OneNameSurvives`: on POSIX always, and on Windows without power cuts, one of the two names holds
  a profile that decodes, once one has been acknowledged.

The invariant behind the last two (`Inv`) joins the types, the single writer, and two facts.
`PlatterOK`: the disk as processes see it is among the states a power cut may leave, and is the only
one where power is never cut.  `HoldOf(p)`: what a writing process believes is true - the current
revision is still the one it read and its candidate is one above it; once verified, the temporary
holds that candidate; at the sync `profile.json` is that candidate.  This is inductive only because
no other process can write while the lock is held.  Each action is then mapped: the rename of the
candidate is `Install`, the directory sync `Acknowledge`, moving an unreadable file away `SetAside`,
and everything else stutters in the eyes of `profile.json`.  The assumptions are `SaveAssumption`
(stated in `SaveService` and evaluated by TLC in every run) and, where named, `Platform = "posix"`:
on Windows the rename is two steps and the abstract store has a gap in it.

The last three theorems each add to it what their property rests on, and name the hazards under
which the code does not keep it.  `PairInv` says of both the disk and every state a power cut may
leave that backup and current are a pair, and of each stage of a commit which pair its renames will
leave (`PairHold`).  It needs the two files to change through the program only and to read back as
they are (`{"read", "damage"} \cap Hazards = {}`): a failed read makes `load` offer the recovery of
a profile that is fine, and a recovery starts the revisions again beside the old backup.  `FailInv`
needs only the reads: a failing re-read after a failing sync is reported as a failure although the
candidate is there.  `SurviveInv` follows a readable file through removal and rename; the Windows
branch syncs no directory, so there a power cut may undo both renames.  The run `save_platforms`
stays within these hypotheses; its `SomeRevisionSurvivesOnWindows` is `SomeRevisionSurvives`, which
`OneNameSurvives` proves, of the Windows instance.

`RunProofs` proves every property of `MainLoop` for any autosave interval, any frame times and any
speeds (`LoopAssumption`: natural numbers, interval and speeds not zero): `RiskBounded`,
`SavesSpaced`, `PromptHolds` and their join `WritesDue`, `BacklogBounded`, `ClockNeverAhead`,
`SpeedKept`.  None of the properties is inductive.  `LoopInv` adds what they rest on: the save clock
equals the real time since the last attempt (`RiskInv`), a request that is pending while saving is
enabled was made while it was enabled, and none outlives its frame (`RequestInv`), the backlog is
below half a second between frames (`ClockInv`), and an open prompt holds the clock and follows a
frame that neither saved nor stepped (`PromptInv`).  The backlog survives a drop in speed because
the cap never goes below ten ticks: `StepFacts` is that arithmetic, `FinishKeeps` and `PollKeeps`
are its use in a frame.  `BacklogBounded` (`StepsBounded`) is proved only; no run repeats it.

It proves of a session by itself, for any block, price list, cooldown and number of productive
ticks, that work balances (`WorkAlwaysBalances`) and that its counters are always those
`Session::restore` accepts (`RunsCanBeRestored`).  `IInv` joins the two with the types: a step keeps
the balance only because what was accounted for is all there was.

Of the trails it proves, on any ground with symmetric neighbours and for any weights and deposits,
that the field which computes candidates only implements the one that computes every cell
(`SparseRefinesDense`).  The invariant is `SparseInv` (`SparseFieldIsTidy`): the spare field is
blank between updates, and the active cells are exactly those with a trail.  A cell that is no
candidate fades to zero in the dense field because neither it nor a neighbour carries anything.  The
theorem is about `SpecTrails`, where deposits, updates, restores and changes of ground come in any
order; that the trails of a run do nothing else is `TrailsOfRun`, below.

Of the choice of tasks it proves for any stimuli, thresholds, focus and task at hand that each
weight is at most 18,750 and their sum at most 93,750 and never zero, far inside the 32 bits of the
draw (`WeightsFit`), and for any weights that every draw ends with a task that weighs something and
that each task gets exactly as many draws as it weighs (`DrawsMatchWeights`).

Of the run that is saved and opened again `RunProofs` proves every property of `saved_run`, for any
strip of cells, sites, rooms, prices and workers' loads: `ProfilesAlwaysReopen`,
`CopiesShareTheFuture`, `WorkBalancesOverSaves` and, as a refinement, `TrailsOfRun`.
`SavedRunAssumption` says of the geometry what the code has by construction: the turf is open and
the sites lie on it, the nest is finite, no two sites have one id, and the plan adds rooms to those
there are.  The invariant (`SavedInvariance`) is the session's `IInv` with `SavedInv`, whose parts
are called after what they are about.

- `LandHolds`: turf and heaps are open ground, the zones are among the cells the nest would give now
  and equal them when they are current, and what is stored fits.  Without the second a dig between
  two refreshes would leave nothing to say of the copy's capacity.
- `CrewHolds`: ids of sites differ; a site's claim is exactly the forager's; who holds a claim names
  a site that exists; state, claim and cargo go together.
- `LifeHolds`: only a mature colony counts eggs, and the trails are tidy in the sense of
  `SparseInv`.
- No turn of a worker is left to account for between two steps.

Routes need no invariant of their own: every way lies on the turf, which nobody digs or tips.  Each
part of a handler keeps the parts of the world it does not name (`Frame`, `LandKept`, `CrewKept`,
`LifeKept`), so a handler's lemma only argues about what it changes.  The zones come out of a
recursive function, and that they lie on open ground and grow with it is proved from a smallest
counterexample (`JoinedGrows`).  For the documents, `IsSaved` says what `snapshot` writes and
`Alike` what a document of any version has in common with it once migrated: an older program's
document loses fields (`AgedIs`, `AgedWithoutTraits`) that the migrations give back (`AgedMigrates`,
`AntRenamed`: a worker's place in the list and the id there name one site because ids differ).
`OpensWell` then shows that the world restored from such a document is in order and passes both
validations, and `CopyIsAlike` that it is the world that was saved when its zones were current.  The
refinement needs besides that no turn of a worker touches the trails (`TurnsLeaveNoTrail`), and that
a restored field is the field that was saved with its active cells found again (`TrailsCopied`).

Of the interface it proves both properties of the run `interface`, for any window, any rectangles of
controls and any order of events: `AbandonNeedsTwoPresses` and `RequestsOfTheirScene`.
`InterfaceAssumption` says where controls are as far as it matters: the footer of the Legacy page
lies apart from its other two controls.  `UiInv` (`UiInvariance`) follows a press: which scene was
shown when it began (`DeviceInv`), what the input that saw its edge took for the scene (`SceneInv`,
`OfferInv`), which control captured it and in which visit to the pause menu (`PressInv`), what a
click on the world belongs to (`ClickInv`), and for which scene a request was made (`UiRequestInv`).
A page is drawn control after control; what each of them keeps, the page keeps.

`AppProofs` proves every property of the run `app_profile` for any seeds, colonies, limits of
wallet, generation and revision, with and without damage and debug tools, from the assumptions of
`Prestige` and `App` alone: `LedgersBalance`, `OneCreditEach`, `FreshIds`, `FlightsTold`,
`ViewIsStore`, `TraitsAreOwned`, `NoHelpedFlight`.  They follow from one inductive invariant,
`AppInv` (`AppInvariance`).  Its heart is `GoodProfile`, which is meant for anything that may be
written: the balances are sums over the flights of the lineage and the tiers owned (`Balanced`); as
many colonies were founded and run ids used as there are generations, every colony flew at most once
and without help (`Lineage`); a colony that runs has not flown, has the tiers owned, and the receipt
is not its own (`Running`).  `AppInv` says that both files and what the loop would write now
(`Mine`) are good profiles, that the loop's flags fit its phase, and adds the promises and the view.
The receipt is why `CreditedOnce` needs more than itself: a second payout is refused only because a
receipt names the run that was paid for, and a run that is restored is a run of the same lineage.
The lemmas come in three layers: each action of `Prestige` makes a good profile of a good one
(`FlyIsGood`, `BuyIsGood`, `AbandonIsGood`, `FoundIsGood`), a commit with any of its outcomes keeps
files, memory and promises together (`CommitKeeps`), and every action of the loop is one of these
(`AppStep`).

`RootIsExact` is a theorem about the payout's square root for a register of any width, so for the 64
bits the code has: the bit stops at the right power of four (`BitAligned`), each turn settles one
digit (`DigitSettles`), and there are as many turns as digits (`DigitsSuffice`).

`FoodProofs` proves every safety property of the run `food` for any numbers of workers, sites,
scouts and cells: `CountersAreFood`, `ClaimsAreKept`, `RoomIsOffered`, `DepositsMove`, and
`FoodIsConserved`, an action property.  The invariant `FoodInv` (`FoodInvariance`) joins the types,
the claims of each site as the sum of what the workers bound for it hold, the carried totals as the
sum of the cargo, the stored totals as the sum of the heaps, within the capacity of the cells, and
that no two heaps share a cell (`HeapsApart`).  A death is the hard step: it releases claims, drops
loads in the order of ids and retires sites at once, so the lemmas about it speak of sums over the
set of the dying.

`ColonyProofs` proves every property of the run `colony` for any founders, durations, capacities,
caps and ids: `ColoniesSave`, `EveryEggCounted`, `BroodInLiveHands`, and `BroodAlwaysAdvances`, an
action property.  The invariant `ColonyInv` (`ColonyInvariance`) joins the first three and adds what
they need of each other: there are ids left for every item of brood (`IdsLast`), which keeps the
hatched and the next egg within the bound of the model; the corpse in a cleaner's grip is below the
next id; no item is as old as its stage lasts; no item has the queen's id.  The second is the hard
step, since everything in it happens at once.  Its parts get names (`Passes`) and their own lemmas:
each item stays, starves or hatches and the three numbers add up (`BroodParts`), the hatched get new
ids, one each, by their rank (`Ranks`, `KidsAreNew`), the egg fits the caps (`ItemsAre`), the dying
let go of brood and corpses (`LaidDownKeeps`, `CorpsesAfter`), and whatever moved, nothing is in two
places (`SecondDisjoint`).  What nurses and cleaners do between two seconds is one item or one
corpse that changes hands (`SwapKeeps`, `GripKeeps`).

`ExcavationProofs` proves every property of the run `excavation` for any ground, rock, sites,
numbers of workers and limits: `CrewsAlwaysFit`, `EveryGrainCounted`, `ProjectIsNeverStuck`, and
`OnlyThePlanIsDug`, an action property.  There are three invariants, each resting on the one before.

- `DigInv` (`DigInvariance`): what was open stays open, and rock stays closed (`AirInv`); the rooms
  are rooms; while a tick runs every face that is held is in `claims`, no two ants hold the same
  one, and a held face that is still ground is one the project needs (`CrewInv`); the cache, when it
  is fresh, is what would be computed now (`WorkInv`).  The last is what makes a face safe to cut
  long after it was claimed: between two reviews of the plan air only grows, so what the project
  needs of the ground that is left does not shrink (`NeedLasts`), and a review drops the faces that
  are needed no longer.  The limit on a crew follows from the length of `claims`, by counting the
  crew through its faces (`CrewSize`).
- `GrainInv` (`GrainInvariance`): as many cells were cut as grains were counted, and a grain counted
  is delivered, carried or lost.  A death changes two of these at once.
- `PlanInv` (`PlanInvariance`): a passage is a route of neighbouring cells through no rock, from the
  nest as it is now to the centre of its room; a passage called complete is cut; a room that is
  complete or has no passage is reached from the nest; at most one room is unfinished.  Every way a
  review can change the plan (finish, enter, widen, site, link) keeps it (`GrowthKeepsPlan` and the
  lemmas before it).  `NeverStuck` follows: an unfinished passage leads out of the nest, so some
  cell of it that is ground touches the nest; once it is cut the room is reached, and a chamber that
  still has ground has a cell of it next to the nest, because the chamber is one spread from there
  (`SpreadLeaves`, `ChamberExposed`); a chamber without ground is finished by the next review
  (`ProjectMoves`).

`Spread` and the routes are recursive functions, and what is needed of them (bounds, closure,
growth, how a spread leaves a set) is proved from a smallest counterexample as in `Totals`.  The
assumptions say of the geometry what the code has by its loops: the grid is finite; the shoulders of
a passage are neighbours of its cells; a room contains its centre, and a wider room contains the
smaller one (`Room::contains`) (`FoundingAssumption` adds that each founding room was carved with a
passage from home, `terrain_generation.cpp:138-140`).

`TrafficProofs` proves every property of the run `traffic`, for any size of grid, terrain, set of
ants, room of a cell, budget of plans and expansions, and any ranking among equals:
`ActorsAlwaysRestorable`, `ErrandRoutesAlwaysLead` and, an action property, `NoWalkCrowds`.  What
`traffic_errands` shows to fail, it proves where plans last (`LoadsComeFromTheSite`): a load taken
up away from the site comes of a route that grew old in a tick without a plan left, and of nothing
else.  `TrafficAssumption` asks that the hall is open, that founders stand where one can
stand, and that a cell holds an ant and a search may look at a cell.  The proof has three layers.

- The searches.  Every cell that was met was entered from a cell nearer to the start (`Traced`), so
  the way read back from a search that completed leads over walkable ground from the start to the
  goal.  A home field leads down, so a way home read off it can be walked on the ground it was
  computed for.
- A turn.  Each handler is composed of the same few operations; a turn leaves an ant where she is
  with a route that is empty, old or `Ready` (it leads on from where she stands and ends where her
  errand ends), or one cell further on a route that was ready.  Crossing into a cell is the only way
  to be somewhere else, and it asks for room.
- The invariant `TrafficInv` (`TrafficInvariance`).  `GroundInv`: the hall stays open, and a field
  that counts as current fits the ground.  `AntInv`: nobody is inside ground and current routes are
  ready; digging and tipping make every route old at once, which is why this is inductive at all,
  and nobody tips onto an ant.  `CountInv`: once a tick has begun, the count of a cell is the number
  of ants on it; this is what `HasRoom` is read from, so without it a walk could crowd.  `TurnInv`:
  the ant whose turn it is is there.

`Totals` holds what the sums, counts and searches rest on.  The fold of the community modules over a
finite set is the sum one expects: it does not depend on the order, splits over disjoint sets and
changes by the difference at one element (`SumIsAdder` and what follows it).  The library's
induction theorems take an operator as a parameter, which the installed provers cannot instantiate;
these lemmas therefore argue from a smallest counterexample, a set that `NoneBad` and `NoneBadUpTo`
show to be empty.  `Iterated` gives in the same way the values of a recursive function over an
interval.

Only model-checked:

- `ReservationsEnd` of `FoodEconomy`, as liveness is out of the provers' reach.
- `RoutesAgree`, that the search finds the way the home field has, evaluated for every ground of six
  cells: both would have to be shown to be least over all paths, an induction over paths for each.
  What the theorems of `Traffic` use - a found way can be walked - is proved.
- `ChoiceIsOpen`, a comparison of `Tasks` with the choices of `Excavation` in a given instance.

## 5. Disagreements between the code and what is said of it

Shown by runs (`findings` in `PROJECT.json`):

- `save_lost_original`: the unreadable file one session set aside is overwritten by the next
  session's (`save_service.cpp:75,116`, against `docs/engineering/PERSISTENCE.md:76`).
- `app_uncertain`: a flight that was installed and reported as failed is overwritten by the next
  autosave (`main.cpp:314`, against `docs/engineering/PERSISTENCE.md:59`).
- `traffic_errands`: a load is taken up away from its site.  `refresh_path` leaves a forager whose
  route grew old an empty route in a tick without a plan left (`world.cpp:808-810`),
  `move_one_tick` takes an empty route for the end of the walk (`world.cpp:820`), and `arrive` then
  loads from afar (`world.cpp:696,854-863`), against the comment at `world.cpp:1118-1119`.

Stated by a property in the form the code has, so that a run would tell if it changed:

- Saving changes the future for up to a second.  The restoring constructor refreshes the zones
  (`world.cpp:91`), a running world does so once a second; until then a copy knows store cells the
  saved colony does not, against the title at `tests/unit/snapshot_tests.cpp:87`.  `SameFuture`
  leaves out saves made in that second.
- A birth in a hall whose neighbours are full takes a cell past its cap, and `relieve_crowding`
  cannot drain a pile with full neighbours.  `OnlyBirthsCrowd` says that nothing else does it.
- A base of one productive tick is valid content (`progression.cpp:40`), and with the fourth
  industry tier its block is zero, by which `session.cpp:28` divides.  `SessionAssumption` leaves it
  out and says so.

Seen while reading and not given a run of their own (`SIMULATION.md` and `PERSISTENCE.md` are in
`docs/engineering`):

- `docs/engineering/SIMULATION.md:54` and `docs/design/NEST_NETWORK.md:49` give two workers to a face and four claims
  to a project; the code allows six workers at six distinct faces (`nest_plan.cpp:270-282`).
- The comment at `world.hpp:82-84` says that spoil adds up; a grain in the grip of a dying hauler is
  in neither counter (`world.cpp:1219`).  `GrainsBalance` accounts for it in `lost`.
- Room at home is judged for each site without what is reserved at the others (`world.cpp:782`),
  against the title and comment of `tests/unit/policy_tests.cpp:95-99`.
- `spoil_overflow`, `sources_found`, `sources_exhausted` and `rooms_built` are not in a document and
  start again from zero (`profile_codec.cpp:80-90`).
- Grain over a store's capacity in a document of version 1 to 3 is dropped without being counted
  (`profile_codec.cpp:211-212`).
- A trail beside a wall gains mass: the share that spreads into the wall's cell is also kept
  (`pheromones.cpp:50-57`, against the title at `tests/unit/task_system_tests.cpp:46`).
- Two full cells whose ants want to change places stand still until somebody chooses otherwise
  (`docs/planning/NEXT_STEPS.md:104`).
- A capture outlives the frame of its release.  When the next press comes in the very next frame, on
  blank ground within four pixels of a control, a click can complete on a control that press did not
  begin on (`ui_state.cpp:46-47`, against `ui_state.hpp:43`).
- A second press in the frame right after the click that arms it reaches "Confirm" before it was
  drawn (`renderer.cpp:1571-1585`); `AbandonMeant` counts it as the second press it is.
- Temporary names are unique within a process only (`save_service.cpp:75`, `PERSISTENCE.md:56`).
- The revision starts again after a recovery (`save_service.cpp:90`, `PERSISTENCE.md:17`).
- A crash between setting the unreadable file aside and the commit leaves a fresh start
  (`save_service.cpp:79`, `PERSISTENCE.md:76`).
- On Windows there is no `profile.json` between the two halves of a rename (`save_service.cpp:38`,
  `PERSISTENCE.md:62`), and the lock file outlives a killed process (`save_service.cpp:62`,
  `PERSISTENCE.md:11`).
- A frame between 0.25 s and 0.5 s loses time without showing it (`main.cpp:449`,
  `SIMULATION.md:7`).
- A nurse that is called away leaves the carried item where it was lifted (`world.cpp:921`,
  `SIMULATION.md:226`), and a corpse dropped by a dying cleaner restarts its age (`world.cpp:1219`,
  `SIMULATION.md:133`).

## 6. What is not modelled

- Drawing, camera, icons, terrain damage, the window's size and the snapshot view: pure output of a
  snapshot in floating point.  Of the renderer only what a control does is modelled.  Hover and
  press animation, scrolling and which ant a click selects are left out of `Interface`.
- The random generator and terrain generation: pure functions of the seed; their results appear as
  choices.
- The content loader, paths, the headless runner and the benchmark: plain I/O.  Of the policies only
  the purchases are modelled; milestones only read.
- JSON text and the range checks of single fields: a payload of `SaveService` is a profile that
  validates, a document of `ProfileCodec` a record.
- Positions inside a cell and speeds: a crossing is one step of arbitrary length.
- The world modules are separate views of one `World::step`: what one leaves open (rations, when
  cells are dug, who is called to another task, how long a walk takes) another determines.  A run of
  all of them at once is beyond TLC; `SavedRun` composes a thin slice of each.

## 7. The plan

Done: the durable profile, prestige and the main loop; food, brood and digging; movement and trails;
the session, the codec and their composition in a saved run; the interface; a proof of every safety
property the runs check.  In order of importance, left to do:

1. A refinement from `App` to an abstract ledger of flights.
2. Deaths, births and dropped loads in `SavedRun`, which now only has workers who live.
3. That both searches of `Navigation` are shortest, for `RoutesAgree`.
