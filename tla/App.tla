---------------------------------- MODULE App ----------------------------------
(***************************************************************************)
(* The application's main loop, src/src/app/main.cpp: the identity it      *)
(* carries, the live session, the shop between runs, the recovery prompt,  *)
(* and every commit it makes, over a store that may fail in each of the    *)
(* ways SaveService.tla derives from save_service.cpp step by step.        *)
(***************************************************************************)
EXTENDS Prestige, FiniteSetsExt

CONSTANTS
  Seeds,        \* options.seed values a process may be started with
  Colonies,     \* [births, winged, mature, queen] that a session may grow into
  DebugTools,   \* whether Session::debug_grant_work is ever called
  Damages,      \* whether files change from outside
  MaxRevision   \* numeric_limits<uint64_t>::max()

ASSUME AppAssumption ==
  /\ Seeds \subseteq Nat \ {0}
  /\ Colonies \subseteq [births : Nat, winged : Nat, mature : BOOLEAN, queen : BOOLEAN]
  /\ DebugTools \in BOOLEAN /\ Damages \in BOOLEAN
  /\ MaxRevision \in Nat \ {0}

VARIABLES
  current,      \* what profile.json decodes to, Absent or Unreadable
  backup,       \* the same for profile.backup.json
  alive,        \* a process runs
  saving,       \* it holds a SaveService
  prompt,       \* recovery_prompt
  offered,      \* recovery_backup
  betweenRuns,  \* between_runs
  session,      \* the live Session
  identity,     \* ProfileIdentity
  seed,         \* options.seed
  told,         \* history: flights whose success the player was shown
  drifted       \* history: a commit was installed but reported as failed

disk == <<current, backup>>
memory == <<prompt, offered, betweenRuns, session, identity>>
vars == <<disk, alive, saving, memory, seed, told, drifted>>

Absent == [revision |-> 0, kind |-> "absent"]
Unreadable == [revision |-> 0, kind |-> "unreadable"]
Readable(file) == file \notin {Absent, Unreadable}

\* What a lineage of profiles has been through, told apart by colony.
FreshHistory(id) == [founded |-> 1, ids |-> {id}, flown |-> {}]

NoIdentity ==
  [runId |-> NoRun.id, meta |-> FreshMeta, revision |-> 0, receipt |-> NoReceipt,
   history |-> FreshHistory(NoRun.id)]

NewIdentity(s) ==
  [NoIdentity EXCEPT !.runId = RunId(s, 1), !.history = FreshHistory(RunId(s, 1))]

BuildCandidate(id, s, between) ==
  [revision |-> 0,
   phase |-> IF between THEN "BetweenRuns" ELSE "ActiveRun",
   meta |-> id.meta,
   receipt |-> id.receipt,
   run |-> IF between THEN NoRun ELSE [id |-> id.runId, session |-> s],
   history |-> id.history]

\* The profile a durable action is offered: build_candidate at this revision.
Offered(between) ==
  [BuildCandidate(identity, session, between) EXCEPT !.revision = identity.revision]

Adopt(id, profile) ==
  [id EXCEPT
     !.meta = profile.meta, !.revision = profile.revision,
     !.receipt = profile.receipt, !.history = profile.history,
     !.runId = IF profile.run = NoRun THEN @ ELSE profile.run.id]

\* Fault: the assisted flag is not restored.
RestoredUnassisted(run) == [run.session EXCEPT !.assisted = FALSE]

\* Fault: the owned traits are applied again at each load.
RestoredTwice(run) == [run.session EXCEPT !.traits = [b \in TraitBranch |-> 2 * @[b]]]

\* Session::restore.
Restored(run) == run.session

\* The session behind the shop is a backdrop that is never written.
SessionOf(profile) ==
  IF profile.run = NoRun THEN FreshSession(TraitModifiers(profile.meta), 0)
  ELSE Restored(profile.run)

-----------------------------------------------------------------------------
(* SaveService::commit: the outcomes the caller can tell apart, and those   *)
(* it cannot.                                                               *)

Outcome(cur, bak, committed) == [current |-> cur, backup |-> bak, committed |-> committed]

CommitOutcomes(cur, bak, candidate) ==
  LET next == [candidate EXCEPT !.revision = cur.revision + 1]
      kept == IF cur = Absent THEN bak ELSE cur
  IN IF cur = Unreadable \/ cur.revision = MaxRevision
     THEN {Outcome(cur, bak, FALSE)}
     ELSE {Outcome(cur, bak, FALSE),     \* nothing happened
           Outcome(cur, kept, FALSE),    \* the backup was replaced
           Outcome(next, kept, FALSE),   \* installed, reported as failed
           Outcome(next, kept, TRUE)}

\* SaveService::replace_unreadable: the current file is moved aside first.
ReplaceOutcomes(cur, bak, candidate) ==
  {Outcome(cur, bak, FALSE)} \cup CommitOutcomes(Absent, bak, candidate)

Installs(o, cur) == o.current # cur /\ o.current # Absent

-----------------------------------------------------------------------------
Init ==
  /\ current = Absent /\ backup = Absent
  /\ alive = FALSE /\ saving = FALSE
  /\ prompt = FALSE /\ offered = Absent /\ betweenRuns = FALSE
  /\ session = FreshSession([b \in TraitBranch |-> 0], 0)
  /\ identity = NoIdentity
  /\ seed \in Seeds
  /\ told = {} /\ drifted = FALSE

\* What the outcome of a commit means to the player and to the files.
Settle(o) ==
  /\ current' = o.current /\ backup' = o.backup
  /\ drifted' = IF o.committed THEN FALSE ELSE drifted \/ Installs(o, current)

\* commit_transaction, and commit alike: the outcome for the files, and the identity from it.
CommitTransaction(o) ==
  /\ Settle(o)
  /\ identity' = IF o.committed THEN Adopt(identity, o.current) ELSE identity

NewColony(s) ==
  /\ session' = FreshSession([b \in TraitBranch |-> 0], 1)
  /\ identity' = NewIdentity(s)
  /\ betweenRuns' = FALSE

\* main up to the loop: load, and resume, shop, prompt or a new colony.
Start ==
  /\ ~alive
  /\ alive' = TRUE
  /\ seed' \in Seeds
  /\ saving' \in BOOLEAN
  /\ IF saving' /\ Readable(current)
     THEN /\ identity' = Adopt(NoIdentity, current)
          /\ session' = SessionOf(current)
          /\ betweenRuns' = (current.run = NoRun)
          /\ prompt' = FALSE /\ offered' = Absent
     ELSE /\ NewColony(seed')
          /\ prompt' = (saving' /\ current = Unreadable)
          /\ offered' = IF prompt' /\ Readable(backup) THEN backup ELSE Absent
  /\ drifted' = FALSE
  /\ UNCHANGED <<disk, told>>

\* Death at any point; a death inside a commit is the outcome followed by it.
Crash ==
  /\ alive
  /\ alive' = FALSE
  /\ UNCHANGED <<disk, saving, memory, seed, told, drifted>>

\* Something outside makes the file unreadable.
Damage ==
  /\ Damages /\ Readable(current)
  /\ current' = Unreadable
  /\ told' = {}
  /\ UNCHANGED <<backup, alive, saving, memory, seed, drifted>>

-----------------------------------------------------------------------------
(* The simulation and the debug hook *)

GrowsInto(s, c) ==
  /\ c.births >= s.births
  /\ s.mature => c.mature
  /\ c.queen => s.queen

\* session->step, as often as it takes to reach a state the flight can tell.
Grow ==
  /\ alive /\ ~prompt /\ ~betweenRuns
  /\ \E c \in Colonies :
       /\ GrowsInto(session, c)
       /\ session' = [session EXCEPT !.births = c.births, !.winged = c.winged,
                                     !.mature = c.mature, !.queen = c.queen]
  /\ UNCHANGED <<disk, alive, saving, prompt, offered, betweenRuns, identity, seed, told,
                 drifted>>

\* Session::debug_grant_work.
DebugGrantWork ==
  /\ DebugTools /\ alive
  /\ session' = [session EXCEPT !.assisted = TRUE, !.helped = TRUE]
  /\ UNCHANGED <<disk, alive, saving, prompt, offered, betweenRuns, identity, seed, told,
                 drifted>>

-----------------------------------------------------------------------------
(* Saves and transactions *)

Durably == alive /\ saving /\ ~prompt

\* commit: autosave and manual save.
Save ==
  /\ Durably
  /\ \E o \in CommitOutcomes(current, backup, BuildCandidate(identity, session, betweenRuns)) :
       CommitTransaction(o)
  /\ UNCHANGED <<alive, saving, prompt, offered, betweenRuns, session, seed, told>>

\* The orderly exit: one last save, after which the process ends.
ExitSave ==
  /\ Durably
  /\ \E o \in CommitOutcomes(current, backup, BuildCandidate(identity, session, betweenRuns)) :
       Settle(o)
  /\ alive' = FALSE
  /\ UNCHANGED <<saving, memory, seed, told>>

\* Fault: success is shown before it is known.
RequestFlightOptimistic ==
  /\ Durably /\ ~betweenRuns
  /\ CanFly(Offered(FALSE), session, identity.runId, identity.revision)
  /\ \E o \in CommitOutcomes(current, backup, Fly(Offered(FALSE), session)) :
       /\ CommitTransaction(o)
  /\ betweenRuns' = TRUE
  /\ told' = told \cup {session.colony}
  /\ UNCHANGED <<alive, saving, prompt, offered, session, seed>>

\* flight_requested.
RequestFlight ==
  /\ Durably /\ ~betweenRuns
  /\ CanFly(Offered(FALSE), session, identity.runId, identity.revision)
  /\ \E o \in CommitOutcomes(current, backup, Fly(Offered(FALSE), session)) :
       /\ CommitTransaction(o)
       /\ betweenRuns' = o.committed
       /\ told' = IF o.committed THEN told \cup {session.colony} ELSE told
  /\ UNCHANGED <<alive, saving, prompt, offered, session, seed>>

\* trait_requested.
RequestTrait ==
  /\ Durably /\ betweenRuns
  /\ \E b \in TraitBranch :
       /\ CanBuyTrait(Offered(TRUE), b, identity.revision)
       /\ \E o \in CommitOutcomes(current, backup, BuyTrait(Offered(TRUE), b)) :
            CommitTransaction(o)
  /\ UNCHANGED <<alive, saving, prompt, offered, betweenRuns, session, seed, told>>

\* abandon_requested.
RequestAbandon ==
  /\ Durably /\ ~betweenRuns
  /\ CanAbandon(Offered(FALSE), identity.revision)
  /\ \E o \in CommitOutcomes(current, backup, Abandon(Offered(FALSE))) :
       /\ CommitTransaction(o)
       /\ betweenRuns' = o.committed
  /\ UNCHANGED <<alive, saving, prompt, offered, session, seed, told>>

\* Fault: the new colony is shown whether or not it was committed.
RequestNewRunOptimistic ==
  /\ Durably /\ betweenRuns
  /\ CanFoundRun(Offered(TRUE), identity.revision)
  /\ LET founded == FoundRun(Offered(TRUE), seed + identity.meta.generation)
     IN \E o \in CommitOutcomes(current, backup, founded) :
          /\ CommitTransaction(o)
          /\ session' = Restored(founded.run)
          /\ betweenRuns' = FALSE
  /\ UNCHANGED <<alive, saving, prompt, offered, seed, told>>

\* new_run_requested.
RequestNewRun ==
  /\ Durably /\ betweenRuns
  /\ CanFoundRun(Offered(TRUE), identity.revision)
  /\ \E o \in CommitOutcomes(current, backup,
                             FoundRun(Offered(TRUE), seed + identity.meta.generation)) :
       /\ CommitTransaction(o)
       /\ session' = IF o.committed THEN Restored(o.current.run) ELSE session
       /\ betweenRuns' = ~o.committed
  /\ UNCHANGED <<alive, saving, prompt, offered, seed, told>>

-----------------------------------------------------------------------------
(* The recovery prompt *)

\* recover_requested.
RequestRecover ==
  /\ alive /\ saving /\ prompt /\ offered # Absent
  /\ \E o \in ReplaceOutcomes(current, backup, offered) :
       /\ Settle(o)
       /\ IF o.committed
          THEN /\ identity' = Adopt(identity, o.current)
               /\ betweenRuns' = (o.current.run = NoRun)
               /\ session' = SessionOf(o.current)
               /\ prompt' = FALSE /\ offered' = Absent
          ELSE UNCHANGED memory
  /\ UNCHANGED <<alive, saving, seed, told>>

\* new_colony_requested: the identity is reset before the commit.
RequestNewColony ==
  /\ alive /\ saving /\ prompt
  /\ session' = FreshSession([b \in TraitBranch |-> 0], 1)
  /\ LET reset == [identity EXCEPT !.runId = RunId(seed, 1), !.meta = FreshMeta,
                                   !.history = FreshHistory(RunId(seed, 1))]
     IN \E o \in ReplaceOutcomes(current, backup, BuildCandidate(reset, session', FALSE)) :
          /\ Settle(o)
          /\ IF o.committed
             THEN /\ identity' = Adopt(reset, o.current)
                  /\ betweenRuns' = FALSE
                  /\ prompt' = FALSE /\ offered' = Absent
             ELSE /\ identity' = reset
                  /\ UNCHANGED <<betweenRuns, prompt, offered>>
  /\ UNCHANGED <<alive, saving, seed, told>>

Next ==
  \/ Start \/ Crash \/ Damage
  \/ Grow \/ DebugGrantWork
  \/ Save \/ ExitSave
  \/ RequestFlight \/ RequestTrait \/ RequestAbandon \/ RequestNewRun
  \/ RequestRecover \/ RequestNewColony

Spec == Init /\ [][Next]_vars
-----------------------------------------------------------------------------
(* Properties *)

Files == {f \in {current, backup} : Readable(f)}

\* Every ledger there is: the files' and, in a living process, its own.
Ledgers ==
  {[meta |-> f.meta, history |-> f.history] : f \in Files}
  \cup (IF alive THEN {[meta |-> identity.meta, history |-> identity.history]} ELSE {})

\* The sum of a function's values.
Total(f) == MapThenSumSet(LAMBDA x : f[x], DOMAIN f)
SpentOnTier(tier) == Total([t \in 1..tier |-> kTraitCosts[t]])

Sessions == [traits : [TraitBranch -> 0..kMaxTraitTier], births : Nat, winged : Nat,
             mature : BOOLEAN, queen : BOOLEAN, assisted : BOOLEAN,
             colony : 0..MaxGeneration, helped : BOOLEAN]

Metas == [wallet : 0..MaxLegacy, earned : 0..MaxLegacy, spent : 0..MaxLegacy,
          tier : [TraitBranch -> 0..kMaxTraitTier], generation : 1..MaxGeneration,
          flights : 0..MaxGeneration]

\* Types of the loop's state; no counter runs past its width and no balance or
\* price goes below zero (prestige.cpp:111-117,157-165,178-180).
TypeOK ==
  /\ alive \in BOOLEAN /\ saving \in BOOLEAN /\ prompt \in BOOLEAN
  /\ betweenRuns \in BOOLEAN /\ drifted \in BOOLEAN
  /\ session \in Sessions /\ identity.meta \in Metas
  /\ identity.revision \in 0..MaxRevision
  /\ \A f \in Files :
       /\ f.meta \in Metas
       /\ f.revision \in 1..MaxRevision
       /\ (f.run = NoRun) <=> (f.phase = "BetweenRuns")
       /\ f.run # NoRun => f.run.session \in Sessions
  /\ told \subseteq 1..MaxGeneration

\* The wallet is what flights earned less what the owned tiers cost, in memory
\* and in both files, whatever failed in between, within the types (prestige.cpp:118-124,159-166).
LedgerBalances ==
  /\ TypeOK
  /\ \A l \in Ledgers :
       /\ l.meta.wallet = l.meta.earned - l.meta.spent
       /\ l.meta.spent = Total([b \in TraitBranch |-> SpentOnTier(l.meta.tier[b])])
       /\ l.meta.earned = Total([f \in l.history.flown |-> f.payout])
       /\ l.meta.flights = Cardinality(l.history.flown)

\* A colony is paid for once: no lineage of profiles holds two flights of one
\* colony, and a colony that may still fly has not flown, even after a failed
\* commit, a crash or a restored backup (prestige.cpp:98-106,122-124).
CreditedOnce ==
  \A f \in Files :
    /\ \A x, y \in f.history.flown : x.colony = y.colony => x = y
    /\ f.run # NoRun => f.run.session.colony \notin {x.colony : x \in f.history.flown}

\* Run ids tell colonies apart within a lineage, so a receipt never blocks the
\* flight of another colony (prestige.cpp:103-106,178-188).
RunIdsAreFresh ==
  /\ \A l \in Ledgers : Cardinality(l.history.ids) = l.history.founded
  /\ \A f \in Files : f.run # NoRun => NotCredited(f)

\* A flight the player was told of is in profile.json from then on, through
\* crashes and failed commits, until the file itself is damaged (main.cpp:309-321).
PromiseKept ==
  told # {} => Readable(current) /\ told \subseteq {x.colony : x \in current.history.flown}

\* The live view only changes with the profile: unless a commit was reported
\* as failed after it was installed, the shop, the identity and the colony on
\* screen are those of profile.json (main.cpp:305-321,404-432).
ViewMatchesStore ==
  (alive /\ saving /\ ~prompt /\ ~drifted /\ Readable(current)) =>
    /\ current.meta = identity.meta
    /\ current.history = identity.history
    /\ (current.run = NoRun) <=> betweenRuns
    /\ ~betweenRuns => /\ current.run.id = identity.runId
                       /\ current.run.session.colony = session.colony

\* The traits of a colony are those owned when it was founded, and nothing is
\* bought while it lives: a running colony has exactly the owned tiers
\* (prestige.cpp:149-151,184; session.cpp:13-19).
TraitsAppliedOnce ==
  /\ \A f \in Files : f.run # NoRun => f.run.session.traits = TraitModifiers(f.meta)
  /\ (alive /\ ~betweenRuns /\ ~prompt) => session.traits = TraitModifiers(identity.meta)

\* Help from the debug hook bars a colony from flying for good, across saves
\* and restarts (session.cpp:82,104,113-119; prestige.cpp:88).
HelpedNeverFlies ==
  \A l \in Ledgers : \A x \in l.history.flown : ~x.helped

\* A flight that profile.json holds stays in it: the file is read again before
\* anything is written over an outcome that was uncertain (main.cpp:309-321).
FlightsAreFinal ==
  [][(Readable(current) /\ Readable(current')) =>
       current.history.flown \subseteq current'.history.flown]_vars
=============================================================================
