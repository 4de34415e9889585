------------------------------- MODULE MainLoop -------------------------------
(***************************************************************************)
(* One frame of the main loop after another (src/src/app/main.cpp:283):    *)
(* the recovery prompt is answered, input is taken, and then the same time *)
(* is given to the save coordinator, which may write, and to the frame     *)
(* clock, which steps the colony.  A recovery prompt stops both.           *)
(***************************************************************************)
EXTENDS Naturals

CONSTANTS
  Interval,   \* the autosave interval
  Deltas,     \* frame times, stalls among them
  Speeds      \* the speeds the player may select

ASSUME LoopAssumption ==
  /\ Interval \in Nat \ {0}
  /\ Deltas \subseteq Nat /\ Speeds \subseteq Nat \ {0}

VARIABLES
  service,    \* save_service != nullptr
  prompt,     \* recovery_prompt
  since, manual, enabled, stage, trigger, quiet, asked,
  accumulator, paused, held, speed, limited, inFrame, steps, owed, discarded

Saves == INSTANCE SaveCoordinator
Clock == INSTANCE FrameClock

vars ==
  <<service, prompt, since, manual, enabled, stage, trigger, quiet, asked,
    accumulator, paused, held, speed, limited, inFrame, steps, owed, discarded>>

\* There is nothing to recover without a save service.
Init ==
  /\ Saves!Init /\ Clock!Init
  /\ service \in BOOLEAN /\ prompt \in BOOLEAN
  /\ (prompt => service /\ held) /\ enabled = (service /\ ~prompt)

\* A prompt that is answered brings the restored profile's speed, or the first one.
HandlePrompt ==
  /\ Saves!HandlePrompt
  /\ prompt' \in {prompt, FALSE}
  /\ enabled' = (service /\ ~prompt')
  /\ IF prompt' = prompt THEN UNCHANGED speed ELSE speed' \in Speeds
  /\ UNCHANGED <<service, accumulator, paused, held, limited, inFrame, steps, owed, discarded>>

HandleInput ==
  /\ Saves!HandleInput
  /\ Clock!Input
  /\ (prompt => held')
  /\ UNCHANGED <<service, prompt>>

\* The rest of the frame, after it took `delta`.
Finish(delta) ==
  /\ Saves!Poll(delta)
  /\ Clock!Hold \/ Clock!Sleep(delta) \/ Clock!Advance(delta)
  /\ UNCHANGED <<service, prompt>>

Next == HandlePrompt \/ HandleInput \/ \E d \in Deltas : Finish(d)

Spec == Init /\ [][Next]_vars

-----------------------------------------------------------------------------
(* Properties. *)

\* No more than the interval is ever at risk: while saving is enabled the real time since the last
\* attempt stays below it at every frame's end (save_coordinator.cpp:42-45).
LossIsBounded == stage = "prompt" /\ enabled => quiet < Interval

\* No burst of saves: an autosave comes only when a whole interval of real time has passed since the
\* last attempt or since saving was enabled, however long the stall (save_coordinator.cpp:41-45).
AutosavesSpaced ==
  [][\A d \in Deltas : Finish(d) /\ trigger' = "autosave" => quiet + d >= Interval]_vars

\* Nothing is written and nothing is stepped while the prompt is open, and a save asked for then is
\* forgotten: a manual save answers a key pressed while saving was enabled, and answers it once
\* (save_coordinator.cpp:31-40, main.cpp:444).
PromptStopsAll ==
  [][/\ trigger' = "manual" /\ stage = "poll" => enabled /\ asked
     /\ prompt => trigger' = "none" /\ steps' = 0]_vars

\* Every write is due: a key or a whole interval asked for it, and no prompt forbids it.
WritesAreDue == PromptStopsAll /\ AutosavesSpaced

\* The colony never runs ahead of the clock: what a frame steps and what it leaves were there before
\* or were given by its own time, so neither a pause nor a change of speed is paid back later
\* (main.cpp:444-466).
NeverAhead ==
  [][inFrame /\ ~inFrame' =>
       accumulator' + steps' * Clock!Tick <= accumulator + owed']_vars

\* The selected speed is real at thirty frames a second: such a frame throws nothing away, whatever
\* the speed was before (main.cpp:450-456).
SpeedIsReal ==
  [][(inFrame /\ ~inFrame' /\ accumulator < Clock!Tick /\ owed' <= 4 * speed) =>
       accumulator' < Clock!Tick /\ discarded' = 0]_vars

\* A change to a lower speed leaves no burst of steps: a frame never steps more than half a second
\* of simulated time, or two ticks per unit of speed (main.cpp:453-466).
StepsBounded ==
  ~inFrame =>
    accumulator < 10 * Clock!Tick /\ steps <= Clock!Greater(10, 2 * speed)

=============================================================================
