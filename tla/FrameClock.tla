------------------------------ MODULE FrameClock ------------------------------
(***************************************************************************)
(* How real time becomes whole ticks: the accumulator of the main loop     *)
(* (src/src/app/main.cpp).  One unit is a hundredth of a second, five make *)
(* a tick; the code's doubles are exact multiples here.  MainLoop conjoins *)
(* these actions with the save coordinator's.                              *)
(***************************************************************************)
EXTENDS Integers

CONSTANT Speeds    \* the speeds the player may select

VARIABLES
  accumulator,  \* simulated time not yet stepped
  paused,       \* paused
  held,         \* modal_open, recovery_prompt or between_runs
  speed,        \* speed
  limited,      \* simulation_limited
  inFrame,      \* input is handled and the frame has yet to step
  steps,        \* history: ticks stepped by the last frame
  owed,         \* history: simulated time the last frame was given
  discarded     \* history: simulated time the last frame threw away

Tick == 5
LongSleep == 50
MaxFrame == 25

Lesser(a, b) == IF a < b THEN a ELSE b
Greater(a, b) == IF a > b THEN a ELSE b

AccumulatorCap(s) == Greater(10 * Tick, s * 2 * Tick)

\* Fault: eight ticks at every speed.
StepCapFixed(s) == 8
StepCap(s) == Greater(8, s * 2)

Init ==
  /\ accumulator = 0 /\ paused \in BOOLEAN /\ held \in BOOLEAN
  /\ speed \in Speeds /\ limited = FALSE /\ inFrame = FALSE
  /\ steps = 0 /\ owed = 0 /\ discarded = 0

\* The player's part of a frame.
Input ==
  /\ ~inFrame /\ inFrame' = TRUE
  /\ paused' \in BOOLEAN /\ held' \in BOOLEAN /\ speed' \in Speeds
  /\ UNCHANGED <<accumulator, limited, steps, owed, discarded>>

\* Nothing is stepped and the backlog is kept.
Hold ==
  /\ inFrame /\ inFrame' = FALSE
  /\ paused \/ held
  /\ limited' = FALSE
  /\ steps' = 0 /\ owed' = 0 /\ discarded' = 0
  /\ UNCHANGED <<accumulator, paused, held, speed>>

\* A frame that took longer than half a second is not made up for.
Sleep(delta) ==
  /\ inFrame /\ inFrame' = FALSE
  /\ ~paused /\ ~held /\ delta > LongSleep
  /\ accumulator' = 0 /\ limited' = TRUE
  /\ steps' = 0 /\ owed' = delta * speed
  /\ discarded' = accumulator + delta * speed
  /\ UNCHANGED <<paused, held, speed>>

\* Fault: the steps taken stay in the accumulator.
AdvanceUnpaid(delta) ==
  /\ inFrame /\ inFrame' = FALSE
  /\ ~paused /\ ~held /\ delta <= LongSleep
  /\ LET given == accumulator + Lesser(delta, MaxFrame) * speed
         kept == Lesser(given, AccumulatorCap(speed))
         ticks == Lesser(kept \div Tick, StepCap(speed))
     IN /\ accumulator' = kept
        /\ steps' = ticks
        /\ limited' = (given > kept \/ kept - ticks * Tick >= Tick)
        /\ discarded' = accumulator + delta * speed - kept
  /\ owed' = delta * speed
  /\ UNCHANGED <<paused, held, speed>>

Advance(delta) ==
  /\ inFrame /\ inFrame' = FALSE
  /\ ~paused /\ ~held /\ delta <= LongSleep
  /\ LET given == accumulator + Lesser(delta, MaxFrame) * speed
         kept == Lesser(given, AccumulatorCap(speed))
         ticks == Lesser(kept \div Tick, StepCap(speed))
     IN /\ accumulator' = kept - ticks * Tick
        /\ steps' = ticks
        /\ limited' = (given > kept \/ kept - ticks * Tick >= Tick)
        /\ discarded' = accumulator + delta * speed - kept
  /\ owed' = delta * speed
  /\ UNCHANGED <<paused, held, speed>>

=============================================================================
