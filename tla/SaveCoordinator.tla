---------------------------- MODULE SaveCoordinator ----------------------------
(***************************************************************************)
(* When the application writes: src/src/app/save_coordinator.cpp driven by *)
(* one frame after another.  Time is counted in hundredths of a second; a  *)
(* frame first lets the player answer the prompt, then takes the save key, *)
(* then polls and commits what is due.  MainLoop conjoins these actions    *)
(* with the frame clock's.                                                 *)
(***************************************************************************)
EXTENDS Naturals

CONSTANT Interval   \* autosave_interval_seconds_

VARIABLES
  since,      \* since_autosave_
  manual,     \* manual_requested_
  enabled,    \* save_service != nullptr && !recovery_prompt
  stage,      \* where the frame stands: "prompt", "input" or "poll"
  trigger,    \* what the last poll returned
  quiet,      \* history: real time since the last attempt while enabled, up to 2 * Interval
  asked       \* history: unanswered key presses made while saving was enabled

Init ==
  /\ since = 0 /\ manual = FALSE
  /\ enabled \in BOOLEAN
  /\ stage = "prompt" /\ trigger = "none"
  /\ quiet = 0 /\ asked = FALSE

\* The recovery prompt, once resolved, does not come back.
HandlePrompt ==
  /\ stage = "prompt" /\ stage' = "input"
  /\ enabled' \in {enabled, TRUE}
  /\ UNCHANGED <<since, manual, trigger, quiet, asked>>

\* request_manual, when the save key is down.
HandleInput ==
  /\ stage = "input" /\ stage' = "poll"
  /\ \E pressed \in BOOLEAN :
       /\ manual' = (manual \/ pressed)
       /\ asked' = (asked \/ (pressed /\ enabled))
  /\ UNCHANGED <<since, enabled, trigger, quiet>>

UpTo(bound, n) == IF n > bound THEN bound ELSE n
Clamped(delta) == UpTo(Interval, delta)

\* Fault: the request waits for saving to come back.
PollDisabledKeepsRequest ==
  /\ ~enabled
  /\ since' = 0 /\ UNCHANGED manual
  /\ trigger' = "none"

PollDisabled ==
  /\ ~enabled
  /\ manual' = FALSE /\ since' = 0
  /\ trigger' = "none"

PollManual ==
  /\ enabled /\ manual
  /\ manual' = FALSE /\ since' = 0
  /\ trigger' = "manual"

\* Fault: the frame's time replaces the clock's.
PollClockAssigned(delta) ==
  /\ enabled /\ ~manual
  /\ LET now == Clamped(delta)
     IN /\ since' = IF now < Interval THEN now ELSE 0
        /\ trigger' = IF now < Interval THEN "none" ELSE "autosave"
  /\ UNCHANGED manual

PollClock(delta) ==
  /\ enabled /\ ~manual
  /\ LET now == since + Clamped(delta)
     IN /\ since' = IF now < Interval THEN now ELSE 0
        /\ trigger' = IF now < Interval THEN "none" ELSE "autosave"
  /\ UNCHANGED manual

\* poll, then commit and record_success or record_failure when something is due:
\* either record leaves since_autosave_ at zero, where the poll left it.
Poll(delta) ==
  /\ stage = "poll" /\ stage' = "prompt"
  /\ PollDisabled \/ PollManual \/ PollClock(delta)
  /\ quiet' = IF enabled /\ trigger' = "none" THEN UpTo(2 * Interval, quiet + delta) ELSE 0
  /\ asked' = (asked /\ trigger' # "manual")
  /\ UNCHANGED enabled

=============================================================================
