---------------------------- MODULE DurableProfile ----------------------------
(***************************************************************************)
(* What the save service promises its caller, with no files, temporaries   *)
(* or backup in sight: one profile that changes by whole revisions.  An    *)
(* unreadable profile is set aside, never overwritten; an acknowledged     *)
(* revision is what every power cut leaves, until a later one replaces it. *)
(***************************************************************************)
EXTENDS Naturals

CONSTANTS Payloads, Unreadable, MaxRevision

Profiles == [rev : 1..MaxRevision, data : Payloads]
None == [rev |-> 0, data |-> "absent"]

VARIABLES
  value,      \* what a load reads
  survivors,  \* what a load might read after a power cut now
  safe        \* the last acknowledged profile, None before any

vars == <<value, survivors, safe>>

Init ==
  /\ value = None
  /\ survivors = {None}
  /\ safe = None

\* The new value is visible at once and reaches the platter later.
Becomes(v) ==
  /\ value' = v
  /\ survivors' \in {survivors \cup {v}, {v}}

Install(d) ==
  /\ value \in Profiles \cup {None}
  /\ value.rev < MaxRevision
  /\ Becomes([rev |-> value.rev + 1, data |-> d])
  /\ UNCHANGED safe

Acknowledge ==
  /\ value \in Profiles
  /\ safe' = value
  /\ survivors' = {value}
  /\ UNCHANGED value

PowerLoss ==
  /\ value' \in survivors
  /\ survivors' = {value'}
  /\ UNCHANGED safe

\* Something outside the program makes the profile unreadable.
Damage ==
  /\ value' \in Unreadable
  /\ survivors' = {value'}
  /\ safe' = None

\* The recovery path moves the profile out of the way.
SetAside ==
  /\ value # None
  /\ Becomes(None)
  /\ safe' = None

Next ==
  \/ \E d \in Payloads : Install(d)
  \/ Acknowledge
  \/ PowerLoss
  \/ Damage
  \/ SetAside

Spec == Init /\ [][Next]_vars
=============================================================================
