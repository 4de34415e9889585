CONSTANTS
  Interval = 60
  Deltas = {1, 4, 10, 25, 40, 60}
  Speeds = {1, 20}
SPECIFICATION Spec
INVARIANT LossIsBounded
PROPERTIES WritesAreDue NeverAhead SpeedIsReal
