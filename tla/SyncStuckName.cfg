\* A process of the model is named as the process that blocks events.
CONSTANTS
  Stuck = Stuck
  Process = {P1, Stuck}
  Channel = {a}
SPECIFICATION Spec
INVARIANT AtLeastTwo
CHECK_DEADLOCK FALSE
