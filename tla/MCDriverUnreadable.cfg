\* One invocation, on an output file that may exist without being readable.
CONSTANTS
  Commands <- SmallCommands
  MaxRuns = 1
SPECIFICATION Spec
INVARIANT ExistingOutputKept
CHECK_DEADLOCK FALSE
