\* An invocation and its retry, with every command line of up to two options.
CONSTANTS
  Commands <- SmallCommands
  MaxRuns = 2
SPECIFICATION Spec
INVARIANTS TypeOK SuccessMeansComplete ReadableOutputKept FailedOutputBlocksRetry
PROPERTY NeverRemoved
\* After MaxRuns invocations nobody starts another one.
CHECK_DEADLOCK FALSE
