\* Two processes, one channel: the receptions of the only emitter.
CONSTANTS
  P1 = P1
  P2 = P2
  P3 = P3
  P4 = P4
  a = a
  b = b
  Process <- TwoProcesses
  Channel = {a}
  Stuck = Stuck
SPECIFICATION Spec
INVARIANT ReceiverNeedsEmitter
CHECK_DEADLOCK FALSE
