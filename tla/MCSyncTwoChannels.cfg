\* Two processes and two channels: the loops visit several keys, in any order.
CONSTANTS
  P1 = P1
  P2 = P2
  P3 = P3
  P4 = P4
  a = a
  b = b
  Process <- TwoProcesses
  Channel = {a, b}
  Stuck = Stuck
SPECIFICATION Spec
INVARIANTS StuckDeclared NotBlockedAndSynchronised WrittenSoFar
\* The pass ends.
CHECK_DEADLOCK FALSE
