\* Four processes around one channel: every way they may share it.
CONSTANTS
  P1 = P1
  P2 = P2
  P3 = P3
  P4 = P4
  a = a
  b = b
  Process <- FourProcesses
  Channel = {a}
  Stuck = Stuck
SPECIFICATION Spec
SYMMETRY ProcessSymmetry
INVARIANTS AtLeastTwo NoMoveLost NoMoveInvented
\* The pass ends.
CHECK_DEADLOCK FALSE
