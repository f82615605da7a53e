--------------------------- MODULE MCSyncSemantics ---------------------------
(***************************************************************************)
(* SyncSemantics on small sets of processes and channels.                  *)
(***************************************************************************)
EXTENDS SyncSemantics, TLC

CONSTANTS P1, P2, P3, P4, a, b

TwoProcesses   == {P1, P2}
ThreeProcesses == {P1, P2, P3}
FourProcesses  == {P1, P2, P3, P4}

\* The pass compares labels for equality only.
ProcessSymmetry == Permutations(Process)
=============================================================================
