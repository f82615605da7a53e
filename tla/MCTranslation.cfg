\* Systems that synchronise by emissions and receptions, and in the way of CSP
\* by IO sections.
CONSTANTS
  Systems <- AllSystems
  ProcessLabels <- SmallProcessLabels
  ChannelLabels <- SmallChannelLabels
  StuckProcess <- StuckLabel
  Ints = {0, 1, 2, 3}
SPECIFICATION TSpec
INVARIANTS TablesReady LabelsApart SameMoves ElementsHaveEdges EventsDeclared
PROPERTY Completes
\* A translation ends.
CHECK_DEADLOCK FALSE
