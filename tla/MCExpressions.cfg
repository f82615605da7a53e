CONSTANTS
  Scopes <- MCScopes
  Clocks <- MCClocks
  Max = 7
  Width = 4
SPECIFICATION TextSpec
INVARIANTS
  ConstantsRight
  GuardsConvex
  TextMeansTheSame
  EffectsTheSame
\* An expression is accepted, written or refused, and that is the end.
CHECK_DEADLOCK FALSE
