CONSTANTS
  Models <- MCModels
  Offered <- MCOffered
SPECIFICATION Spec
INVARIANTS
  MappingComplete
  ArgumentsAsPassed
  SizesIndependent
  OneKindOfSync
  AcceptedTranslates
\* A system is translated or refused.
CHECK_DEADLOCK FALSE
