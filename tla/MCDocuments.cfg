CONSTANTS
  Families <- MCFamilies
  Declared <- MCDeclared
SPECIFICATION Spec
INVARIANTS
  LocationsAsDrawn
  EdgesAsDrawn
  LocationsWellFormed
  CrashesKnown
PROPERTY
  Ends
\* A document is translated, refused or given up.
CHECK_DEADLOCK FALSE
