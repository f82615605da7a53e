\* Two declarations of any types; and a name, a variable and a parameter whose
\* types may have that name.
CONSTANT Scopes <- MCScopes
SPECIFICATION Spec
INVARIANTS
  EquivalentAsMeant
  ReferencesSafe
  ConstantsHaveValues
  BroadcastSeen
\* Nothing follows the last declaration, or an error.
CHECK_DEADLOCK FALSE
