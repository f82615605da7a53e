\* Arrays declared in one piece or flattened, with two uses; refused
\* declarations; pairs of variables with their defaults.
CONSTANTS
  UsesOf <- MCUsesOf
  MaxUses = 2
  Programs <- MCPrograms
SPECIFICATION Spec
INVARIANTS LinesWellFormed UsesFindCells CellsKeptApart DefaultsAgree
\* A translation ends.
CHECK_DEADLOCK FALSE
