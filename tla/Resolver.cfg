CONSTANTS
  Names = {a, b, c, d}
  MaxDepends = 6
  None = None
SPECIFICATION Spec
INVARIANTS ResolutionIsRight AllIsInOrder
PROPERTY LooksOnce
SYMMETRY Symmetry
