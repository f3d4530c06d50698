CONSTANTS
  x = x
  y = y
  NULL = NULL
  This = This
  Names = {x, y}
  MaxLocals = 3
  MaxBreaks = 1
  MaxArgs = 1
  MaxCases = 1
  Programs <- MCPrograms
  Behaviours = {}
SPECIFICATION Spec
SYMMETRY MCSymmetry
INVARIANTS DepthIsStatic ShippedJumpsArrive NamesAgree
