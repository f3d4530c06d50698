CONSTANTS
  k1 = k1
  k2 = k2
  k3 = k3
  k4 = k4
  Key <- MCKey
  Value <- MCValue
  NULL = NULL
  Nil = Nil
  Hashes = {0, 3, 4}
  MinCapacity = 4
  MaxCapacity = 8
SPECIFICATION Spec
SYMMETRY MCSymmetry
INVARIANT ProbingEnds
PROPERTY ImplementsKeyMap
