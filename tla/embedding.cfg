CONSTANTS
  v = v
  w = w
  h1 = h1
  h2 = h2
  NULL = NULL
  VMs = {v, w}
  Handles = {h1, h2}
  ApiRootsMax = 2
  DepthMax = 5
  Behaviours = {}
SPECIFICATION Spec
SYMMETRY MCSymmetry
INVARIANTS CurrentVmRuns HandlesStayValid CollectorAsProgramSays NativeCodeIsMapped
PROPERTY VMsAreSeparate
