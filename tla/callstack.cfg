CONSTANTS
  f = f
  g = g
  Script = Script
  Functions = {f, g}
  Arity <- MCArity
  Behaviours = {"native_code", "host_call", "rebind"}
  FramesMax = 2
  SlotCount = 3
  StackMax = 6
  WindowMax = 4
  MaxArgs = 1
  MaxActivations = 10
SPECIFICATION Spec
INVARIANTS InnermostRuns IdleIsEmpty FullWindowsFit
PROPERTY KeepsDiscipline
