CONSTANTS
  f = f
  g = g
  Script = Script
  Functions = {f, g}
  Arity <- MCArity
  Behaviours = {"native_code"}
  FramesMax = 3
  SlotCount = 3
  StackMax = 9
  WindowMax = 3
  MaxArgs = 1
  MaxActivations = 7
SPECIFICATION Spec
INVARIANT StackWithinBounds
CHECK_DEADLOCK FALSE
