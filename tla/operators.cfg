CONSTANTS
  Bits = 3
  FloatBits = 1
  Floats <- MCFloats
  Strings = 2
  Elements <- MCElements
  Classes <- MCClasses
  Declared <- MCDeclared
  Fields <- MCFields
  Methods <- MCMethods
  Functions <- MCFunctions
  Traps = TRUE
SPECIFICATION Spec
INVARIANTS BackendsAgree RejectedWouldFail StaticTypesHold ComparisonsAgree
