CONSTANTS
  s1 = s1
  s2 = s2
  t1 = t1
  o1 = o1
  o2 = o2
  o3 = o3
  Obj = {s1, s2, t1, o1, o2, o3}
  Str = {s1, s2, t1}
  RefMax = 3
  Chars <- MCChars
  RefSets <- MCRefSets
  NULL = NULL
  Programs <- MCPrograms
SPECIFICATION Spec
INVARIANTS NothingInUseIsFreed OldToYoungButMethodNames StringsAreInterned
PROPERTY ImplementsManagedHeap
CHECK_DEADLOCK FALSE
