CONSTANTS
  n1 = n1
  n2 = n2
  s1 = s1
  Obj <- MCObj
  Str <- MCStr
  RefSets <- MCRefSets
SPECIFICATION FairSpec
INVARIANTS NoDangling OldToYoungRemembered MajorKeepsExactlyReachable
PROPERTIES ImplementsManagedHeap ImplementsGenHeap CollectionEnds
CHECK_DEADLOCK FALSE
