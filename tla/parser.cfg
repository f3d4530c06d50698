CONSTANTS
  Projects <- MCProjects
  Paths <- MCPaths
  MaxDepth = 3
  MaxIncluded = 3
  MaxClassNames = 3
  Identifiers = {"x", "A"}
  LibraryDir = "lib"
  Malformed = "?"
  EOF = "<eof>"
  NULL = NULL
SPECIFICATION Spec
INVARIANTS VerdictIsRight TreesFollowThePrecedences StreamIsPasted
PROPERTY OnlyClassBodiesLoop
