SPECIFICATION Spec
CONSTANTS
  Band = 2
  Puzzles <- MCPuzzles
  Consistent <- MCConsistent
CHECK_DEADLOCK FALSE
INVARIANTS MeshExact SpacesSplit CacheExact VerdictRight
