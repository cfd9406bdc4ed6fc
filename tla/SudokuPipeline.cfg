SPECIFICATION FairSpec
CONSTANTS
  c1 = c1
  c2 = c2
  c3 = c3
  p1 = p1
  p2 = p2
  p3 = p3
  p4 = p4
  Consumer <- MCThree
  n_pthread = 3
  Puzzle <- MCPuzzle
  Short = Short
  Missing = Missing
  Input <- MCInput
CHECK_DEADLOCK FALSE
INVARIANTS OrderedOutput RingHoldsRest TurnIsAwake 
PROPERTY AllPrinted
