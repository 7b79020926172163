SPECIFICATION Spec
CONSTANTS
  Base = 10
  ReadBufSize = 12
  Messages <- MCMessages
  Last <- MCLast
  Wedges <- MCWedges
  MaxSent = 3
INVARIANTS TypeOK NothingStuck
PROPERTY KeepsMessages
CHECK_DEADLOCK FALSE
