CONSTANTS
  RoomA = 2
  RoomB = 2
  RoomC = 1
  Cols <- MCCols
  Indexed <- MCIndexed
  Room <- MCRoom
  Value <- MCValue
  Misfit = Misfit
  NoStatement = NoStatement
  Unqualified = Unqualified
  Statement <- MCStatement
SPECIFICATION FairSpec
INVARIANTS TypeOK EntriesExact ResultExact
PROPERTIES Implements StatementsEnd
