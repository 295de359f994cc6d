CONSTANTS
  Client = {c1, c2}
  Query = {select, insert, create, typo, exit}
  Malformed = {typo}
  Bare = {exit}
  WithText = {select}
  Locking = {select, insert, create}
  NoQuery = NoQuery
  NoTree = NoTree
CHECK_DEADLOCK FALSE
SPECIFICATION FairSpec
INVARIANTS TypeOK InStep
PROPERTY Answered
