CONSTANTS
  Client = {c1}
  Query = {select, insert, create, typo, exit}
  Malformed = {typo}
  Bare = {exit}
  WithText = {select}
  Locking = {select, insert, create}
  NoQuery = NoQuery
  NoTree = NoTree
CHECK_DEADLOCK FALSE
SPECIFICATION Spec
INVARIANT OwnStatement
