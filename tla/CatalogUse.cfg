CONSTANTS
  Client = {c1, c2}
  Db = {d1, d2}
  Tab = {t1, t2}
  Col = {k1}
  TooLong = {}
  NoDb = NoDb
  NoTab = NoTab
  NoCol = NoCol
  NoMeta = NoMeta
  BaseDir = BaseDir
  Outside = Outside
  Absent = Absent
SPECIFICATION FairAgreedSpec
INVARIANTS TypeOK HandlesMatch RefsLive Registered
PROPERTIES Implements StatementsEnd
