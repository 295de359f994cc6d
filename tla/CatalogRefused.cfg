CONSTANTS
  Client = {c1}
  Db = {d1}
  Tab = {t1, t2}
  Col = {k1}
  TooLong = {t2}
  NoDb = NoDb
  NoTab = NoTab
  NoCol = NoCol
  NoMeta = NoMeta
  BaseDir = BaseDir
  Outside = Outside
  Absent = Absent
SPECIFICATION FairSpec
PROPERTY StatementsEnd
\* A client that has to wait for ever stops the system.
CHECK_DEADLOCK FALSE
