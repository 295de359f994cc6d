CONSTANTS
  Client = {c1}
  Db = {d1}
  Tab = {t1}
  Col = {k1}
  TooLong = {}
  NoDb = NoDb
  NoTab = NoTab
  NoCol = NoCol
  NoMeta = NoMeta
  BaseDir = BaseDir
  Outside = Outside
  Absent = Absent
SPECIFICATION Spec
PROPERTY DatabasesIsolated
\* A client that has to wait for ever stops the system.
CHECK_DEADLOCK FALSE
