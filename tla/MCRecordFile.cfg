CONSTANTS
  MaxPages = 3
  ScanPages = 2
  NumRecordsPerPage = 2
  Value = {v1, v2}
  NoRecord = NoRecord
  Junk = Junk
  NoScans = NoScans
SYMMETRY Symmetry
SPECIFICATION MCSpec
INVARIANTS TypeOK CountMatchesBitmap HeadHasRoom FreeListExact ScanTypeOK ScanComplete
PROPERTIES Implements ScanNoRepeat
