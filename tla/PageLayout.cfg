CONSTANTS
  PAGE_SIZE = 4096
  MaxSize = 512
SPECIFICATION Spec
CHECK_DEADLOCK FALSE
INVARIANTS RecordPageFits NodeFits
