CONSTANTS
  Orders = {3, 4}
  MaxPage = 14
  FewEntries = 7
  NumEntries = 14
  MinLoad = 8
  Ops = 3
  Entry <- MCEntry
SPECIFICATION MCSpec
INVARIANT OneMoreChild
