CONSTANTS
  Frames = {f1, f2, f3}
  Fds = {d1, d2}
  PageNos = {n1, n2}
  Value = {v1, v2}
  Holder = {h1, h2}
  NoPage = NoPage
  NoFrame = NoFrame
  NoFd = NoFd
SYMMETRY Symmetry
SPECIFICATION Spec
INVARIANTS TypeOK PoolPartition MapCoherent CleanOnDisk HandleStable RecencyBound
PROPERTIES Implements FlushEmpties
