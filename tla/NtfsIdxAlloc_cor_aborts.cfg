\* Three 64-byte clusters of two 32-byte sectors; records of one or two clusters.
CONSTANTS
  NClust = 3
  CSize = 64
  SSize = 32
  ListOff = 24
  RecUpdOffs = {40, 60}
  RecUpdCnts = {3, 5}
  BeginOffs = {16, 80}
  SeqendOffs = {32, 48}
  HeapSkews <- MCSkewExact
  Seq = Seq
  Stale = Stale
  Fill = Fill
SPECIFICATION Spec
\* ntfs_dir_open_meta returns once the buffer is scanned
INVARIANT CorruptionDoesNotAbort
CHECK_DEADLOCK FALSE
