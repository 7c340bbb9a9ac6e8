\* One ntfs_fix_idxrec call on every two-sector record of 16-byte sectors.
CONSTANTS
  SSize = 16
  NSect = 2
  UpdOffs = {8, 12, 26}
  UpdCnts = {0, 1, 2, 3, 4}
  Lens = {16, 32}
  Seq = Seq
  Vals <- MCVals
  Fill = Fill
  Outside = Outside
SPECIFICATION Spec
INVARIANT TypeOK
INVARIANT FixupMatchesReference
INVARIANT FixupWritesWithinLen
\* a single call returns: the behaviour stops after Fix
CHECK_DEADLOCK FALSE
