\* A superblock with no blocks, and an image smaller than one block.
CONSTANTS
  WordBits = 8
  DaddrBits = 16
  ShiftZeroAt = 4
  Supers <- MCEdges
  FsTypes = {"EXT_DETECT"}
  Avails = {2, 64}
  LoadInums = {1, 9}
  IstatInums = {9, 17}
  Contents <- MCContents
  EaBlocks <- MCEaBlocks
  EaAttrs <- MCEaAttrs
  MallocMayFail = FALSE
  NoTag = NoTag
SPECIFICATION Spec
INVARIANT GeometryMatchesSpec
CHECK_DEADLOCK FALSE
