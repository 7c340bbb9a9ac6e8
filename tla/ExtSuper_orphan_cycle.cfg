\* fsstat on an image whose orphan list loops: 9, 1, 9, ...
CONSTANTS
  WordBits = 8
  DaddrBits = 16
  ShiftZeroAt = 4
  Supers <- MCOneSound
  FsTypes = {"EXT3"}
  Avails = {64}
  LoadInums = {1}
  IstatInums = {9}
  Contents <- MCCycleContents
  EaBlocks <- MCEaBlocks
  EaAttrs <- MCEaAttrs
  MallocMayFail = FALSE
  NoTag = NoTag
SPECIFICATION FairSpec
PROPERTY FsstatReturns
CHECK_DEADLOCK FALSE
