\* Opens of sound and rejected superblocks on images of 1, 4 and 64 KiB,
\* holding the orphan list 9, 17, 1; inode loads, fsstat, istat of inode 9
\* and a close.
CONSTANTS
  WordBits = 8
  DaddrBits = 16
  ShiftZeroAt = 4
  Supers <- MCSupers
  FsTypes = {"EXT_DETECT", "EXT3", "NTFS"}
  Avails = {1, 4, 64}
  LoadInums = {0, 9, 33}
  IstatInums = {9}
  Contents <- MCListContents
  EaBlocks <- MCEaBlocks
  EaAttrs <- MCEaAttrs
  MallocMayFail = TRUE
  NoTag = NoTag
SPECIFICATION FairSpec
INVARIANT TypeOK
INVARIANT GeometryMatchesSpec
INVARIANT IstatShowsAskedInode
INVARIANT EaBlockListedExactly
PROPERTY FsstatReturns
\* the handle is gone once the open fails or close returns
CHECK_DEADLOCK FALSE
