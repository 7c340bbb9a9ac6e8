CONSTANTS
  NGroups = 2
  InodesCount = 9
  LookupInums = {1, 3, 4, 5, 10}
  IPG = 2
  BPG = 5
  FirstDataBlock = 1
  InodesPerBlock = 2
  BitsPerBlock = 8
  LastBlock = 10
  LastBlockAct = 10
  Desc <- MCDesc
  BlockAlloc <- MCBlockAlloc
  PadBit = TRUE
  PartialTail = FALSE
  NULL = NULL
  Zero = Zero
  Torn = Torn
  NoTag = NoTag
  MaxNested = 0
  InodeRanges <- MCInodeRanges
  InodeFlagSets <- MCInodeFlagSets
  BlockRanges <- MCBlockRanges
  BlockFlagSets <- MCBlockFlagSets
  NamedInodes = {2, 3}
  RootInum = 2
SPECIFICATION Spec
INVARIANT TypeOK
INVARIANT InodeWalkExact
INVARIANT CachesCoherent
INVARIANT LookupCorrect

