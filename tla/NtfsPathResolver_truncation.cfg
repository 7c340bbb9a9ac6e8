CONSTANTS
  Inums = {5, 20, 21, 22}
  RootIno = 5
  BadInum = 99
  Target = 22
  Mfts <- MCMfts
  NameLen <- MCNameLen
  OrphLen = 2
  MaxDepth = 4
  DirStrSz = 5
  StackBound = 4
  CbResults = {"CONT", "STOP", "ERROR"}
  OpenMayFail = TRUE
  MallocMayFail = FALSE
SPECIFICATION Spec
INVARIANT PathIsChain
