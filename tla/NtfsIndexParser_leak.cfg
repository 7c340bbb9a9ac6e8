SPECIFICATION Spec
CONSTANTS
  n1 = n1
  n2 = n2
  n3 = n3
  n4 = n4
  Entries <- MCEntries
  MaxOld = 3
  Extra = 88
  Bases = {0}
  Damaged <- MCDamaged
  NoDamage = NoDamage
  UsedWrap = {FALSE, TRUE}
  Junk = Junk
  Hdr = 16
  FnOff = 66
  FnSize = 67
INVARIANT NameFreedOnReturn
CHECK_DEADLOCK FALSE
