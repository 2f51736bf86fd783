SPECIFICATION FairSpec
CONSTANTS
  p1 = p1
  p2 = p2
  a1 = a1
  i0 = i0
  i1 = i1
  Proc = {p1, p2}
  Cards = {0, 1}
  SlowCards = {1}
  Images = {a1}
  Cleared = Cleared
  NoImage = NoImage
  Absent = Absent
  Garbage = Garbage
  Ids <- MCIds
  SlotsOf <- MCSlotsOf
  CmdsOf <- MCCmdsOf
  SlotMax = 3
  MinTime = 1
  Times = {0, 1}
  MaxRetries = 1
  MaxArgs = 3
INVARIANTS
  ShowsTheImage OwnSlotFound OnlyNamedSlots
PROPERTIES ToolRunsDown ToolEnds
