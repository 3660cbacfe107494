SPECIFICATION FairSpec
CONSTANTS
  ChartObjects <- AllObjects
  Space <- TheSpace
  Record <- TheRecord
  Annotated <- CreatedOnce
  Settings <- Several
  MaxChanges = 1
  MaxExternal = 1
  MaxFaults = 1
INVARIANTS TypeOK Truthful
PROPERTIES EditsKept Ordered Delivers
