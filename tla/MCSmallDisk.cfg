SPECIFICATION RootDirSpec
CONSTANTS
  Capacity = 5
  TablePart = 4
  InodesPerBlock = 2
  MapBits = 6
  red = red
  green = green
  noName = noName
  tooLong = tooLong
  Names = {red, green, noName, tooLong}
  BadNames = {noName, tooLong}
  LongNames = {tooLong}
  MaxFaults = 3
INVARIANTS
  AckedInodesDistinct
PROPERTIES
  AddKeepsFiles
