SPECIFICATION Spec
CONSTANTS
  Capacity = 10
  TablePart = 10
  InodesPerBlock = 2
  MapBits = 8
  red = red
  green = green
  blue = blue
  tooLong = tooLong
  Names = {red, green, blue, tooLong}
  BadNames = {tooLong}
  MaxFaults = 0
INVARIANTS
  AckedInodeIsFile
