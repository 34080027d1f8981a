SPECIFICATION Spec
CONSTANTS
  Capacity = 8
  TablePart = 3
  InodesPerBlock = 2
  MapBits = 4
  red = red
  green = green
  blue = blue
  tooLong = tooLong
  Names = {red, green, blue, tooLong}
  BadNames = {tooLong}
  MaxFaults = 3
INVARIANTS
  TypeOK
  RootIntact
  EntriesSound
  AckedFilesSurvive
  LeakBound
PROPERTIES
  ImplementsNamespace
