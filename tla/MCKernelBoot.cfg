SPECIFICATION BootSpec
CONSTANTS
  Capacity = 8
  TablePart = 3
  InodesPerBlock = 2
  MapBits = 4
  hello = hello
  Names = {hello}
  BadNames = {}
  MaxFaults = 4
INVARIANTS
  HelloAfterBoot
PROPERTIES
  BootCompletes
