SPECIFICATION IntSpec
CONSTANTS
  MaxIrqs = 4
  MaxFaults = 3
INVARIANTS FlagDiscipline LocksAvailable NoUnexpectedVector
PROPERTY EveryIrqServed
