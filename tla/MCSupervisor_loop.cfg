CONSTANTS
  Debounce = 2
  MaxLevel = 2
  MaxFaults = 2
SPECIFICATION FairSpec
INVARIANTS TypeOK OneChild DebouncedSpawn
PROPERTIES AbsentIsServed CompatibleIsAdopted
