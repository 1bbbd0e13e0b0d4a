SPECIFICATION FairSpec
CONSTANTS
  d1 = d1
  k1 = k1
  k2 = k2
  Devices = {d1}
  Neighbors = {k1, k2}
  None = None
  Specs <- ThreeSpecs
  Unprobed = {k2}
  Repeats = {TRUE}
  Kindless = {TRUE, FALSE}
  MaxLives = 2
  Faults = {"api", "sdn", "crash", "edit"}
  MaxFaults = 1
INVARIANTS TypeOK NetworkCovered SwitchHasAll
PROPERTIES DeletedDeviceGoes 
