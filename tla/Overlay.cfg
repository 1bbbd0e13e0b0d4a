SPECIFICATION FairSpec
CONSTANTS
  o1 = o1
  m1 = m1
  m2 = m2
  AddressSpace = 8
  Overlays = {o1}
  Nodes = {m1, m2}
  None = None
  Specs <- TwoSpecs
  Repeats = {TRUE}
  MaxLives = 2
  Faults = {"api", "sdn", "crash", "edit"}
  MaxFaults = 1
INVARIANTS TypeOK NetworkCovered SwitchesHaveConfig BuiltFromOneSpec CollectorsAgree
PROPERTIES DeletedOverlayGoes 
