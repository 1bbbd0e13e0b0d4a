SPECIFICATION Spec
CONSTANTS
  Octet = 8
  Base = 2
  Size = 4
  NoAddress = NoAddress
  Exhausted = Exhausted
  Diverges = Diverges
INVARIANTS TypeOK RefusesOnlyWhenFull WalkLeavesNoGap
PROPERTY NeverReassigned
