SPECIFICATION Spec
CONSTANTS
  p1 = p1
  p2 = p2
  n1 = n1
  n2 = n2
  Pods = {p1, p2}
  Networks = {n1}
  Nodes = {m1}
  Nads = {v1, v2}
  None = None
  Octet = 4
  Base = 0
  Size = 4
  NoAddress = None
  Exhausted = Exhausted
  Diverges = Diverges
  Ips = {0, 1, 2, 3}
  Requested <- OneNetwork
  Layer3 = {n1}
  Provided = {}
  Faults = {}
  MaxFaults = 0
INVARIANT PortNotShared
