SPECIFICATION Spec
CONSTANTS
  p1 = p1
  p2 = p2
  n1 = n1
  n2 = n2
  Pods = {p1, p2}
  Networks = {n1}
  Nodes = {m1, m2}
  Nads = {v1}
  None = None
  Octet = 3
  Base = 0
  Size = 3
  NoAddress = None
  Exhausted = Exhausted
  Diverges = Diverges
  Ips = {0, 1, 2}
  Requested <- OneNetwork
  Layer3 = {n1}
  Provided = {}
  Faults = {}
  MaxFaults = 0
PROPERTIES CleanupReleasesClaims ClaimSpec 
