SPECIFICATION FairSpec
CONSTANTS
  p1 = p1
  p2 = p2
  n1 = n1
  n2 = n2
  Pods = {p1}
  Networks = {n1, n2}
  Nodes = {m1}
  Nads = {v1, v2}
  None = None
  Octet = 4
  Base = 0
  Size = 4
  NoAddress = None
  Exhausted = Exhausted
  Diverges = Diverges
  Ips = {0, 1, 2, 3}
  Requested <- TwoNetworks
  Layer3 = {n1}
  Provided = {n1}
  Faults = {"api", "sdn", "refuse", "crash", "touch"}
  MaxFaults = 2
INVARIANT AttachmentsCovered
PROPERTIES CleanupReleasesClaims DeletedPodGoes
