SPECIFICATION FairSpec
CONSTANTS
  p1 = p1
  p2 = p2
  n1 = n1
  n2 = n2
  r1 = r1
  a1 = a1
  Pods = {p1}
  Networks = {n1, n2}
  Requests = {r1}
  None = None
  Home <- AllInOne
  Ips = {a1}
  IpOf <- OneAddress
  Selected <- AllSelected
  Sources <- FromOne
  Target <- ToTwo
  Repeats = {TRUE}
  Faults = {}
  MaxFaults = 0
PROPERTY MovedCountKept
