SPECIFICATION FairSpec
CONSTANTS
  Networks = {n1}
  Nads = {v1}
  None = None
  Provided = {n1}
  Watched = {n1}
  EdgeNode = m1
  IdsNode = m2
  PodClaim = PodClaim
  Repeats = {TRUE}
  MaxLives = 2
  Faults = {"api", "sdn", "crash", "touch", "ned"}
  MaxFaults = 1
INVARIANTS TypeOK AvailableIsCreated SdnCovered LinkedPortClaimed
PROPERTIES ClaimSpec DeletedNetworkGoes NetworkIsFinalized
