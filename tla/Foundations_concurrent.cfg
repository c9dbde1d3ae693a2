\* Two requests that race; no symmetry, for the liveness property's sake.
CONSTANTS
  r1 = r1
  r2 = r2
  r3 = r3
  Requests = {r1, r2}
  Probes <- MCProbes
  ApiProbe = "proxmox_api"
  AgentPatches <- MCAgentPatches
  Blank = Blank
  Found = Found
  NoRow = NoRow
  NoOne = NoOne
  Serial = FALSE
SPECIFICATION FairSpec
INVARIANTS
  RefHasToken
  FailedLeavesNothing
PROPERTIES
  AckedIsStored
  RequestsEnd
\* Every request is made once: the system stops when all have ended.
CHECK_DEADLOCK FALSE
