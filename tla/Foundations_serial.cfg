\* Three requests one after another: two writers and what the third makes of both.
CONSTANTS
  r1 = r1
  r2 = r2
  r3 = r3
  Requests = {r1, r2, r3}
  Probes = {"proxmox_api"}
  ApiProbe = "proxmox_api"
  AgentPatches <- MCAgentPatches
  Blank = Blank
  Found = Found
  NoRow = NoRow
  NoOne = NoOne
  Serial = TRUE
SPECIFICATION Spec
PROPERTY ImplementsDocument
CHECK_DEADLOCK FALSE
