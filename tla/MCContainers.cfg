\* Two users, an MCP question beside the loop, up to two containers per user.
SPECIFICATION Spec
CONSTANTS
  Users = {u1, u2}
  NoUser = nobody
  Ports = {1, 2}
  Loop = loop
  Threads = {mcp}
  MaxContainers = 2
  Faults = {"stop", "restart", "install"}
INVARIANTS TypeOK PortHasOneUse NoPortLost ClientReachesOwnServer HalfSetUpHasCause
