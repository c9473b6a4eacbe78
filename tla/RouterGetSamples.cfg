\* Two clients with two requests each, two servers, one server per comm
\* group, two heap cells (a cell is reused once freed).
CONSTANTS
  k1 = k1
  k2 = k2
  v1 = v1
  v2 = v2
  g1 = g1
  g2 = g2
  s1 = s1
  s2 = s2
  NoClient = NoClient
  RClients = {k1, k2}
  Servers = {v1, v2}
  CommIDs = {g1, g2}
  CommList <- MCCommList
  Slots = {s1, s2}
  MaxReqs = 2
SPECIFICATION Spec
INVARIANT TypeOK
INVARIANT OneResponsePerRequest
PROPERTY RelaySpec
