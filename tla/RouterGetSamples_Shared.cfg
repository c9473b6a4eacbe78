\* Comm group g2 spans two servers: does each request get one response?
CONSTANTS
  k1 = k1
  k2 = k2
  v1 = v1
  v2 = v2
  g1 = g1
  g2 = g2
  s1 = s1
  s2 = s2
  NoClient = NoClient
  RClients = {k1, k2}
  Servers = {v1, v2}
  CommIDs = {g1, g2}
  CommList <- MCCommListShared
  Slots = {s1, s2}
  MaxReqs = 2
SPECIFICATION Spec
INVARIANT OneResponsePerRequest
