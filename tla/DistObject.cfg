\* One caller, three calls; blocking batches of two, one call per Request
\* with a completion callback; mixed name lists reach the same-comm assert.
CONSTANTS
  o1 = o1
  o2 = o2
  o3 = o3
  a1 = a1
  a2 = a2
  c1 = c1
  NoComm = NoComm
  Objs = {o1, o2, o3}
  Attrs = {a1, a2}
  Comms = {c1}
  Errs = {eIO}
  AttrComm <- MCAttrComm
  MaxCalls = 3
  MaxBatch = 2
  MaxAsyncBatch = 1
  AllowMixed = TRUE
SPECIFICATION Spec
INVARIANT TypeOK
INVARIANT CommReqLifetime
INVARIANT PendingAccounting
INVARIANT ReturnReflectsFailures
 
PROPERTY RequestSpec
