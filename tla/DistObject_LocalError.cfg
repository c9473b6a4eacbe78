\* One call on a Request with a callback whose local part fails.
CONSTANTS
  o1 = o1
  o2 = o2
  o3 = o3
  a1 = a1
  a2 = a2
  c1 = c1
  NoComm = NoComm
  Objs = {o1, o2}
  Attrs = {a1, a2}
  Comms = {c1}
  Errs = {eIO}
  AttrComm <- MCAttrComm
  MaxCalls = 2
  MaxBatch = 2
  MaxAsyncBatch = 1
  AllowMixed = FALSE
SPECIFICATION Spec
PROPERTY CallbackEventuallyRuns
