\* A higher layer batches two calls under one Request with a callback.
CONSTANTS
  o1 = o1
  o2 = o2
  o3 = o3
  a1 = a1
  a2 = a2
  c1 = c1
  NoComm = NoComm
  Objs = {o1, o2}
  Attrs = {a1, a2}
  Comms = {c1}
  Errs = {eIO}
  AttrComm <- MCAttrComm
  MaxCalls = 3
  MaxBatch = 2
  MaxAsyncBatch = 2
  AllowMixed = FALSE
SPECIFICATION Spec
INVARIANT CallbackOnceAfterAll
