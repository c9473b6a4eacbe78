\* One listener, one lazy client, one accept slot, three descriptors;
\* the client's connect is retried once (Count = 1: two attempts).
CONSTANTS
  l1 = l1
  c1 = c1
  x1 = x1
  NoChan = NoChan
  Listeners = {l1}
  Clients = {c1}
  AcceptSlots = {x1}
  NFds = 3
  Count = 1
  MaxIn = 1
  MaxSends = 2
SPECIFICATION Spec
INVARIANT TypeOK
INVARIANT RegistryExact
INVARIANT WaitReturnsReady
