\* optdev: two PCI nodes; unsigned long scaled to 23 bits; positive
\* accumulators up to the sign boundary.  xtpmdev: the two platforms of
\* MC_DevicePlugins.
CONSTANTS
  OPT_NODE_MAX = 2
  ULongBits = 23
  NoModel = NoModel
  CpuInfos <- MCCpuInfos
  PciConfigs <- MCPciConfigs
  E8Values <- MCE8Values
  AccValues <- MCAccPositive
  RangeValues = {1, 3}
SPECIFICATION MCSpec
INVARIANT OptTypeOK
INVARIANT OptNodeTableExact
INVARIANT OptReadReturnsNodePower
INVARIANT XtTypeOK
INVARIANT XtReadReturnsPublished
INVARIANT XtReadvElementsIndependent
INVARIANT XtWritevLastWins
