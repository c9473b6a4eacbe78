\* A node whose run-average accumulator is negative (-3).
CONSTANTS
  OPT_NODE_MAX = 2
  ULongBits = 23
  NoModel = NoModel
  CpuInfos <- MCCpuInfos
  PciConfigs <- MCPciConfigs
  E8Values <- MCE8Values
  AccValues <- MCAccNegative
  RangeValues = {1, 3}
SPECIFICATION Spec
INVARIANT ReadReturnsNodePower
