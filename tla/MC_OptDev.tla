------------------------------- MODULE MC_OptDev -------------------------------
EXTENDS OptDev, TLC

\* /proc/cpuinfo of a 6272, of an AMD part without a "model" line, and of
\* an Intel part
MCCpuInfos ==
  { [open |-> TRUE, vendor |-> "AuthenticAMD", family |-> 21, model |-> 1],
    [open |-> TRUE, vendor |-> "AuthenticAMD", family |-> 21, model |-> NoModel],
    [open |-> TRUE, vendor |-> "GenuineIntel", family |-> 6,  model |-> 1] }

\* PCI device 0x18+i: a single-node AMD northbridge (F0x0 = 0x16001022),
\* the first and an internal node of a multi-node package, a foreign
\* device, and no device at all
MCPciKinds ==
  { [present |-> TRUE,  f0 |-> \h16001022, multi |-> FALSE, int1 |-> FALSE, int2 |-> FALSE],
    [present |-> TRUE,  f0 |-> \h16001022, multi |-> TRUE,  int1 |-> FALSE, int2 |-> FALSE],
    [present |-> TRUE,  f0 |-> \h16001022, multi |-> TRUE,  int1 |-> TRUE,  int2 |-> FALSE],
    [present |-> TRUE,  f0 |-> \h14508086, multi |-> FALSE, int1 |-> FALSE, int2 |-> FALSE],
    [present |-> FALSE, f0 |-> 0,          multi |-> FALSE, int1 |-> FALSE, int2 |-> FALSE] }

\* machines with at least one node init keeps
MCPciConfigs == {p \in [Nodes -> MCPciKinds] : \E i \in Nodes : KeptNode(p[i])}

\* APM limit 95 with TdpToWatt 0x0401, and APM limit 100 with TdpToWatt
\* 0x0002 and bit 29 set (outside the [28:16] mask)
MCE8Values == {95 * 65536 + \h0401, \h20000000 + 100 * 65536 + \h0002}

\* accumulators 0, 5 and the largest positive 2^21 - 1
MCAccPositive == {0, 5, 2097151}

\* accumulators 5 and -3 (the 22-bit pattern 2^22 - 3)
MCAccNegative == {5, 4194301}
====
