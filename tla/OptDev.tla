------------------------------- MODULE OptDev -------------------------------
(***************************************************************************)
(* The AMD Opteron power plugin (src/src/plugins/pwr_optdev.c).           *)
(*                                                                         *)
(* pwr_optdev_init parses the init string, identifies the CPU from         *)
(* /proc/cpuinfo, probes the northbridge of each of OPT_NODE_MAX PCI nodes *)
(* (bus 0, device 0x18 + i) with setpci, keeps the nodes that are AMD and  *)
(* not the internal node of a multi-node package, and reads each kept      *)
(* node's TDP-to-watt factor and run-average range.  A read gathers the    *)
(* APM TDP limit and the run-average accumulator of one node and computes  *)
(*   power = (apm_tdp_limit - run_avg_acc_cap / avg_divide_by) * tdp_to_watt *)
(*                                                                         *)
(* Registers are integers and are decoded with the code's masks and        *)
(* shifts (Bitwise).  The doubles of the formula are exact rationals here: *)
(* a power is kept as numerator and denominator.  unsigned long is         *)
(* ULongBits wide (64 in the code; any width above the 22-bit field shows  *)
(* the same wrap-around).  The multi-node register F3xE8 is kept as its    *)
(* three bits, since bit 31 is beyond TLC's integers.                      *)
(***************************************************************************)
EXTENDS Integers, Sequences, Bitwise

CONSTANTS
  OPT_NODE_MAX, \* PCI nodes init probes (8 in the code)
  ULongBits,    \* bits of unsigned long (64 in the code)
  CpuInfos,     \* what /proc/cpuinfo may say: [open, vendor, family, model]
  PciConfigs,   \* per node: present, F0x0 (vendor/device), multi, int1, int2
  E8Values,     \* values of D18F5xE8: APM TDP limit [28:16], TdpToWatt [15:0]
  AccValues,    \* values of the 22-bit accumulator field D18F5xE0[25:4]
  RangeValues,  \* values of RunAvgRange D18F5xE0[3:0]
  NoModel       \* /proc/cpuinfo has no "model" line

Nodes     == 0 .. OPT_NODE_MAX - 1
ULongMod  == 2^ULongBits
ULongNot(x) == (ULongMod - 1) - x   \* ~x on an unsigned long

ASSUME /\ OPT_NODE_MAX \in Nat \ {0}
       /\ ULongBits > 22
       /\ \A p \in PciConfigs : DOMAIN p = Nodes

\* MSR(X,Y,Z), LMSR(X,Y,Z) of :78-79
MSR(x, mask, shift)  == shiftR(x & mask, shift)
LMSR(x, mask, shift) == (x & mask) * 2^shift

-----------------------------------------------------------------------------
(* The init path                                                           *)

\* optdev_parse (:127-142): -1 when strtok finds no token in the init
\* string (NoModel here), else core = atoi(token)
OptdevParse(core) == IF core = NoModel THEN -1 ELSE 0

\* optdev_read (:194-212) of a PCI node n succeeds for a present device:
\* setpci -f prints nothing for a missing one, so fgets fails and the
\* read returns -1 (a read of a present one may also fail: readsOk)
SetpciOk(n) == n.present

\* optdev_identify (:144-192): -1 when cpuinfo cannot be opened, the
\* vendor is not AuthenticAMD, or a "model" line names a model other than
\* 1 (6272) or 16 (A10-5800).  The family test looks for "cpu_family",
\* which /proc/cpuinfo spells "cpu family": it never runs.  cpu_model is
\* -1 when no "model" line is seen.
OptdevIdentify(c) ==
  [rc    |-> IF ~c.open \/ c.vendor # "AuthenticAMD"
                \/ (c.model # NoModel /\ c.model \notin {1, 16})
             THEN -1 ELSE 0,
   model |-> IF c.open /\ c.model # NoModel THEN c.model ELSE -1]

\* a variant of KeptNode that never looks at the internal-node bits
KeptNodeAnyInternal(n) == MSR(n.f0, \hffff, 0) = \h1022

\* the node test of :275-292: vendor 0x1022, and for a node of a multi-node
\* package only the one whose internal-node bits are both 0
KeptNode(n) ==
  /\ MSR(n.f0, \hffff, 0) = \h1022
  /\ n.multi => ~n.int1 /\ ~n.int2

\* the loop for( i=0; i<OPT_NODE_MAX; i++ ) of :269-293 from node i: the
\* numbers of the kept nodes, in the order node[node_count++] stores them
RECURSIVE NodeList(_, _)
NodeList(pci, i) ==
  IF i >= OPT_NODE_MAX THEN <<>>
  ELSE (IF KeptNode(pci[i]) THEN <<i>> ELSE <<>>) \o NodeList(pci, i + 1)

\* variants of TdpToWatt and ApmTdpLimit: the high part shifted by 16, and
\* the limit taken as all bits above 16 (as val >> 16)
TdpToWattShift16(e8) == LMSR(e8, \h03ff, 16) | MSR(e8, \hfc00, 10)
ApmTdpLimitUnmasked(e8) == shiftR(e8, 16)

\* tdp_to_watt * 65536 (:303-305)
TdpToWatt(e8) == LMSR(e8, \h03ff, 6) | MSR(e8, \hfc00, 10)

\* avg_divide_by = pow(2, run_avg_range + 1) (:312-315)
AvgDivideBy(e0) == 2^(MSR(e0, \h000f, 0) + 1)

\* the APM TDP limit (:224-225)
ApmTdpLimit(e8) == MSR(e8, \h1fffffff, 16)

\* run_avg_acc_cap (:232-237): the field, and when its sign bit is set the
\* negation of its two's complement magnitude, stored in an unsigned long
RunAvgAccCap(e0) ==
  LET f == MSR(e0, \h03ffffff, 4) IN
  IF f >= \h00200000
    THEN (ULongMod - ((ULongNot(f & \h001fffff) & \h001fffff) + 1)) % ULongMod
    ELSE f

\* *power of optdev_gather (:240) as the exact rational num / den
Power(e8, e0, div, ttw) ==
  [num |-> (ApmTdpLimit(e8) * div - RunAvgAccCap(e0)) * ttw,
   den |-> div * 65536]

-----------------------------------------------------------------------------
VARIABLES
  cpu,      \* /proc/cpuinfo
  pci,      \* the node registers init reads once
  e8,       \* e8[i]: D18F5xE8 of node i
  e0,       \* e0[i]: D18F5xE0 of node i (the accumulator moves)
  dev,      \* the plugin device: state "none", "null", "ready" or "final"
  fdOpen,   \* a pwr_optfd_t is open
  lastRead  \* what the last pwr_optdev_read returned, and the registers of
            \* the node it gathered from

vars == <<cpu, pci, e8, e0, dev, fdOpen, lastRead>>

NoDev  == [state |-> "none", cpu_model |-> 0, node |-> <<>>, core |-> 0]
NoRead == [rc |-> 0, attr |-> "none", written |-> FALSE,
           val |-> [num |-> 0, den |-> 1], number |-> 0, e8 |-> 0, e0 |-> 0]

\* node[core] of the device: entries past node_count are the zeroes bzero
\* left at :255
NodeAt(d, k) ==
  IF k < Len(d.node) THEN d.node[k + 1] ELSE [number |-> 0, ttw |-> 0, div |-> 0]

\* pwr_optdev_init (:246-333).  core is what optdev_parse gets from the
\* init string.  The parsed core is a local of init and is never stored:
\* dev->core stays 0.  The loop reads F0x0 of every node, so one node
\* that is not present fails it; any failed read returns NULL.
DevInit(core, readsOk) ==
  LET id   == OptdevIdentify(cpu)
      kept == NodeList(pci, 0)
  IN
  /\ dev.state = "none"
  /\ dev' = IF \/ OptdevParse(core) < 0
               \/ id.rc < 0
               \/ \E i \in Nodes : ~SetpciOk(pci[i])
               \/ ~readsOk
            THEN [NoDev EXCEPT !.state = "null"]
            ELSE [state     |-> "ready",
                  cpu_model |-> id.model,
                  node      |-> [k \in 1 .. Len(kept) |->
                                   [number |-> kept[k],
                                    ttw    |-> TdpToWatt(e8[kept[k]]),
                                    div    |-> AvgDivideBy(e0[kept[k]])]],
                  core      |-> 0]
  /\ UNCHANGED <<cpu, pci, e8, e0, fdOpen, lastRead>>

\* pwr_optdev_final (:335-343)
DevFinal ==
  /\ dev.state = "ready"
  /\ ~fdOpen
  /\ dev' = [dev EXCEPT !.state = "final"]
  /\ UNCHANGED <<cpu, pci, e8, e0, fdOpen, lastRead>>

\* pwr_optdev_open (:345-351) and pwr_optdev_close (:353-359)
Open ==
  /\ dev.state = "ready" /\ ~fdOpen
  /\ fdOpen' = TRUE
  /\ UNCHANGED <<cpu, pci, e8, e0, dev, lastRead>>

Close ==
  /\ fdOpen
  /\ fdOpen' = FALSE
  /\ UNCHANGED <<cpu, pci, e8, e0, dev, lastRead>>

\* pwr_optdev_read (:361-390): a size other than sizeof(double) fails;
\* optdev_gather (:214-244) of node[dev->core] reads E8 and E0 of its PCI
\* node (either setpci may fail: gatherOk = FALSE) and computes the power;
\* PWR_ATTR_POWER receives it, any other attribute only a warning, and
\* the read returns 0.
Read(attr, lenOk, gatherOk) ==
  LET n == NodeAt(dev, dev.core)
      result(rc, written) ==
        [rc |-> rc, attr |-> attr, written |-> written,
         val |-> Power(e8[n.number], e0[n.number], n.div, n.ttw),
         number |-> n.number, e8 |-> e8[n.number], e0 |-> e0[n.number]]
  IN
  /\ fdOpen
  /\ lastRead' = CASE ~lenOk    -> result(-1, FALSE)
                   [] ~gatherOk -> result(-1, FALSE)
                   [] OTHER     -> result(0, attr = "power")
  /\ UNCHANGED <<cpu, pci, e8, e0, dev, fdOpen>>

\* pwr_optdev_time (:419-426): a read of PWR_ATTR_POWER
TimeRead(gatherOk) == Read("power", TRUE, gatherOk)

\* the hardware updates the run-average accumulator of node i
Accumulate(i, a) ==
  /\ e0' = [e0 EXCEPT ![i] = a * 16 + MSR(@, \h000f, 0)]
  /\ UNCHANGED <<cpu, pci, e8, dev, fdOpen, lastRead>>

Init ==
  /\ cpu \in CpuInfos
  /\ pci \in PciConfigs
  /\ e8 \in [Nodes -> E8Values]
  /\ e0 \in {[i \in Nodes |-> a[i] * 16 + r[i]] :
               a \in [Nodes -> AccValues], r \in [Nodes -> RangeValues]}
  /\ dev = NoDev
  /\ fdOpen = FALSE
  /\ lastRead = NoRead

Next ==
  \/ \E core \in {0, NoModel}, ok \in BOOLEAN : DevInit(core, ok)
  \/ DevFinal
  \/ Open
  \/ Close
  \/ \E a \in {"power", "energy"}, l, g \in BOOLEAN : Read(a, l, g)
  \/ \E g \in BOOLEAN : TimeRead(g)
  \/ \E i \in Nodes, a \in AccValues : e0[i] \div 16 # a /\ Accumulate(i, a)

Spec == Init /\ [][Next]_vars

-----------------------------------------------------------------------------
(* Properties                                                              *)

TypeOK ==
  /\ dev.state \in {"none", "null", "ready", "final"}
  /\ dev.core \in Nodes
  /\ \A k \in 1 .. Len(dev.node) :
       /\ dev.node[k].number \in Nodes
       /\ dev.node[k].ttw \in 0 .. 65535
       /\ dev.node[k].div \in {2^(r + 1) : r \in 0 .. 15}
  /\ lastRead.rc \in {0, -1}
  /\ lastRead.number \in Nodes

\* The node table init builds (:269-293) holds exactly the PCI nodes
\* that are AMD and not the internal node of a multi-node package, each
\* once and in increasing order, and the per-node factors are those of
\* that node's registers.
NodeTableExact ==
  dev.state = "ready" =>
    LET nums == {dev.node[k].number : k \in 1 .. Len(dev.node)} IN
    /\ nums = {i \in Nodes : pci[i].f0 % 65536 = 4130
                             /\ (pci[i].multi => ~(pci[i].int1 \/ pci[i].int2))}
    /\ \A k \in 1 .. Len(dev.node) - 1 : dev.node[k].number < dev.node[k + 1].number
    /\ \A k \in 1 .. Len(dev.node) :
         dev.node[k].div = 2^((e0[dev.node[k].number] % 16) + 1)

\* Reference decode of the registers by arithmetic, as the BKDG fields
\* read: TdpToWatt is bits [9:0] moved up 6 and bits [15:10] below them,
\* the APM limit is bits [28:16], and the accumulator [25:4] is a 22-bit
\* two's complement number.
RefTdpToWatt(x) == (x % 1024) * 64 + ((x \div 1024) % 64)
RefApm(x)       == (x \div 65536) % 8192
RefAcc(x)       == LET f == (x \div 16) % 4194304 IN
                   IF f >= 2097152 THEN f - 4194304 ELSE f

\* spec.md 6 (read returns the attribute's value): a successful power read
\* (:373-381) reports (APM limit - accumulator / 2^(range+1)) * TdpToWatt
\* of the node it gathered from, with the accumulator taken as signed.
ReadReturnsNodePower ==
  lastRead.rc = 0 /\ lastRead.written =>
    LET div == 2^((lastRead.e0 % 16) + 1) IN
    lastRead.val = [num |-> (RefApm(lastRead.e8) * div - RefAcc(lastRead.e0))
                            * RefTdpToWatt(lastRead.e8),
                    den |-> div * 65536]
====
