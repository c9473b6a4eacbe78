-------------------------- MODULE MC_ConfigProviders --------------------------
(***************************************************************************)
(* The two configuration providers, of which a daemon constructs one: the  *)
(* hwloc provider (HwlocConfig) or the XML-file provider (XmlConfig).      *)
(* Both answer the lookups of spec.md 6 (an object's type and children,    *)
(* plugin and device bindings, the sources of an attribute).  The          *)
(* provider is chosen once; only its steps are taken.                      *)
(*                                                                         *)
(* hwloc: four machines (one socket whose cores sit under a shared cache  *)
(* and own a PU; two NUMA nodes with a socket of two cores each, the core  *)
(* os_indexes repeating across sockets; one socket split into two NUMA     *)
(* nodes; a NUMA node with a socket beside a NUMA node without CPUs).     *)
(* The plugin serves power and temperature at cores and energy at         *)
(* sockets; power and energy aggregate.                                    *)
(*                                                                         *)
(* XML: a platform with one node and one socket whose POWER comes from its *)
(* child and, at the socket, from a device; the same document with the     *)
(* socket written without a <children> element; a file whose root element  *)
(* is not <System>.                                                        *)
(* A second set holds one platform whose node has a socket and a NIC.     *)
(***************************************************************************)
EXTENDS Integers, Sequences

CONSTANT
  XmlDocs   \* the configuration files the XML provider may be given

VARIABLES
  provider,                          \* "hwloc" or "xml"
  topo, hwPhase, libs, tree, hwAnswer,  \* HwlocConfig
  doc, xmlPhase, xmlAnswer           \* XmlConfig

hwVars  == <<topo, hwPhase, libs, tree, hwAnswer>>
xmlVars == <<doc, xmlPhase, xmlAnswer>>
vars    == <<provider, hwVars, xmlVars>>

-----------------------------------------------------------------------------
(* hwloc topologies and plugin metadata                                    *)

\* a topology from its objects' types, os_indexes, logical indexes and
\* children, object 1 the machine
Topo(ty, os, li, ks) == [type |-> ty, os |-> os, lidx |-> li, kids |-> ks]

OneSocket ==
  Topo(<<"machine", "socket", "cache", "core", "pu", "core", "pu">>,
       <<0, 0, 0, 0, 0, 1, 1>>,
       <<0, 0, 0, 0, 0, 1, 1>>,
       <<<<2>>, <<3>>, <<4, 6>>, <<5>>, <<>>, <<7>>, <<>>>>)

TwoNuma ==
  Topo(<<"machine", "node", "socket", "core", "core", "node", "socket", "core", "core">>,
       <<0, 0, 0, 0, 1, 1, 1, 0, 1>>,
       <<0, 0, 0, 0, 1, 1, 1, 2, 3>>,
       <<<<2, 6>>, <<3>>, <<4, 5>>, <<>>, <<>>, <<7>>, <<8, 9>>, <<>>, <<>>>>)

SplitSocket ==
  Topo(<<"machine", "socket", "node", "core", "node", "cache", "core">>,
       <<0, 0, 0, 0, 1, 1, 1>>,
       <<0, 0, 0, 0, 1, 0, 1>>,
       <<<<2>>, <<3, 5>>, <<4>>, <<>>, <<6>>, <<7>>, <<>>>>)

\* a second NUMA node without CPUs (a memory-only node): it has no socket
\* or core below it
CpuLessNode ==
  Topo(<<"machine", "node", "socket", "core", "node">>,
       <<0, 0, 0, 0, 1>>,
       <<0, 0, 0, 0, 1>>,
       <<<<2, 5>>, <<3>>, <<4>>, <<>>, <<>>>>)

MCTopologies == {OneSocket, TwoNuma, SplitSocket, CpuLessNode}

MCLeafAttrs ==
  [t \in {"platform", "node", "socket", "core"} |->
     CASE t = "core"   -> {"power", "temp"}
       [] t = "socket" -> {"energy"}
       [] OTHER        -> {}]

-----------------------------------------------------------------------------
(* XML documents                                                           *)

El(tag, at, kids) == [tag |-> tag, at |-> at, kids |-> kids]

Section1(tag, kids) == El(tag, [name |-> ""], kids)

\* <children><child name="c"/>...</children>
ChildrenEl(cs) ==
  Section1("children", [i \in 1 .. Len(cs) |-> El("child", [name |-> <<cs[i]>>], <<>>)])

\* <attr name="POWER" op="SUM"><src type=".." name=".."/></attr>
PowerFrom(kind, src) ==
  El("attr", [name |-> "POWER", op |-> "SUM"],
     <<El("src", [type |-> kind, name |-> src], <<>>)>>)

Plat ==
  El("obj", [name |-> <<"plat">>, type |-> "Platform"],
     <<ChildrenEl(<<"node0">>),
       Section1("attributes", <<PowerFrom("child", <<"node0">>)>>)>>)

\* the node, with the names of its children
NodeWith(kids) ==
  El("obj", [name |-> <<"plat", "node0">>, type |-> "Node"],
     <<ChildrenEl(kids),
       Section1("attributes", <<PowerFrom("child", <<"socket0">>)>>)>>)

Node0 == NodeWith(<<"socket0">>)

\* a network interface of the node, written with the type string
\* objTypeToString gives PWR_OBJ_NIC
Nic0 ==
  El("obj", [name |-> <<"plat", "node0", "nic0">>, type |-> "Nic"],
     <<ChildrenEl(<<>>), Section1("attributes", <<>>)>>)

\* the socket, with or without an (empty) <children> element
Socket0(withChildren) ==
  El("obj", [name |-> <<"plat", "node0", "socket0">>, type |-> "Socket"],
     (IF withChildren THEN <<ChildrenEl(<<>>)>> ELSE <<>>)
     \o <<Section1("attributes", <<PowerFrom("device", "dev0")>>),
          Section1("devices", <<El("dev", [name |-> "dev0", device |-> "d0",
                                           openString |-> "0"], <<>>)>>)>>)

\* a <System> document with the given <obj> elements
SystemWith(objs) ==
  El("System", [name |-> ""],
     <<Section1("Plugins", <<El("plugin", [name |-> "p0", lib |-> "libxtpm"], <<>>)>>),
       Section1("Devices", <<El("device", [name |-> "d0", plugin |-> "p0",
                                          initString |-> ""], <<>>)>>),
       Section1("Objects", objs)>>)

SystemDoc(withChildren) == SystemWith(<<Plat, Node0, Socket0(withChildren)>>)

\* the platform of SystemDoc with a NIC beside the socket
NicDoc == SystemWith(<<Plat, NodeWith(<<"socket0", "nic0">>), Socket0(TRUE), Nic0>>)

MCDocs == {SystemDoc(TRUE), SystemDoc(FALSE), El("Config", [name |-> ""], <<>>)}

MCNicDocs == {NicDoc}

-----------------------------------------------------------------------------

Hw == INSTANCE HwlocConfig
        WITH Topologies <- MCTopologies, AttrNames <- {"power", "energy", "temp"},
             LeafAttrs <- MCLeafAttrs, Aggregatable <- {"power", "energy"},
             LineCounts <- {0, 1, 2},
             phase <- hwPhase, answer <- hwAnswer

Xml == INSTANCE XmlConfig
         WITH Docs <- XmlDocs, AttrNames <- {"POWER", "ENERGY"},
              phase <- xmlPhase, answer <- xmlAnswer

Init ==
  /\ provider \in {"hwloc", "xml"}
  /\ Hw!Init
  /\ Xml!Init

Next ==
  \/ provider = "hwloc" /\ Hw!Next /\ UNCHANGED <<provider, xmlVars>>
  \/ provider = "xml" /\ Xml!Next /\ UNCHANGED <<provider, hwVars>>

Spec == Init /\ [][Next]_vars

HwTypeOK              == Hw!TypeOK
HwHierarchyExact      == Hw!HierarchyExact
HwQueryAnswersMatchTree == Hw!QueryAnswersMatchTree
XmlTypeRoundTrip      == Xml!TypeRoundTrip
XmlChildrenResolve    == Xml!ChildrenResolve
====
