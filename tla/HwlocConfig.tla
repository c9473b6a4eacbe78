----------------------------- MODULE HwlocConfig -----------------------------
(***************************************************************************)
(* The hwloc-backed configuration provider (src/src/pwr/hwlocConfig.cc).  *)
(*                                                                         *)
(* The constructor walks the hwloc topology (initHierarchy) and builds a   *)
(* tree of TreeNodes under a "plat" root, keeping only NUMA nodes, sockets *)
(* and cores: the children of any other object are hung on the nearest    *)
(* kept ancestor.  It reads the plugin list (one line expected), then      *)
(* gives every node its attributes in post-order (initAttributes): a leaf  *)
(* attribute where the plugin serves the node's type, an aggregate where   *)
(* the first child has the attribute.  The lookups resolve a full name     *)
(* ("plat.socket0.core1") with a depth-first search (findObj) under the    *)
(* class mutex.                                                            *)
(*                                                                         *)
(* A hwloc topology is a record of functions over its objects 1..n, object *)
(* 1 the machine.  A TreeNode is known by the hwloc object that made it,   *)
(* the root by 0.  A name is the pair <<type name, os_index>> that         *)
(* tmp << getName(type) << os_index prints, and a full name is the         *)
(* sequence of names getFullName joins with "."; no name contains ".", so  *)
(* two full names are equal strings exactly when the sequences are equal.  *)
(***************************************************************************)
EXTENDS Integers, Sequences, SequencesExt, FiniteSets

CONSTANTS
  Topologies,   \* hwloc topologies the machine may have
  AttrNames,    \* PWR_AttrName values
  LeafAttrs,    \* LeafAttrs[t]: attributes m_meta->findAttr serves for type t
  Aggregatable, \* attributes canAggregate accepts
  LineCounts    \* lines the plugin configuration file may have

KeptTypes == {"node", "socket", "core"}   \* the cases of initHierarchy :378-380
NoNode    == -1
NoAttr    == [kind |-> "none", device |-> "", open |-> 0]
RootName  == <<"plat", 0>>

Objs(t) == DOMAIN t.type

-----------------------------------------------------------------------------
(* initHierarchy and initAttributes                                        *)

\* a variant of Hier that never makes the new node the parent of the
\* walk below it (parent = me dropped)
RECURSIVE HierFlat(_, _, _)
HierFlat(t, o, p) ==
  (IF t.type[o] \in KeptTypes THEN <<[id |-> o, parent |-> p]>> ELSE <<>>)
  \o FlattenSeq([i \in 1 .. Len(t.kids[o]) |-> HierFlat(t, t.kids[o][i], p)])

\* initHierarchy(obj, parent) (:374-396): a TreeNode for obj when it is a
\* kept type, pushed on parent's children, and the walk of obj's children
\* under it (else under parent); the result is the push_backs in order
RECURSIVE Hier(_, _, _)
Hier(t, o, p) ==
  LET kept == t.type[o] \in KeptTypes
      me   == IF kept THEN o ELSE p
  IN (IF kept THEN <<[id |-> o, parent |-> p]>> ELSE <<>>)
     \o FlattenSeq([i \in 1 .. Len(t.kids[o]) |-> Hier(t, t.kids[o][i], me)])

\* initAttributes (:102-139): children first, then for each attribute a
\* leaf binding when the plugin serves the type (device = the type, open
\* string = global_index), else an aggregate when it can be aggregated and
\* children[0] has it
AttrsOf(tr) ==
  LET at[n \in tr.ids] ==
        [a \in AttrNames |->
           CASE a \in LeafAttrs[tr.type[n]] ->
                  [kind |-> "leaf", device |-> tr.type[n], open |-> tr.gidx[n]]
             [] a \in Aggregatable /\ tr.kids[n] # <<>>
                  /\ at[tr.kids[n][1]][a] # NoAttr ->
                  [kind |-> "inner", device |-> "", open |-> 0]
             [] OTHER -> NoAttr]
  IN at

\* the tree the constructor builds (:45-47): the root TreeNode( NULL,
\* PWR_OBJ_PLATFORM, "plat", 0 ), the nodes initHierarchy pushed, then
\* initAttributes (:91)
BuildTree(t) ==
  LET pushes == Hier(t, 1, 0)
      ids    == {0} \cup {pushes[k].id : k \in 1 .. Len(pushes)}
      tr     == [ids    |-> ids,
                 parent |-> [n \in ids |-> IF n = 0 THEN NoNode
                                ELSE (CHOOSE r \in Range(pushes) : r.id = n).parent],
                 kids   |-> [n \in ids |->
                               LET s == SelectSeq(pushes, LAMBDA r : r.parent = n)
                               IN [k \in 1 .. Len(s) |-> s[k].id]],
                 type   |-> [n \in ids |-> IF n = 0 THEN "platform" ELSE t.type[n]],
                 name   |-> [n \in ids |-> IF n = 0 THEN RootName
                                           ELSE <<t.type[n], t.os[n]>>],
                 gidx   |-> [n \in ids |-> IF n = 0 THEN 0 ELSE t.lidx[n]]]
  IN [attrs |-> AttrsOf(tr)] @@ tr

\* getFullName (:347-355)
RECURSIVE FullName(_, _)
FullName(tr, n) ==
  IF tr.parent[n] = NoNode THEN <<tr.name[n]>>
  ELSE FullName(tr, tr.parent[n]) \o <<tr.name[n]>>

\* a variant of findObj that looks at the node and its children only
FindObjNoDescent(tr, n, name) ==
  IF FullName(tr, n) = name THEN n
  ELSE LET I == {i \in 1 .. Len(tr.kids[n]) : FullName(tr, tr.kids[n][i]) = name} IN
       IF I = {} THEN NoNode ELSE tr.kids[n][CHOOSE i \in I : TRUE]

\* findObj (:317-333): the node itself when its full name matches, else
\* the first child subtree that finds it, else NULL
RECURSIVE FindObj(_, _, _)
RECURSIVE FindIn(_, _, _, _)
FindObj(tr, n, name) ==
  IF FullName(tr, n) = name THEN n ELSE FindIn(tr, tr.kids[n], 1, name)
FindIn(tr, ks, i, name) ==
  IF i > Len(ks) THEN NoNode
  ELSE LET r == FindObj(tr, ks[i], name) IN
       IF r # NoNode THEN r ELSE FindIn(tr, ks, i + 1, name)

\* the full names of node n's children, as findChildren and
\* findAttrChildren push them (:228-230, :293-295)
ChildNames(tr, n) == [k \in 1 .. Len(tr.kids[n]) |-> FullName(tr, tr.kids[n][k])]

\* the values initAttributes gives every attribute it sets (:113-115, :130-132)
FieldVal == [type |-> "Float", op |-> "SUM", hz |-> "1"]

\* a name no node has
UnknownName == <<RootName, <<"core", -1>>>>

-----------------------------------------------------------------------------
VARIABLES
  topo,   \* the hwloc topology hwloc_topology_load detects
  phase,  \* "init", "ready", "aborted" (an assert) or "crashed" (a NULL deref)
  libs,   \* m_libs.size()
  tree,   \* m_root's tree, NoTree before the constructor
  answer  \* the last lookup: its operation, arguments and result

vars == <<topo, phase, libs, tree, answer>>

\* m_root before the constructor has run: no nodes
NoTree == [ids |-> {}, parent |-> <<>>, kids |-> <<>>, type |-> <<>>,
           name |-> <<>>, gidx |-> <<>>, attrs |-> <<>>]

\* the constructor got past the assert at :72 and built the tree
Built == tree.ids # {}

NoAnswer == [op |-> "none", name |-> <<>>, attr |-> "", val |-> ""]

\* names a caller may look up: those of the tree and one it lacks
Names == {FullName(tree, n) : n \in tree.ids} \cup {UnknownName}

\* a lookup: findObj under the mutex, the result recorded, nothing changed
Answer(op, name, a, v) ==
  /\ answer' = [op |-> op, name |-> name, attr |-> a, val |-> v]
  /\ UNCHANGED <<topo, phase, libs, tree>>

\* a lookup that dereferences findObj's result without a NULL check: an
\* unknown name is a NULL dereference, which kills the process
Crash ==
  /\ phase' = "crashed"
  /\ UNCHANGED <<topo, libs, tree, answer>>

\* a variant of Construct that counts one line too many
ConstructCountPlusOne ==
  /\ phase = "init"
  /\ \E n \in LineCounts :
       /\ libs' = n + 1
       /\ phase' = IF n = 1 THEN "ready" ELSE "aborted"
       /\ tree' = IF n = 1 THEN BuildTree(topo) ELSE tree
  /\ UNCHANGED <<topo, answer>>

\* HwlocConfig( file ) (:26-94): the tree, the plugin file's lines, the
\* assert that there is exactly one (:72), then initAttributes; uname
\* (:74-75) does not fail.  After the assert the process is gone and its
\* tree is of no interest.
Construct ==
  /\ phase = "init"
  /\ \E n \in LineCounts :
       /\ libs' = n
       /\ phase' = IF n = 1 THEN "ready" ELSE "aborted"
       /\ tree' = IF n = 1 THEN BuildTree(topo) ELSE tree
  /\ UNCHANGED <<topo, answer>>

\* objType (:157-171)
ObjType ==
  /\ phase = "ready"
  /\ \E name \in Names :
       LET n == FindObj(tree, 0, name) IN
       Answer("objType", name, "", IF n # NoNode THEN tree.type[n] ELSE "invalid")

\* findChildren (:283-301)
FindChildren ==
  /\ phase = "ready"
  /\ \E name \in Names :
       LET n == FindObj(tree, 0, name) IN
       Answer("children", name, "", IF n # NoNode THEN ChildNames(tree, n) ELSE <<>>)

\* findParent (:303-315): "" for an unknown name and for the root
FindParent ==
  /\ phase = "ready"
  /\ \E name \in Names :
       LET n == FindObj(tree, 0, name) IN
       Answer("parent", name, "",
              IF n # NoNode /\ tree.parent[n] # NoNode
              THEN FullName(tree, tree.parent[n]) ELSE <<>>)

\* findObjDevs (:199-218): the device binding of a leaf attribute
FindObjDevs ==
  /\ phase = "ready"
  /\ \E name \in Names, a \in AttrNames :
       LET n == FindObj(tree, 0, name) IN
       IF n = NoNode THEN Crash
       ELSE LET at == tree.attrs[n][a] IN
            Answer("objDevs", name, a,
                   IF at.kind = "leaf" THEN <<[device |-> at.device, open |-> at.open]>>
                   ELSE <<>>)

\* findAttrChildren (:220-234): the children, whatever the attribute
FindAttrChildren ==
  /\ phase = "ready"
  /\ \E name \in Names, a \in AttrNames :
       LET n == FindObj(tree, 0, name) IN
       IF n = NoNode THEN Crash ELSE Answer("attrChildren", name, a, ChildNames(tree, n))

\* findAttrType, findAttrOp and findAttrHz (:236-281): the field, or ""
FindAttrField ==
  /\ phase = "ready"
  /\ \E name \in Names, a \in AttrNames, f \in DOMAIN FieldVal :
       LET n == FindObj(tree, 0, name) IN
       IF n = NoNode THEN Crash
       ELSE Answer(f, name, a, IF tree.attrs[n][a] # NoAttr THEN FieldVal[f] ELSE "")

\* hasObject (:147-155) is assert(0)
HasObject ==
  /\ phase = "ready"
  /\ phase' = "aborted"
  /\ UNCHANGED <<topo, libs, tree, answer>>

\* the process is gone
Halted ==
  /\ phase \in {"aborted", "crashed"}
  /\ UNCHANGED vars

Init ==
  /\ topo \in Topologies
  /\ phase = "init" /\ libs = 0 /\ tree = NoTree /\ answer = NoAnswer

Next ==
  \/ Construct
  \/ ObjType \/ FindChildren \/ FindParent
  \/ FindObjDevs \/ FindAttrChildren \/ FindAttrField
  \/ HasObject \/ Halted

Spec == Init /\ [][Next]_vars

-----------------------------------------------------------------------------
(* A reference for the hierarchy, from the topology's ancestor relation    *)

\* hwloc's parent-child relation
HwChild(t) == [x, y \in Objs(t) |-> \E i \in 1 .. Len(t.kids[x]) : t.kids[x][i] = y]

\* the child indexes from the machine down to o
RECURSIVE Path(_, _)
Path(t, o) ==
  IF o = 1 THEN <<>>
  ELSE LET q == CHOOSE q \in Objs(t) : HwChild(t)[q, o] IN
       Path(t, q) \o <<CHOOSE i \in 1 .. Len(t.kids[q]) : t.kids[q][i] = o>>

\* a is a proper ancestor of o: its path is a proper prefix of o's
Ancestor(t) == [a, o \in Objs(t) |-> IsStrictPrefix(Path(t, a), Path(t, o))]

KeptObjs(t) == {o \in Objs(t) : t.type[o] \in KeptTypes}

\* the deepest kept proper ancestor of o, the root when there is none
RefParent(t, anc, o) ==
  LET A == {a \in KeptObjs(t) : anc[a, o]} IN
  IF A = {} THEN 0 ELSE CHOOSE a \in A : \A b \in A : b = a \/ anc[b, a]

\* p comes first in a depth-first walk of objects neither above the other
Before(p, q) ==
  \E k \in 1 .. Len(p) : k <= Len(q) /\ p[k] < q[k]
                         /\ \A i \in 1 .. k - 1 : p[i] = q[i]

-----------------------------------------------------------------------------
(* Properties                                                              *)

TypeOK ==
  /\ topo \in Topologies
  /\ phase \in {"init", "ready", "aborted", "crashed"}
  /\ libs \in LineCounts \cup {0}
  /\ Built => tree.ids \subseteq {0} \cup Objs(topo)
  /\ answer.op \in {"none", "objType", "children", "parent", "objDevs",
                    "attrChildren"} \cup DOMAIN FieldVal

\* spec.md 4.2 (the topology provider keeps NUMA nodes, sockets and cores
\* of the hwloc topology): the tree initHierarchy builds (:374-396) has a
\* node for each such object and no other, every node's parent is its
\* nearest such ancestor in hwloc (the platform root when none), and each
\* node's children are listed in hwloc's depth-first order.
HierarchyExact ==
  Built =>
    LET anc == Ancestor(topo) IN
    /\ tree.ids = {0} \cup KeptObjs(topo)
    /\ \A o \in KeptObjs(topo) : tree.parent[o] = RefParent(topo, anc, o)
    /\ \A n \in tree.ids :
         /\ Range(tree.kids[n]) = {o \in KeptObjs(topo) : RefParent(topo, anc, o) = n}
         /\ \A i, j \in 1 .. Len(tree.kids[n]) :
              i < j => Before(Path(topo, tree.kids[n][i]), Path(topo, tree.kids[n][j]))

\* spec.md :92 (resolve an object name to its type and children/parent and
\* its device bindings): whatever node carries the name a lookup was given,
\* the answer, found by findObj's depth-first search (:317-333) and
\* getFullName (:347-355), is that node's type, the names of the nodes
\* whose parent it is, its parent's name, and the binding of a leaf
\* attribute the plugin serves for its type; an unknown name has type
\* PWR_OBJ_INVALID.
QueryAnswersMatchTree ==
  Built =>
    LET N  == {n \in tree.ids : FullName(tree, n) = answer.name}
        op == answer.op
    IN /\ (op = "objType" /\ N = {}) => answer.val = "invalid"
       /\ \A n \in N :
            /\ op = "objType" => answer.val = tree.type[n]
            /\ op \in {"children", "attrChildren"} =>
                 /\ Len(answer.val) = Cardinality({c \in tree.ids : tree.parent[c] = n})
                 /\ Range(answer.val) = {FullName(tree, c) : c \in {c \in tree.ids : tree.parent[c] = n}}
            /\ op = "parent" =>
                 answer.val = IF n = 0 THEN <<>> ELSE FullName(tree, tree.parent[n])
            /\ op = "objDevs" =>
                 answer.val = IF answer.attr \in LeafAttrs[tree.type[n]]
                              THEN <<[device |-> tree.type[n], open |-> tree.gidx[n]]>>
                              ELSE <<>>
====
