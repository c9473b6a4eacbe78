------------------------------ MODULE XmlConfig ------------------------------
(***************************************************************************)
(* The XML-file configuration provider (src/xmlConfig.cc).                 *)
(*                                                                         *)
(* The constructor loads the document and keeps its "System" element.      *)
(* Every lookup walks the sections of System (Plugins, Devices, Objects)   *)
(* and the elements under them sibling by sibling, taking the first that   *)
(* matches, and asserts the tag of every element it walks.  An object's    *)
(* children and attribute sources are relative names: the answer is the    *)
(* object's name, ".", and the child's name.                               *)
(*                                                                         *)
(* An element is a record [tag, at, kids]: its name, its XML attributes    *)
(* as a record, its child elements in document order.  A name written in   *)
(* the file is the sequence of its "."-separated parts, so the string      *)
(* name + "." + child is the concatenation of the two sequences.           *)
(***************************************************************************)
EXTENDS Integers, Sequences, SequencesExt, FiniteSets

CONSTANTS
  Docs,      \* the documents the configuration file may hold
  AttrNames  \* the PWR_AttrName values looked up

NoElem == [tag |-> "NULL", at |-> [name |-> <<>>], kids |-> <<>>]

\* objTypeToString (:346-360)
ObjTypeToString ==
  [PLATFORM |-> "Platform", CABINET |-> "Cabinet", BOARD |-> "Board",
   NODE |-> "Node", SOCKET |-> "Socket", CORE |-> "Core", NIC |-> "Nic",
   MEM |-> "Memory", INVALID |-> "Invalid"]

PwrTypes == DOMAIN ObjTypeToString

\* objTypeStrToInt (:362-378): six of the nine strings, else INVALID
ObjTypeStrToInt(s) ==
  CASE s = "Platform" -> "PLATFORM" [] s = "Cabinet" -> "CABINET"
    [] s = "Board"    -> "BOARD"    [] s = "Node"    -> "NODE"
    [] s = "Socket"   -> "SOCKET"   [] s = "Core"    -> "CORE"
    [] OTHER          -> "INVALID"

\* attrNameToString (:380-397)
AttrNameToString(a) ==
  LET T == [NAME |-> "Name", FREQ |-> "Freq", PSTATE |-> "Pstate",
            MAX_POWER |-> "Max Power", MIN_POWER |-> "Min Power",
            AVG_POWER |-> "Avg Power", POWER |-> "POWER",
            VOLTAGE |-> "VOLTAGE", CURRENT |-> "CURRENT",
            ENERGY |-> "Energy", INVALID |-> "Invalid"]
  IN IF a \in DOMAIN T THEN T[a] ELSE "????"

-----------------------------------------------------------------------------
(* The walks                                                               *)

\* the index of the first j >= 1 with Test(s[j]), 0 (NULL) when none
First(s, Test(_)) ==
  LET J == {j \in 1 .. Len(s) : Test(s[j])} IN IF J = {} THEN 0 ELSE Min(J)

\* findNode (:327-344): the first sibling named name
FindNode(s, name) == First(s, LAMBDA e : e.tag = name)

\* findNodeWithAttr (:264-295): the first child of elm named nodeName,
\* then the first element under it whose attribute attrName is attrValue
FindNodeWithAttr(elm, nodeName, attrName, attrValue) ==
  LET i == FindNode(elm.kids, nodeName)
      s == IF i = 0 THEN <<>> ELSE elm.kids[i].kids
      j == First(s, LAMBDA e : e.at[attrName] = attrValue)
  IN IF j = 0 THEN NoElem ELSE s[j]

\* findDev (:254-257) and findAttr (:259-262)
FindDev(elm, name)  == FindNodeWithAttr(elm, "devices", "name", name)
FindAttr(elm, attr) == FindNodeWithAttr(elm, "attributes", "name", attr)

\* the outcome of a lookup: "ok" with a value, or the process dies on an
\* assert ("abort") or a NULL dereference ("crash")
Ok(v)   == [st |-> "ok", val |-> v]
Dead(k) == [st |-> k, val |-> <<>>]

\* findNodes1stChild( m_systemNode->FirstChild(), name ) (:297-302):
\* the elements of System's first section named name; assert it exists
Section(doc, name) ==
  LET i == FindNode(doc.kids, name) IN
  IF i = 0 THEN Dead("abort") ELSE Ok(doc.kids[i].kids)

\* findObject (:304-325): the first element of Objects with that name
FindObject(doc, name) ==
  LET r == Section(doc, "Objects")
      j == First(r.val, LAMBDA e : e.at.name = name)
  IN IF r.st # "ok" THEN r ELSE Ok(IF j = 0 THEN NoElem ELSE r.val[j])

\* the loop shape of findPlugins, findSysDevs, findObjType and the src
\* loops: every element walked must have the tag, or the assert fails
AllTagged(s, tag) == \A j \in 1 .. Len(s) : s[j].tag = tag

-----------------------------------------------------------------------------
(* The lookups, as functions of the document                               *)

\* objType (:57-60) with getType (:62-65): getType( NULL ) dereferences NULL
ObjTypeQ(doc, name) ==
  LET r == FindObject(doc, name) IN
  CASE r.st # "ok"     -> r
    [] r.val = NoElem  -> Dead("crash")
    [] OTHER           -> Ok(ObjTypeStrToInt(r.val.at.type))

\* hasObject (:51-55)
HasObjectQ(doc, name) ==
  LET r == FindObject(doc, name) IN
  IF r.st # "ok" THEN r ELSE Ok(r.val # NoElem)

\* findPlugins (:67-89)
FindPluginsQ(doc) ==
  LET r == Section(doc, "Plugins") IN
  CASE r.st # "ok"                 -> r
    [] ~AllTagged(r.val, "plugin") -> Dead("abort")
    [] OTHER -> Ok([j \in 1 .. Len(r.val) |-> [name |-> r.val[j].at.name,
                                                lib |-> r.val[j].at.lib]])

\* findSysDevs (:91-112)
FindSysDevsQ(doc) ==
  LET r == Section(doc, "Devices") IN
  CASE r.st # "ok"                 -> r
    [] ~AllTagged(r.val, "device") -> Dead("abort")
    [] OTHER -> Ok([j \in 1 .. Len(r.val) |-> [name |-> r.val[j].at.name,
                                                plugin |-> r.val[j].at.plugin,
                                                init |-> r.val[j].at.initString]])

\* the sources of attribute a of object obj whose type is kind, in order
Srcs(obj, a, kind) ==
  SelectSeq(FindAttr(obj, AttrNameToString(a)).kids, LAMBDA e : e.at.type = kind)

\* findObjDevs (:114-151): assert the object, then for each src of the
\* attribute assert its tag and, for a device source, its device entry
FindObjDevsQ(doc, name, a) ==
  LET r   == FindObject(doc, name)
      obj == r.val
      D   == Srcs(obj, a, "device")
  IN CASE r.st # "ok"  -> r
       [] obj = NoElem -> Dead("abort")
       [] ~AllTagged(FindAttr(obj, AttrNameToString(a)).kids, "src")
          \/ \E j \in 1 .. Len(D) : FindDev(obj, D[j].at.name) = NoElem -> Dead("abort")
       [] OTHER -> Ok([j \in 1 .. Len(D) |->
                         [device |-> FindDev(obj, D[j].at.name).at.device,
                          open   |-> FindDev(obj, D[j].at.name).at.openString]])

\* findAttrChildren (:153-184): the child sources, as name "." child
FindAttrChildrenQ(doc, name, a) ==
  LET r   == FindObject(doc, name)
      obj == r.val
      C   == Srcs(obj, a, "child")
  IN CASE r.st # "ok"  -> r
       [] obj = NoElem -> Dead("abort")
       [] ~AllTagged(FindAttr(obj, AttrNameToString(a)).kids, "src") -> Dead("abort")
       [] OTHER -> Ok([j \in 1 .. Len(C) |-> obj.at.name \o C[j].at.name])

\* findAttrOp (:186-199)
FindAttrOpQ(doc, name, a) ==
  LET r    == FindObject(doc, name)
      node == FindAttr(r.val, AttrNameToString(a))
  IN CASE r.st # "ok"    -> r
       [] r.val = NoElem -> Dead("abort")
       [] node = NoElem  -> Ok("")
       [] OTHER          -> Ok(node.at.op)

\* a variant of findChildren that answers the child's own name without
\* the object's name in front
FindChildrenNoPrefix(doc, name) ==
  LET r   == FindObject(doc, name)
      obj == r.val
      i   == FindNode(obj.kids, "children")
      s   == IF i = 0 THEN <<>> ELSE obj.kids[i].kids
  IN CASE r.st # "ok"           -> r
       [] obj = NoElem          -> Dead("abort")
       [] i = 0                 -> Dead("abort")
       [] ~AllTagged(s, "child") -> Dead("abort")
       [] OTHER -> Ok([j \in 1 .. Len(s) |-> s[j].at.name])

\* findChildren (:201-227): findNodes1stChild asserts that the object
\* has a children element, then every child is asserted and named
FindChildrenQ(doc, name) ==
  LET r   == FindObject(doc, name)
      obj == r.val
      i   == FindNode(obj.kids, "children")
      s   == IF i = 0 THEN <<>> ELSE obj.kids[i].kids
  IN CASE r.st # "ok"           -> r
       [] obj = NoElem          -> Dead("abort")
       [] i = 0                 -> Dead("abort")
       [] ~AllTagged(s, "child") -> Dead("abort")
       [] OTHER -> Ok([j \in 1 .. Len(s) |-> obj.at.name \o s[j].at.name])

\* findObjType (:229-252): the names of the objects whose type string is
\* objTypeToString( type )
FindObjTypeQ(doc, t) ==
  LET r == Section(doc, "Objects")
      M == SelectSeq(r.val, LAMBDA e : e.at.type = ObjTypeToString[t])
  IN CASE r.st # "ok"              -> r
       [] ~AllTagged(r.val, "obj") -> Dead("abort")
       [] OTHER -> Ok([j \in 1 .. Len(M) |-> M[j].at.name])

\* the names of the objects of the Objects section
ObjNames(doc) ==
  LET i == FindNode(doc.kids, "Objects") IN
  IF i = 0 THEN {} ELSE {e.at.name : e \in Range(doc.kids[i].kids)}

-----------------------------------------------------------------------------
VARIABLES
  doc,    \* the document LoadFile parsed; m_systemNode is its root element
  phase,  \* "init", "ready", "aborted" (an assert) or "crashed" (NULL)
  answer  \* the last lookup that returned: operation, arguments, result

vars == <<doc, phase, answer>>

NoAnswer == [op |-> "none", name |-> <<>>, attr |-> "", val |-> <<>>]

\* a caller may look up the names of the document and one it lacks
UnknownName == <<"nosuch">>
Names == ObjNames(doc) \cup {UnknownName}

\* the lookup returns r, or the process dies inside it
Reply(op, name, a, r) ==
  /\ phase = "ready"
  /\ IF r.st = "ok"
       THEN /\ answer' = [op |-> op, name |-> name, attr |-> a, val |-> r.val]
            /\ UNCHANGED phase
       ELSE /\ phase' = IF r.st = "abort" THEN "aborted" ELSE "crashed"
            /\ UNCHANGED answer
  /\ UNCHANGED doc

\* XmlConfig( file ) (:8-15): findNode( RootElement(), "System" ) looks at
\* the root element and its siblings, and a document has one root
Construct ==
  /\ phase = "init"
  /\ phase' = IF doc.tag = "System" THEN "ready" ELSE "aborted"
  /\ UNCHANGED <<doc, answer>>

ObjType      == \E n \in Names : Reply("objType", n, "", ObjTypeQ(doc, n))
HasObject    == \E n \in Names : Reply("hasObject", n, "", HasObjectQ(doc, n))
FindPlugins  == Reply("plugins", <<>>, "", FindPluginsQ(doc))
FindSysDevs  == Reply("sysDevs", <<>>, "", FindSysDevsQ(doc))
FindChildren == \E n \in Names : Reply("children", n, "", FindChildrenQ(doc, n))
FindObjType  == \E t \in PwrTypes : Reply("objOfType", <<>>, t, FindObjTypeQ(doc, t))
FindObjDevs ==
  \E n \in Names, a \in AttrNames : Reply("objDevs", n, a, FindObjDevsQ(doc, n, a))
FindAttrChildren ==
  \E n \in Names, a \in AttrNames : Reply("attrChildren", n, a, FindAttrChildrenQ(doc, n, a))
FindAttrOp ==
  \E n \in Names, a \in AttrNames : Reply("attrOp", n, a, FindAttrOpQ(doc, n, a))

\* the process is gone
Halted ==
  /\ phase \in {"aborted", "crashed"}
  /\ UNCHANGED vars

Init ==
  /\ doc \in Docs
  /\ phase = "init"
  /\ answer = NoAnswer

Next ==
  \/ Construct
  \/ ObjType \/ HasObject \/ FindPlugins \/ FindSysDevs
  \/ FindChildren \/ FindObjType
  \/ FindObjDevs \/ FindAttrChildren \/ FindAttrOp
  \/ Halted

Spec == Init /\ [][Next]_vars

-----------------------------------------------------------------------------
(* Properties                                                              *)

\* spec.md 6 (resolve an object name to its type): objType (:57-65) gives
\* every object the document declares a valid type, and findObjType of
\* that type (:229-252) lists the object; the two conversions,
\* objTypeStrToInt and objTypeToString, must agree on every type string
\* the document uses.
TypeRoundTrip ==
  (answer.op = "objType" /\ answer.name \in ObjNames(doc)) =>
    /\ answer.val # "INVALID"
    /\ answer.name \in Range(FindObjTypeQ(doc, answer.val).val)

\* spec.md 6 (resolve an object name to its children; the child sources
\* that feed an attribute): every name findChildren (:201-227) or
\* findAttrChildren (:153-184) answers is a name the provider resolves,
\* an object of the document that hasObject finds.
ChildrenResolve ==
  answer.op \in {"children", "attrChildren"} =>
    \A j \in 1 .. Len(answer.val) : HasObjectQ(doc, answer.val[j]) = Ok(TRUE)
====
