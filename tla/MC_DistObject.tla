---------------------------- MODULE MC_DistObject ----------------------------
(* Instantiates DistObject for TLC: object o1 is local, object o2 reaches  *)
(* both its attributes through comm handler c1, object o3 has a local and *)
(* a remote attribute.                                                     *)
EXTENDS DistObject, TLC

CONSTANTS o1, o2, o3, a1, a2, c1

MCAttrComm ==
  [o \in Objs |-> CASE o = o1 -> [a \in Attrs |-> NoComm]
                    [] o = o2 -> [a \in Attrs |-> c1]
                    [] o = o3 -> [a \in Attrs |-> IF a = a1 THEN NoComm ELSE c1]]
=============================================================================
