\* The XML provider given a platform whose node has a socket and a NIC,
\* the NIC written with the type string objTypeToString gives PWR_OBJ_NIC.
CONSTANT XmlDocs <- MCNicDocs
SPECIFICATION Spec
INVARIANT XmlTypeRoundTrip
