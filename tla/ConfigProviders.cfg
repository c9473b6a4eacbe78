CONSTANT XmlDocs <- MCDocs
SPECIFICATION Spec

INVARIANT HwTypeOK
INVARIANT HwHierarchyExact
INVARIANT HwQueryAnswersMatchTree
INVARIANT XmlChildrenResolve
