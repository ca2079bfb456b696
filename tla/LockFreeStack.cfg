\* The program's own three nodes.
CONSTANTS
  A = A
  B = B
  C = C
  Null = Null
SPECIFICATION Spec
INVARIANTS NoNullDereference PoppedStayOut AbaIsAsAnnounced
PROPERTY AllReturn
