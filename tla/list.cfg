SPECIFICATION Spec
CONSTANTS
  Node = {n1, n2, n3, n4}
  NULL = NULL
  Owners <- AllOwners
INVARIANTS TypeOK Linked LookupsAgree
PROPERTY ListRefined
