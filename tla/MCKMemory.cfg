CONSTANTS
  MemSize = 20
  Ops <- AllOps
SPECIFICATION Spec
INVARIANTS
  TypeOK
  CopyMatchesReference
  CompareMatchesReference
  SetMatchesReference
