CONSTANTS
  p1 = p1
  p2 = p2
  Zero = Zero
  Link = Link
  Payloads <- MCPayloads
  NoTrb <- Zero
  LinkTrb <- Link
  RingSize = 5
  MaxEnqueues = 9
  MaxOutstanding = 3
SPECIFICATION Spec
INVARIANTS
  TypeOK
  TrbsDeliveredInOrder
PROPERTIES
  FifoRefinement
