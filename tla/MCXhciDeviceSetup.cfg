CONSTANTS
  Zero = Zero
  NoEvent <- Zero
  MaxSlots = 2
  EvRingSize = 4
  MaxPortEvents = 3
  AllocOutcomes = {TRUE, FALSE}
SPECIFICATION Spec
INVARIANTS
  TypeOK
  CompletionMatchesCommand
  AddressOnlyEnabledSlot
  EventsInPostingOrder
  BatchStable
PROPERTIES
