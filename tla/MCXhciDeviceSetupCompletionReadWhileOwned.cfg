CONSTANTS
  Zero = Zero
  NoEvent <- Zero
  MaxSlots = 2
  EvRingSize = 4
  MaxPortEvents = 4
  AllocOutcomes = {TRUE, FALSE}
SPECIFICATION Spec
INVARIANTS
  CompletionReadWhileOwned
