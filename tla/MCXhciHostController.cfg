CONSTANTS
  HaltTimeout = 20
  ResetTimeout = 100
  Faults = {"NoHalt", "NoReset", "HostSystemError"}
  MaxPortChanges = 1
  NumPorts = 2
  SupportedProtocols <- MCSupportedProtocols
  PortResetTimeout = 4
  HcdPortResetTimeout = 3
  ScratchpadCounts = {2}
SPECIFICATION Spec
INVARIANTS
  TypeOK
  ConfiguredOnlyWhenReady
  ScratchpadArrayFilled
PROPERTIES
  ResetTerminates
  ResetOnlyPoweredPorts
  PortResetsEnd
