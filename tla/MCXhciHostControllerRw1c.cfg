CONSTANTS
  HaltTimeout = 20
  ResetTimeout = 100
  Faults = {"NoHalt", "NoReset", "HostSystemError"}
  MaxPortChanges = 2
  NumPorts = 2
  SupportedProtocols <- MCSupportedProtocols
  PortResetTimeout = 4
  HcdPortResetTimeout = 3
  ScratchpadCounts = {0, 2}
SPECIFICATION Spec
PROPERTIES
  StatusChangesNotLost
