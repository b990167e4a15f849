CONSTANTS
  a = a
  b = b
  nl = nl
  cr = cr
  bs = bs
  del = del
  nul = nul
  com1 = com1
  com2 = com2
  Chars <- MCChars
  Nl = nl
  Cr = cr
  Bs = bs
  Del = del
  Nul = nul
  MaxCommandLength = 4
  MaxKeys = 7
  HelpCmd <- MCHelp
  EchoPrefix <- MCEchoPrefix
  ShutdownCmd <- MCShutdown
  RebootCmd <- MCReboot
  CpuinfoCmd <- MCCpuinfo
  ClearCmd <- MCClear
  Ports = {com1, com2}
  Com1 = com1
  Divisors <- MCDivisors
  LineBytes <- MCLineBytes
  LineInput <- MCLineInput
  Messages <- MCMessages
  FifoDepth = 1
  LineBudget <- MCLineBudget
  MaxCalls = 3
  FirmwareUart <- MCFirmwareUart
SPECIFICATION Spec
VIEW MCView
INVARIANTS
  TypeOK
  CommandWithinLine
  TransmitInOrder
  PortConfigured
PROPERTIES
  WritesComplete
  InputConsumed
