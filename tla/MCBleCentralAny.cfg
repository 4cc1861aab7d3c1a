\* A client that sends at any time, and anything may go wrong.
SPECIFICATION Spec
CONSTANTS
  Device <- MCDevices
  Table <- WithLateConfiguration
  BufferSize = 2
  SessionLength <- MCLongSession
  ResultLengths = {1, 3}
  CommandLength = 2
  PduLength = 1
  Terminated = FALSE
  Overhang = TRUE
  Client = "any"
  MaxMessages = 3
  Faults <- FaultKind
  MaxFaults = 1
INVARIANTS TypeOK CheckedStaysTrue AvailableUnlessUp
\* The client has no more to send after MaxMessages messages.
CHECK_DEADLOCK FALSE
