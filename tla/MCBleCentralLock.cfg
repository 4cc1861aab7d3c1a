\* A message for a connection that is not set up yet.
SPECIFICATION Spec
CONSTANTS
  Device <- OneDevice
  Table <- OneTable
  BufferSize = 2
  SessionLength <- OneSession
  ResultLengths = {1}
  CommandLength = 1
  PduLength = 1
  Terminated = FALSE
  Overhang = FALSE
  Client = "any"
  MaxMessages = 3
  Faults <- NoFaults
  MaxFaults = 0
INVARIANTS LockReleased
\* The client has no more to send after MaxMessages messages.
CHECK_DEADLOCK FALSE
