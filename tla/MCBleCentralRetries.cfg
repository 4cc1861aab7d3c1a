\* Connections fail and are lost, and the router tries again.
SPECIFICATION FairSpec
CONSTANTS
  Device <- OneDevice
  Table <- OneTable
  BufferSize = 2
  SessionLength <- OneSession
  ResultLengths = {1}
  CommandLength = 1
  PduLength = 1
  Terminated = FALSE
  Overhang = TRUE
  Client = "patient"
  MaxMessages = 1
  Faults <- Retried
  MaxFaults = 3
PROPERTIES SessionDataArrives
\* The client has no more to send after MaxMessages messages.
CHECK_DEADLOCK FALSE
