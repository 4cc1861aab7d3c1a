\* A client that leaves the router the time it needs, two dialogues.
SPECIFICATION FairSpec
CONSTANTS
  Device <- MCDevices
  Table <- MCTables
  BufferSize = 3
  SessionLength <- MCSessions
  ResultLengths = {1, 5}
  CommandLength = 3
  PduLength = 2
  Terminated = TRUE
  Overhang = TRUE
  Client = "patient"
  MaxMessages = 4
  Faults = {"create", "connect"}
  MaxFaults = 2
INVARIANTS AnswersInOrder CommandsArrive ScanSeesDevice BufferFits
PROPERTIES ConnectionGivenUp
\* The client has no more to send after MaxMessages messages.
CHECK_DEADLOCK FALSE
