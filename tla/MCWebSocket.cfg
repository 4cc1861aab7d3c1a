\* Three commands in any pieces, three answers, connections that fail or close.
SPECIFICATION FairSpec
CONSTANTS
  Crc <- MCCrc
  Commands <- MCCommands
  Answers <- MCAnswers
  BufferSize = 16
  ByDomain = FALSE
  EarlyAnswers = FALSE
  CloudCloses = TRUE
  MaxPackets = 5
INVARIANTS MessagesWhole CommandsIntact AnswersIntact BufferHolds
PROPERTIES EveryMessageDispatched LetsOthersRun CallbackReturns
\* Set-up may fail, and MaxPackets ends every behaviour of a closed connection.
CHECK_DEADLOCK FALSE
