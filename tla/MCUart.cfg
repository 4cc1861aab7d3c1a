\* Lines of every kind arrive while nothing is sent; router and peer take turns.
SPECIFICATION FairSpec
CONSTANTS
  BufferSize = 5
  PacketSize = 3
  QueueSize = 2
  RxFifoSize = 3
  TxFifoSize = 2
  Traffics <- MCOrderly
INVARIANTS TypeOK ReceivedInOrder LinesWhole SentIntact
PROPERTIES SendCompletes
\* The peer has no more to say after the last byte.
CHECK_DEADLOCK FALSE
