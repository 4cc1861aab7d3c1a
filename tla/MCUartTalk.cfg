\* The peer speaks while the router sends.
SPECIFICATION Spec
CONSTANTS
  BufferSize = 5
  PacketSize = 3
  QueueSize = 2
  RxFifoSize = 2
  TxFifoSize = 2
  Traffics <- MCTalk
INVARIANTS SentIntact
\* The peer has no more to say after the last byte.
CHECK_DEADLOCK FALSE
