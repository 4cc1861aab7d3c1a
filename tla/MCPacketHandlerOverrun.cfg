\* max_msgs is larger than the number of slots of the queue's buffer.
SPECIFICATION BoundedSpec
CONSTANTS
  cloud = cloud
  ble = ble
  rs485 = rs485
  cm4 = cm4
  unknown = unknown
  Cloud = cloud
  CM4 = cm4
  Unknown = unknown
  None = None
  Serial = {rs485}
  InstanceId = {cloud, ble, rs485, cm4, unknown}
  BootScript <- MCBootScript
  Telemetry = {rs485}
  Addressed = {cloud, ble, rs485}
  RequestId = {1}
  OneOutstanding = FALSE
  QueueSlots = 2
  QueueLimit = 4
  MaxPackets = 4
INVARIANTS NoQueueOverrun
\* The firmware stops after a fault, and MaxPackets ends every behaviour.
CHECK_DEADLOCK FALSE
