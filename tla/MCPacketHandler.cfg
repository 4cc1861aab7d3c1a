\* Order of delivery and one result per request, with unsolicited data.
SPECIFICATION BoundedSpec
CONSTANTS
  cloud = cloud
  ble = ble
  rs485 = rs485
  cm4 = cm4
  unknown = unknown
  Cloud = cloud
  CM4 = cm4
  Unknown = unknown
  None = None
  Serial = {rs485}
  InstanceId = {cloud, ble, rs485, cm4, unknown}
  BootScript <- MCBootScript
  Telemetry = {rs485}
  Addressed = {cloud, ble, rs485}
  RequestId = {0, 1, 2}
  OneOutstanding = FALSE
  QueueSlots = 3
  QueueLimit = 5
  MaxPackets = 3
INVARIANTS IInv OneReplyPerRequest ReplyFromAddressee
PROPERTIES ImplementsLossyRouter
\* The firmware stops after a fault, and MaxPackets ends every behaviour.
CHECK_DEADLOCK FALSE
