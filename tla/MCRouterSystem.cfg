\* The packet handler with main, the websocket's receive thread and one CPU: an
\* application that waits for each result, and also asks an instance nobody
\* registers, a device that sends data unasked, one whose lines may begin with
\* the token of the CM4, instances that fail to start and a lost connection.
SPECIFICATION FairSystem
CONSTANTS
  cloud = cloud
  ble = ble
  rs485 = rs485
  cm4 = cm4
  unknown = unknown
  Cloud = cloud
  CM4 = cm4
  Unknown = unknown
  None = None
  Serial = {rs485}
  InstanceId = {cloud, ble, rs485, cm4, unknown}
  BootScript <- MCBootScript
  Telemetry = {ble}
  Addressed = {rs485, cm4, unknown}
  RequestId = {0, 1, 2, 3}
  OneOutstanding = TRUE
  QueueSlots = 3
  QueueLimit = 5
  MaxPackets = 3
  Automatic = {rs485}
  LinkLosses = TRUE
INVARIANTS ReplyIsAnswer NullOnlyForStrangers
PROPERTIES NothingStranded SentGetsResult
\* The firmware stops after a fault, and MaxPackets ends every behaviour.
CHECK_DEADLOCK FALSE
