\* Several threads register; one also unregisters, the latest id only.
SPECIFICATION FairSpec
CONSTANTS
  main = main
  other = other
  third = third
  cloud = cloud
  ble = ble
  rs485 = rs485
  rs232 = rs232
  mesh = mesh
  cm4 = cm4
  None = None
  Client = {main, other, third}
  InstanceId = {cloud, ble, rs485, rs232, mesh, cm4}
  Scripts <- MCScripts
  Handlers = 5
INVARIANTS HeldOnlyToUpdate NoIdTwice RegisteredIsFound UnregisteredIsGone
PROPERTIES EveryCallReturns
\* The clients have no calls left at the end.
CHECK_DEADLOCK FALSE
