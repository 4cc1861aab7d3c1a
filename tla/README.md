# Crownstone router firmware: models and proofs

TLA+ models of the firmware in `src/`, TLC runs that check them on small
instances, and theorems checked by the TLA+ proof system. Line numbers refer to
the files under `src/`.

## The system

The firmware runs on one core under Zephyr. It carries packets between a cloud
application (over a websocket) and devices (Crownstones over Bluetooth, serial
devices over RS485).

| Component | State | Operations | Model |
|---|---|---|---|
| Packet handler `src/cs_PacketHanding.cpp` | message queue, seven handler slots (message, pending request, work item) | `handlePacket`, the packet thread, the transport callbacks | `PacketHandler` |
| Handler register, same file | `_handlers`, `_handler_ctr`, a mutex | `registerHandler`, `unregisterHandler`, `getHandler` | `HandlerRegister` |
| Packet codec, `wrap...`/`load...` in the same file | none | byte layout of packets | `PacketCodec` |
| UART driver `src/drivers/cs_Uart.cpp` | one buffer with counter and pointer, line queue, interrupt enables | interrupt handler, message thread, `sendUartMessage`, `disable` | `Uart`, `RouterSystem` |
| BLE central `src/drivers/ble/cs_BleCentral.cpp` | `_conn`, `_dev_addr`, handles, one buffer with counter, availability event | `sendBleMessage`, `connect`, and the callbacks of the Bluetooth stack | `BleCentral` |
| Service UUIDs `src/drivers/ble/cs_ServiceUuid.cpp` | 16 bytes | conversion, comparison | operators of `BleCentral` |
| WebSocket `src/socket/cs_WebSocket.cpp` | connection event, receive buffer, ids of socket and websocket | `connect`, receive thread, `sendMessage`, `close` | `WebSocket`, `RouterSystem` |
| Socket `src/socket/cs_Socket.cpp` | address and its length, socket id | `init`, `connect`, `close` | steps of `WebSocket` |
| Wi-Fi `src/drivers/cs_Wifi.cpp` | two events, connection parameters | `connect`, `waitConnected`, network callbacks | `Wifi` |
| Start-up `src/cs_Router.cpp` | order of starting and registering | `main` | `RouterSystem`, `Wifi`, `HandlerRegister` |

How they interact:

- an instance calls `handlePacket` from its own thread or callback, which puts a
  copy into the message queue without waiting;
- the packet thread takes packets out, fills the slot of the destination and
  submits the slot's work item;
- the system work queue runs the transport callback of the slot, which reads
  whatever is in the slot by then;
- the answer of a device is a packet like any other. It becomes the *result* of
  a request only because the device's slot remembers one.

Who can interrupt whom: `main` is preemptible by everything. The packet, UART
and websocket threads and the work queue are cooperative, so they change places
only where one blocks. The UART interrupt handler comes between any two
instructions, except under a spin lock. Bluetooth callbacks run on the stack's
thread and may sleep for a retry, or wait for the controller to answer a command,
while the work queue goes on; and the other way round.

### What is hard, and what makes a component correct

- **Packet handler.** A slot is filled again while its work item is queued or
  its callback runs. Correct: each destination is handed some of its packets,
  each at most once and in order, and never loses the newest one; a request gets
  at most one result, its own. Queue limit, missing handlers.
- **The whole router.** Threads that share one processor and one work queue, a
  receive loop, starts that fail, a connection that is lost. Correct: every
  request gets its result, nothing is stranded, what works keeps working.
- **Handler register.** Early returns under a mutex, a lookup without it, an
  array edited in place. Correct: exactly what was registered is found, and the
  mutex always comes free.
- **UART.** One buffer and counter for both directions, shared with an interrupt
  handler. Correct: lines and messages come out whole, in order, uncorrupted,
  and the receiver comes on again.
- **BLE central.** Messages arrive in every phase of a connection, callbacks
  sleep, reads, writes and notifications share a buffer, everything can fail.
  Correct: no connection is made beside another, a request leads to session data
  of the device that was asked for, answers are whole, commands arrive whole at
  the right attribute, locks are released.
- **WebSocket.** Messages arrive in pieces, and an empty receive, an error and
  the end of a message look alike to the loop. Correct: every message is
  dispatched whole and once, answers leave in order with all fields in place, the
  newest always, and nobody holds the processor or the work queue.
- **Wi-Fi.** Scan results arrive while `main` uses the last ones, events are
  never cleared, only one kind of failure is retried. Correct: one request, with
  parameters of a matching network, and the router comes online or goes on.

`PROJECT.json` lists every hazard at its line with the properties about it.

## Modules

### LossyRouter, PacketHandler, PacketHandlerProofs

`LossyRouter` is the abstract promise: packets are accepted one by one, each
destination is handed some of its own in order and none twice.

`PacketHandler` is the code. `msgq` is `_pkth_msgq`, `msg[i]` and `result[i]`
are the slot of instance `i`, `pending` and `running` are the system work queue,
`boot` is where `main` is in `BootScript`. One action each for: a step of `main`
(`MainStep`), one turn of the packet thread (`HandlePacketBuffers`, with both
packet handlers), the start and the end of a transport callback (`RunWork`,
`FinishWork`), and the arrival of packets from the cloud and from devices, all
through `HandlePacket`. A line of a serial device (`Serial`) that begins with the
start token is a packet of the computer module (`StartTokenLine`,
`cs_Uart.cpp:44`): what such a short line reads as is nondeterministic, and a
control packet in it is for `Unknown`, an id that is 0 or not registered; a
length in it that is too small makes the checksum be read behind the buffer
(`Overread`). A turn of the packet thread is one step because nothing
in it blocks and its threads are cooperative; a callback is two because it can
block after reading its slot.

Payloads are left out: a packet is the number of its acceptance and, as a fact
about the device that the program cannot see, the request it answers. An access
through a NULL handler, a write behind the queue and a read behind the buffer set
`fault`, after which nothing happens. `Spec` has no bound; the runs use
`BoundedSpec`, in which at most `MaxPackets` packets that answer nothing are
accepted.

### RouterSystem, RouterSystemProofs

`RouterSystem` puts the packet handler together with what it is connected to. It
extends `PacketHandler` and uses its actions, with guards and effects of their
own: `main` whose calls may fail and which then returns (`StartCloud`,
`StartPeripheral`, `MainReturns`; its destructors switch the interrupts of the
UART instances off, `Silenced`), a connection that is open, failed or lost
(`link`), packets in the socket (`inbox`), and the receive thread (`reader`).
While that thread does not sleep no other cooperative thread runs (`Yielded`).
The callback of the cloud's slot waits for the connection, refuses or sends
(`MayRun`). A device that babbles start tokens does so at any time it could speak
(`PeripheralBabbles`). `SystemAssumption` says of the constants that `main`
registers what it starts and that the application may address `Unknown`, which
`main` does not register.

### HandlerRegister, HandlerRegisterProofs

The register of handlers with its mutex. `registerHandler` is two steps, since
the counter is raised before the entry is written and the lookup takes no mutex:
the packet thread preempts `main` between them. `slots` includes the memory on
both sides of the array, so that a write outside it can be seen. Only `main`
registers today, and nothing unregisters; the scripts of several threads check
the component for what its mutex and its interface promise. Two early returns
leave the mutex locked and the removal loop shifts the wrong entry, so
`HeldOnlyToUpdate` and `EveryCallReturns` are stated for clients that meet
neither (`Orderly`), and removals in the run are of the latest id.

### PacketCodec, PacketCodecProofs

The structures of `cs_RouterProtocol.h` as positions and sizes, every wrap and
load function as an operator on sequences of bytes, and the two branches of the
packet thread that call them: `Command` is what a received packet puts into a
slot, `Outgoing` what an instance's packet becomes for the cloud or for a computer
module. A packet lies in a buffer that was cleared, so reading behind its end
gives zero. `Crc` is a constant operator: what is stated of checksums holds for
any function of the bytes with a 16-bit result. A wrong checksum is only logged
(`cs_PacketHanding.cpp:131`), so it changes nothing in the model either. For a
length field of 0 or 1 the checksum is taken over a huge number of bytes (line
128); the loaded packet says so (`CrcFaults`). `WebSocket` runs its packets
through this module. `main` does not register the computer module's instance, so
its whole packets are the subject of theorems and of no run.

### WebSocket, WebSocketProofs

The set-up by `main` (`SocketInit`, `SocketConnect`, `HandshakeFails`,
`HandshakeDone`, `StartThread`), the receive thread and the callback that sends.
One step is one call of `websocket_recv_msg`: bytes arrive in between, in any
pieces, and the library returns up to the rest of a frame. `recvBuf` and `more`
are the buffer and `remaining_bytes > 0`. The connection event is posted before
the websocket's id is stored, and the callback waits for the event. Answers are
wrapped by `Outgoing` into the slot and its work item is submitted (`FillSlot`),
whatever the callback is doing: an answer it has not read yet is replaced, and a
work item whose callback waits or sends is queued once more (`queued`).

### Uart, UartProofs

One UART instance and its hardware. One interrupt is one step, with the receive
part and the transmit part in the order of the code. `sendUartMessage` is three
steps: the copy under the spin lock, and the two interrupt switches. Bytes carry
where they come from, so that order and corruption can be seen. What goes over
the line in a behaviour, `traffic`, is chosen once from `Traffics`: what the peer
says, which messages are sent, whether the two take turns, and whether the
packet handler may report that its thread is gone. The peer and the FIFOs are
external; bytes do not arrive faster than interrupts are served.

### BleCentral, BleCentralProofs

The BLE central and, outside of it, the Bluetooth stack, the devices and the
client. `conn` is `_conn`: `none`, `pending` once `bt_conn_le_create` has
returned, `up`, and `down` from the end of the link to the callback that reports
it. Two threads call `connect`: the work queue for a message (`work`) and the
stack's thread for a retry (`bt`). Each checks that there is no connection and
takes the address, then waits for the controller to put it on the accept list
(`AddressAdded`), then starts the scan (`ScanStarted`), and the other goes on in
between. `bt` also says whether the stack's thread has stopped a scan, is
creating a connection (`CreateConnection`, `CreateReturns`), or sleeps before a
retry. `stage` is the set-up of a connection. A device is a table of attributes,
and discovery goes through it as the code's four searches do: services, then
characteristics, both with the full UUID, then the descriptor in the two handles
behind the result. A write longer than one PDU goes on step by step
(`WriteGoesOn`) and takes each part from `_ble_buf` as it is by then.

An address is read as a string out of `msg.buf`, which no message clears.
`behind` says that something lies behind the address there: a command that is
longer than an address (`Overhang`) leaves it, and an address only clears it if
it brings a zero of its own (`Terminated`). Then it is no address, and
`_dev_addr` stays what it was (`AddressIn`), since `connect` ignores the error.

External, taken from how the code uses it and from what Bluetooth lets a host
do: while it scans, neither is the accept list changed nor a second scan or a
connection started; an unfinished read is cancelled, with an error and no data,
when its connection ends; an address printed by the stack may or may not be read
back; of a command read as an address, conversion stops at its start, and the
address stays, or within it, and it is none. A link ended
by `disconnect` is reported with a local reason. That the message of a work item
may be another one by the time it runs is `PacketHandler`'s.

### Wifi, WifiProofs

The loop of `main` around `Wifi::connect`, the wait for a connection, and the
handlers that post the two events. `main` is where `main` is; the driver's scan
and connection are external, as is the copying of a request's parameters by the
driver, field by field in `main`'s thread. A field of `_cnx_params` is the
network it was taken from. `timely` is chosen once: whether scans and addresses
come within the code's timeouts. Without a device `init` returns before it
initialises the event that `main` then waits for, and without an interface it
logs a name it reads through NULL: both are taken for a crash of `main`.

## Runs

Each run has a `.cfg` of its name; its module is `MC` and the name of the module
it instantiates.

### Runs that pass

| Run | Shows |
|---|---|
| `MCPacketHandler` | the inductive invariant, refinement of `LossyRouter`, at most one result per request and from its addressee, whatever is asked and said |
| `MCRouterSystem` | the router with one processor, starts that fail, a connection that may be lost, an application that asks one device and waits for each result and may address an id nobody registers, and another device that sends data unasked and lines with the start token: a result answers its own request; a missing handler is met only during start-up or by a packet for an id that `main` never registers; as long as the connection lasts, no accepted packet is stranded and every request gets a result, unless its device failed or was switched off |
| `MCHandlerRegister` | three threads with ids of their own, three threads with ids in common, and all sequences of five calls that remove the latest id only: what is registered is found, once; what is removed is not; the mutex is held only during updates and every call returns, if no call meets an early return |
| `MCUart` | lines of every kind, any five bytes, dialogues in turns: packets are consecutive bytes of one line, in order, whole if the line fits; messages leave whole, the receiver comes back; the shared counter stays in the buffer |
| `MCWebSocket` | commands in any pieces are dispatched whole and in order, with every field, also when the connection closes behind them; answers arrive in order, none twice, with every field, and the newest always; neither thread nor callback holds the others up, while the connection is open and unless `connect` failed |
| `MCBleCentralAny` | any client, any fault, all interleavings of the two threads: what the stack's thread checked is still so when it asks the controller; the event tells the truth about connections that are up |
| `MCBleCentralPatient` | a client that gives the router time, two devices with different tables: exactly the right answers from the right device, commands whole at the right handle, buffer respected, the connection given up after a result |
| `MCBleCentralRetries` | lost and failed connections are tried again until the session data arrives |
| `MCWifi` | five networks, two faults of any kind: one request, of networks that match; success only with an address; `main` goes on whatever fails, unless it has crashed, and with a connection if nothing does |

### Runs that end in a violation

Each checks one thing the code or a header says, and TLC shows a behaviour of
the code in which it does not hold.

| Run | What happens |
|---|---|
| `MCPacketHandlerOverrun` | `k_msgq_init` is given 250 for 14 slots |
| `MCUartTalk` | two bytes arrive while a message is copied and the receiver switched off; the interrupts that transmit read them into what is left of the message, and a wrong byte goes onto the wire |
| `MCBleCentralLock` | the spin lock is kept when no handle is known |

### Where else the code keeps less than it says

These properties are stated in the modules and are in no run, or in a run whose
instance keeps on the near side of the limit. Each is refuted by TLC within
seconds, if not said otherwise, when it replaces the properties of the run named,
with the change given.

| Property | Run and change | What happens |
|---|---|---|
| `NoNullHandler` | `MCPacketHandler`, `MCRouterSystem` | `main` starts an instance before it registers its handler (`cs_Router.cpp:64`, then 65); a packet in between is handled through NULL (`cs_PacketHanding.cpp:203`, 227, 255). In `MCRouterSystem` it also happens at any later time: a line such as `~abc` of an RS485 device, or a command of the application for an id that is not registered, is fatal (206) |
| `ReplyIsAnswer` | `MCPacketHandler`; `MCRouterSystem` with `Telemetry = {rs485}` | with two requests open, or when the device that was asked also sends data unasked, the next packet of a device becomes the result of whichever request is in its slot (`cs_PacketHanding.cpp:228`); `cs_RouterProtocol.h:94` says the "Result ID of the command, so the correct result can be awaited". The other properties of `MCRouterSystem` hold there, too |
| `OthersKeepWorking` | `MCRouterSystem` | an instance fails to start, `main` returns (`cs_Router.cpp:70`), and the destructor of the other switches its interrupts off (`cs_Uart.cpp:252`) |
| `SurvivesLoss` | `MCRouterSystem` | on a lost connection the receive loop never sleeps (`cs_WebSocket.cpp:73`) and dispatches empty packets until the queue is overrun |
| `EntriesAreWritten` | `MCHandlerRegister` | the counter is raised before the entry is written, and the lookup takes no mutex (`cs_PacketHanding.cpp:347`) |
| `TargetIsInstance` | `MCHandlerRegister` | `main` registers `&ble`, the address of a pointer (`cs_Router.cpp:59`); `sendBleMessage` does not use it today |
| `UnregisteredIsGone` | `MCHandlerRegister`, a script that removes the middle one of three ids | the loop at `cs_PacketHanding.cpp:371` advances the wrong index and the wrong entry disappears |
| `HeldOnlyToUpdate` without `Orderly` | `MCHandlerRegister` | registering an id twice (335) and removing one (375) return with the mutex locked |
| `NewestKept` | `MCUart` | the line that finds the queue full is lost with those purged (`cs_Uart.cpp:99`) |
| `IncomingWhole` | `MCUart` | `strlen` cuts a packet with a binary header at its first zero byte (`cs_Uart.cpp:37`) |
| `OnlyMessages` | `MCWebSocket` | a receive that fails is dispatched as an empty packet (`cs_WebSocket.cpp:71`) |
| `AlwaysLetsOthersRun` | `MCWebSocket` | on a closed connection the loop never sleeps again (73) |
| `CallbackAlwaysReturns` | `MCWebSocket` | after a `connect` that failed the callback waits for ever on the work queue (183) |
| `AnswersIntact` | `MCWebSocket`, `EarlyAnswers = TRUE` | the connection event is posted (30) before the websocket's id is stored (147): an answer is sent over no websocket |
| `BufferHolds` | `MCWebSocket`, `Answers <- MCTooLong` | nothing refuses a payload that does not fit with its headers (`cs_PacketHanding.cpp:221`): 241 bytes of a result, 244 of data |
| `EveryAnswerSent` | `MCWebSocket` | an answer replaces the one before in the slot while that one's callback has not run or still waits (`cs_PacketHanding.cpp:256`) |
| `SocketIsAddressed` | `MCWebSocket`, `ByDomain = TRUE` | `init` by domain name does not set the address length that `connect` uses (`cs_Socket.cpp:46`) |
| `ScanOrConnection` | `MCBleCentralAny` | a message passes the check for a connection (`cs_BleCentral.cpp:456`), the stack's thread creates one, and the scan is started beside it (472); `_conn` is set only when `bt_conn_le_create` returns (295) |
| `AnswersInOrder` | `MCBleCentralPatient`, `Terminated = FALSE` | the second address is not read as one, and the first device answers once more (462) |
| `ScansForGiven` | the same | an address without an end, sent after a longer command, is not read as one, the error is ignored (462) and the router scans for the device before |
| `ScanSeesDevice` | `MCBleCentralPatient`, `Client = "any"` | `connect` replaces the address while a scan runs whose filter cannot be changed (`cs_BleCentral.cpp:462`) |
| `CommandsArrive` | the same | between connection and discovery a message is written to the handle of the device before (628); a message, a read or a notification replaces what a long write is still being sent from (551, 553) |
| `BufferFits` | the same | a notification and a read advance the same counter, and each checks it as if it were alone (31, 249) |
| `AvailableMeansConnectable` | the same | the event is posted while a connection is pending (325) |
| `CommandsArrive` | `MCBleCentralPatient`, `Table <- WithoutControl` | a device without control characteristic keeps the handle of the one before (628) |
| `SessionDataArrives` | `MCBleCentralPatient`, `Table <- WithLateConfiguration` or `WithoutService` | the descriptor is searched in two handles only (118), or the service is not there: the connection stays up, not set up, for ever |
| `SessionDataArrives` | `MCBleCentralPatient`, `Client = "answered"` | a request while the last connection is being given up is written to it and lost (624) |
| `PacketsWhole` | `MCBleCentralPatient`, `Faults = {"loss"}` | a read that is cancelled is taken for one that is complete (208) |
| `WebsocketAfterWifi` | `MCWifi`, also with `Faults = {}` | `waitConnected(SYS_FOREVER_MS)` gets 65535, gives up after 65.5 s (`cs_Wifi.cpp:240`), and the websocket is created without Wi-Fi, although `cs_Router.cpp:46` says "wait till wifi connection is established before creating websocket" |
| `RequestOfOneNetwork` | `MCWifi` | a scan result replaces the parameters while they are copied (`cs_Wifi.cpp:35`) |
| `RequestOfSsid` | `MCWifi` | the comparison is over our length only, so `netg` passes for `net` (`cs_Wifi.cpp:34`) |

### Bounds, and why they are enough

- *Packet handler and system*: five instances (the cloud, two devices of which one
  may speak unasked, the computer module and an id nobody registers), three or
  four request ids, `MaxPackets` of 3 packets that answer nothing; answers come on
  top. Three packets are one in the slot, one read by a callback and one in the
  queue, which is where slot, work item and queue can disagree. `QueueSlots` of 3
  stand for 14, and a `QueueLimit` two above it for 250.
- *Register*: an array of 5 entries, which the three threads and the sequences
  of five calls fill but do not exceed. Three threads let one hold, one wait and
  one look.
- *UART*: buffers of 5 bytes, packets of 3, queue of 2 as in the code. The streams
  contain an empty line, one longer than the buffer, one with a zero byte, and one
  more line than the queue holds; the dialogues, messages and lines of no and of
  full length. `MCUartTalk` has one message and any bytes beside it.
- *WebSocket*: a buffer of 16 bytes. The commands have payloads of five, one and no
  bytes, so that the first is exactly as long as the buffer, and an id of two
  bytes; the answers are the longest result and the longest data that fit, and an
  empty one. The commands are 16, 12 and 11 bytes long, and every way to cut them
  into pieces occurs.
- *BLE*: at most two devices with different tables, one of which has a foreign
  service with the same 16 bits; four messages (two whole dialogues), up to three
  faults, addresses with and without an end, a buffer of two or three units,
  writes of one and two PDUs. Session data of one device exceeds the buffer in
  `MCBleCentralAny`, results exceed it there and in `MCBleCentralPatient`. The
  faults of `MCBleCentralPatient` are the two after which the code tries again;
  all kinds occur in `MCBleCentralAny`.
- *Wi-Fi*: two access points of the configured network and one network each
  whose SSID is longer, shorter or different, in an SSID of three characters;
  two faults of six kinds.

`CHECK_DEADLOCK FALSE` is set throughout, because each of these bounds lets a
behaviour end.

### Fairness

- `PacketHandler`: none; it is checked for safety only.
- `RouterSystem`: the receive thread, the packet thread and the work queue go on
  when they have something to do and the processor: they are cooperative threads
  above `main`, and whoever of them runs gives way only by blocking. Devices
  answer. Nothing is assumed of `main`.
- `HandlerRegister`: every thread that can go on does.
- `Uart`: enabled interrupts are served, the transmitter shifts bytes out, the
  callback goes on.
- `WebSocket`: set-up, receive thread and callback go on; nothing is assumed of
  the server or the network.
- `BleCentral`: the stack and the work queue's thread go on while they have
  something to do. What fails is bounded by `MaxFaults`, and nothing is assumed of
  the client.
- `Wifi`: `main` goes on, scans end, the driver connects; a network in reach is
  missed by some scans but not by all (strong fairness of being heard).

## Proofs

`PacketHandlerProofs` proves for all instances, boot orders, request ids and
queue sizes, from `ConstantsAssumption` alone: types (`TypeCorrect`), the
inductive invariant (`InvariantHolds`), order of delivery (`DeliveryInOrder`),
refinement of `LossyRouter` (`Implementation`), and that a request gets at most
one result (`AnsweredOnce`), from its addressee (`AnsweredByAddressee`).

That callbacks read in order is not inductive: it depends on what is in the slot
when a work item runs. `IInv` adds that the queue is in order of acceptance
(`QueueInOrder`), that a slot is older than all of the queue
(`SlotBehindQueue`), that a callback has read nothing newer than its slot
(`DeliveredUpToSlot`), and that a work item is queued only for a packet its
callback has not read (`PendingIsNew`); `UnregisteredIsEmpty` covers the
registration, which zeroes a slot. There is one lemma per action. The refinement
needs one more fact: a callback that runs hands over exactly one packet, that
was accepted for it and is newer than the last (`RunWorkHands`). The results
need another invariant, `RequestInv`: an id is issued once, is in at most one
packet of the queue, and has left the queue when it is in a slot, and both when
it is in a result; in a slot or a result it is only with its addressee.

`RouterSystemProofs` shows that every step of the system is a step of the packet
handler or none of it (`SystemImplements`), so that refinement and results carry
over (`SystemKeepsOrder`, `SystemAnswersOnce`), for every boot order, failure
and loss. `NullForStrangersOnly` needs `HandlersInv`: `main` starts only instances
it registers (`SpeakersRegistrable`), what they say goes to the cloud, and the
queue is the end of the log of what was accepted (`QueueIsEndOfLog`), so that the
packet that meets no handler is known by its destination. What else may be in the
queue is free: commands and start token lines for any id. While the receive
thread spins on a lost connection it makes packets for instance 0, which `main`
does not register either. `ResultsMatch` assumes `PatientApplication`:
the application waits for a result before it asks an instance again, and no
instance it asks speaks unasked; without either, TLC refutes it (above).
`AnswerInv` follows an open request: it is in the queue on its way out
(`QueueOpen`), in a slot whose callback has not run (`SlotOpen`), with its device
(`AskedOpen`) or in the queue on its way back, in one of these places only, and
an instance has one open request at most (`OneOpen`). So the next packet of the
device that meets a request in the slot is the answer to that request.

`HandlerRegisterProofs` proves for any threads and calls the types, that the
mutex is held only to update, for orderly clients (`MutexComesFree`), and for
clients that only register that ids are there once, found, and nothing else is
(`IdsOnce`, `FoundForGood`, `NothingElseFound`). `MutexInv` ties the two halves
of `registerHandler` to the owner of the mutex; the last three rest on
`ExactInv`: entries beyond the counter are empty, as is one that was claimed and
not yet written, whose id is in no other, and an id in the array was registered.

`WebSocketProofs` proves `MessagesHold` and `CommandsHold` for any commands and
answers in any pieces. `Received` is the strengthening: the receive buffer holds
what was taken of the frame (`Reading`), a whole message (`Complete`), unless what
is dispatched are the empty packets of a closed connection (`Lost`) or a message
did not fit (`Unfit`). `CommandsHold` assumes that the buffer's size is a 16-bit
number, as lengths in packets are. For the other way, `OverrunsExactly` says when
the slot is overrun: while the answer in it is one whose payload leaves no room
for its headers, and at no other time, for any answers; so a payload as long as
the buffer, which the code admits (`cs_Uart.cpp:37`), always overruns it
(`FullPayloadOverruns`). Both use the codec's lemmas. `AnswersHold` is for answers
made after the websocket's id is stored (`EarlyAnswers = FALSE`; otherwise TLC
refutes it). `Answering` says that the slot holds the newest answer
(`SlotAnswers`), that what was sent are answers in their order, older than one
that is queued (`InOrder`), and that nothing waits in a connected websocket
(`ConnectedSocket`), so that the newest is on its way or there (`NewestSent`).

`PacketCodecProofs` proves that each packet is read for what it was written
(`GenericIntact`, `ControlIntact`, `UartIntact`), how long it is
(`OutgoingLength`), that the application finds in it what the peripheral answered
(`OutgoingIntact`), and for UART packets that a computer module unwraps what the
cloud would get (`UnwrapsToSame`) and that a command it sends has the effect it
would have from the cloud (`TakenAsFromCloud`), for any `Crc` of 16 bits.

`UartProofs` proves the types of `Uart` for all sizes and any traffic, with
router and peer speaking at once: the shared counter stays in the buffer, with
room for the terminator. The order and wholeness of what is received and sent
(`ReceptionOrdered`, `ReceptionWhole`, `TransmissionIntact`) hold for all sizes
and all traffic in which router and peer take turns or the router has nothing to
send (`Orderly`); `MCUartTalk` shows what happens otherwise. `Receiving` says
that the router speaks only when all the peer said is complete (`TurnsKept`), that the
receiver and the buffer hold the last bytes heard, the latter all of one line
(`LastHeard`), and that queue and packets hold what came before, in order
(`Earlier`). `Transmitted` says that the wire, the transmitter and the rest of the
buffer together are the messages given. What the wire should carry is a
flattened sequence of messages; that fold is unfolded message by message with
the least number for which it would fail, since induction theorems that take an
operator cannot be used.

`BleCentralProofs` proves `ChecksHold` and `EventSafe` for all devices, clients and
faults: whatever messages do meanwhile, there is no connection when the stack's
thread creates one or starts a scan, and none is ever overwritten, which is why
the event tells whether one is up (`ConnectionInv`). For the work queue's thread
the first is false (`ScanOrConnection`, above). `TypesSafe` needs who is connected
or connected to to be a device, and a write under way to be no longer than a
message (`PartiesKnown`).

What the BLE central does with data is proved for a client that waits for its
answers and ends its addresses with a zero, or gives no command longer than an
address (otherwise TLC refutes it), and without the faults after which TLC refutes
it, a connection that was set up and is lost or left and a read that fails
(`Conversing`, `Steady`; a fault before that, in the scan, the connection, the
exchange of the MTU, the discovery, the subscription or a write, is allowed, any
number of times). Devices have one Crownstone service with one characteristic each
for session data and control behind it (`Regular`); where these are and what else
is in the table is free, as are the lengths of session data, results, commands,
PDUs and the buffer. Then answers are the right ones, whole and in order
(`DialogueAnswered`), commands arrive whole at the right handle
(`DialogueWritten`), a scan can see the device (`DialogueFindsDevice`), and the
counter stays in the buffer (`DialogueFits`). `DialogueInv` is their common
invariant. Its parts are: whose turn it is (`Turn`, `Dialogue`); that in each
phase of looking for a device and connecting, the address, the accept list and the
peer are those of the last request (`Search`); that the discovery has found what
it has passed (`Found`); and what counter and buffer hold while session data is
read, a command is written and a result received (`Reading`, `Writing`,
`Answering`), of which one at a time is going on. TLC checked these parts, with
all faults of `Steady`, before they were proved.

`WifiProofs` proves `RequestsMatch`, `RequestedOnce` and `OkIsConnected` for all
networks, SSIDs and faults. `BringUpInv` ties the event to the parameters (once
an SSID was found the parameters are of a match) and the link to the request
(nothing is connected before one was made).

Model-checked only: all liveness (fairness and `ENABLED` are beyond the prover)
and the register with removals, of which `MCHandlerRegister` has some and the
last three theorems about it none. Every other invariant that a passing run
checks is a theorem under the hypotheses named here, or follows from one
(`BufferHolds` from `OverrunsExactly`, for answers that fit), and the instance of
the run meets them.

## Not modelled

- *A second `init`* of the BLE central, the UART, a socket or a websocket:
  refused by the code, or never called by `main`.
- *`BleCentral::waitAvailable`, `Wifi::disconnect`*: called by nobody; the flag
  `disconnect` sets only chooses between log lines.
- *The accept list's capacity* and other limits inside the Bluetooth stack.
- *UART parameters*: `init` checks and applies them before anything runs.
- *Look-up and parsing of addresses, the HTTP request of the handshake, parsing
  of a UUID's text*: they succeed or fail, and nothing else depends on how.
- *Return codes and the build*: constants without behaviour; the models keep the
  branches that depend on them.
