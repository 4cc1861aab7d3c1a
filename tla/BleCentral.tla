------------------------------ MODULE BleCentral ------------------------------
(***************************************************************************)
(* The BLE central: the callback that takes messages for a device from the *)
(* packet handler, and the callbacks of the Bluetooth stack that look for  *)
(* the device, connect, discover, subscribe, read and receive.             *)
(*                                                                         *)
(* The callback runs on the system work queue, the stack's callbacks on    *)
(* the stack's own thread.  A callback that sleeps, or waits for the       *)
(* controller to answer a command, holds up its own thread and not the     *)
(* other: connect, which both threads call, is three steps, and creating   *)
(* a connection is two.                                                    *)
(*                                                                         *)
(* Data is counted in units: an attribute is read, and a notification      *)
(* arrives, unit by unit.  A UUID is a pair: the 16 bits at its bytes 12   *)
(* and 13, and all the rest.                                               *)
(***************************************************************************)
EXTENDS Integers, SequencesExt

CONSTANTS
  Device,         \* the devices, numbered from 1
  Table,          \* attribute table of each device, by handle
  BufferSize,     \* size of _ble_buf
  SessionLength,  \* length of the session data of each device
  ResultLengths,  \* lengths of the results a device may answer with
  CommandLength,  \* length of a message
  PduLength,      \* how much of a message one PDU takes
  Terminated,     \* the client ends an address with a zero
  Overhang,       \* its commands are longer than an address
  Client,         \* "any": sends at any time; "answered": waits for answers;
                  \* "patient": waits for answers and for an idle router
  MaxMessages,    \* bound on the messages the client sends
  Faults,         \* what may go wrong
  MaxFaults       \* bound on how often

FaultKind == {"scan", "create", "connect", "mtu", "discover", "subscribe",
              "startread", "read", "write", "loss", "leave"}

Uuid == [rest : STRING, short : 0 .. 65535]

AttributeType == {"service", "characteristic", "value", "descriptor"}

ASSUME ConstantsAssumption ==
  /\ Device \subseteq Nat \ {0}
  /\ Table \in [Device -> Seq([type : AttributeType, uuid : Uuid])]
  /\ BufferSize \in Nat \ {0}
  /\ SessionLength \in [Device -> Nat]
  /\ ResultLengths \subseteq Nat \ {0}
  /\ CommandLength \in 1 .. BufferSize
  /\ PduLength \in Nat \ {0}
  /\ Terminated \in BOOLEAN
  /\ Overhang \in BOOLEAN
  /\ Client \in {"any", "answered", "patient"}
  /\ MaxMessages \in Nat
  /\ Faults \subseteq FaultKind
  /\ MaxFaults \in Nat

VARIABLES
  conn,           \* _conn: "none", "pending", "up", or "down" until told
  peer,           \* the device at the other end of _conn
  reason,         \* why a connection that is down ended
  scanning,       \* the stack scans
  devAddr,        \* _dev_addr
  accept,         \* the filter accept list
  bt,             \* what the stack's thread is in the middle of
  work,           \* what the message's work item is in the middle of
  avail,          \* CS_BLE_CENTRAL_AVAILABLE_EVENT
  stage,          \* how far the set-up of the connection has come
  cursor,         \* where the stack's search of the attributes has come
  nextHandle,     \* _next_handle
  sessionHandle,  \* _sessionDataHandle, 0 when never set
  controlHandle,  \* _controlHandle, 0 when never set
  subscription,   \* _gatt_subscribe_params: handles of value and descriptor
  offset,         \* _gatt_read_params.single.offset
  buf,            \* _ble_buf
  ctr,            \* _ble_buf_ctr
  writing,        \* the write under way, and what of it was sent
  answer,         \* the result the device is sending
  behind,         \* in msg.buf, something not zero lies behind an address
  workLock,       \* the handler's work_lock is held
  messages,       \* history: what the client sent
  writes,         \* history: what was written, where, and to whom
  handed,         \* history: what was handed to the packet handler
  faults          \* number of things that went wrong

linkVars == <<conn, peer, reason>>
scanVars == <<scanning, devAddr, accept>>
handleVars == <<nextHandle, sessionHandle, controlHandle, subscription>>
setupVars == <<stage, cursor, handleVars>>
dataVars == <<offset, buf, ctr>>
threadVars == <<bt, work>>
clientVars == <<behind, workLock, messages, writes>>
deviceVars == <<writing, answer>>
vars == <<linkVars, scanVars, threadVars, avail, setupVars, dataVars,
          deviceVars, clientVars, handed, faults>>

NoDevice == 0
NoUnit == <<"none", 0, 0>>
NoAnswer == [msg |-> 0, len |-> 0, sent |-> 0]
NoWrite == [msg |-> 0, handle |-> 0, data |-> <<>>]
NoSubscription == [value |-> 0, ccc |-> 0]
Awake == [at |-> "idle", dev |-> NoDevice]

Session(d) == [k \in 1 .. SessionLength[d] |-> <<"session", d, k>>]
Result(m, n) == [k \in 1 .. n |-> <<"result", m, k>>]
Command(m) == [k \in 1 .. CommandLength |-> <<"message", m, k>>]

Idle == conn = "none" /\ ~ scanning /\ bt = Awake /\ work = Awake

Fault(kind) == kind \in Faults /\ faults < MaxFaults /\ faults' = faults + 1

(* Mutant: a connection that is being created does not count. *)
MutantOnlyUp == conn = "up"

isConnected == conn # "none"

-----------------------------------------------------------------------------
(* ServiceUuid, and the UUIDs the central looks for. *)

fromShortUuid(short) == [rest |-> "bluetooth", short |-> short]
fromBaseUuid(base, short) == [base EXCEPT !.short = short]

CROWNSTONE_UUID == [rest |-> "crownstone", short |-> 0]
CCC_UUID == fromShortUuid(10498)

SESSION_DATA_UUID == 14
CONTROL_UUID == 12
RESULT_UUID == 13

(* Mutant: only the 16 bits are compared. *)
MutantIsCharacteristic(uuid, short) == uuid.short = short

(* A short UUID was widened before, so it differs in the rest.             *)
IsCharacteristic(uuid, short) == uuid = fromBaseUuid(CROWNSTONE_UUID, short)

(* The attributes of a device. *)

Handles(d) == DOMAIN Table[d]

(* Handle of the value of a characteristic of the Crownstone service, 0    *)
(* when the device has none.                                               *)
ValueHandle(d, short) ==
  LET values ==
        {h \in Handles(d) :
           /\ Table[d][h].type = "value"
           /\ Table[d][h].uuid = [rest |-> "crownstone", short |-> short]}
  IN  IF values = {} THEN 0 ELSE CHOOSE h \in values : TRUE

(* What a read brings; other attributes are not readable.                  *)
ValueAt(d, h) ==
  IF h # 0 /\ h = ValueHandle(d, SESSION_DATA_UUID) THEN Session(d) ELSE <<>>

(* The device sends what the central can receive.                          *)
Subscribed(d) ==
  LET h == ValueHandle(d, RESULT_UUID)
  IN  h # 0 /\ subscription = [value |-> h, ccc |-> h + 1]

-----------------------------------------------------------------------------
(* connect. *)

(* What lies behind an address in the buffer, which is never cleared: what *)
(* a longer command left there, unless the address brings its own end.     *)

(* Mutant: only the text of an address is copied. *)
MutantTextCopied(m) ==
  IF m.kind = "command" /\ Overhang THEN BOOLEAN ELSE {behind}

BehindAfter(m) ==
  IF m.kind = "connect" THEN {behind /\ ~ Terminated}
  ELSE IF Overhang THEN BOOLEAN ELSE {behind}

(* What _dev_addr may be after a message was taken for an address.  Text   *)
(* that does not end where an address ends is none, and leaves it as it    *)
(* was; in a command conversion stops at its start or somewhere in it.     *)
AddressIn(m) ==
  IF m.kind = "command" THEN {devAddr, NoDevice}
  ELSE {IF behind' THEN devAddr ELSE m.dev}

(* The stack prints the kind of an address behind it, and whether it reads *)
(* that back is up to the stack.                                           *)
AddressPrinted(d) == {devAddr, d}

(* Mutant: the accept list is left alone. *)
MutantAcceptKept(a) == accept

AcceptAfter(a) == accept \cup ({a} \ {NoDevice})

(* A thread, which goes on as after, looks for a connection and asks the   *)
(* controller to accept the address.                                       *)
connect(after, addresses) ==
  \/ isConnected /\ after = Awake /\ UNCHANGED devAddr
  \/ /\ ~ isConnected
     /\ \E a \in addresses :
          devAddr' = a /\ after = [at |-> "adding", dev |-> a]

(* The accept list cannot be changed while the stack scans. *)
AddressAdded(now, after) ==
  /\ now.at = "adding"
  /\ after = [now EXCEPT !.at = "starting"]
  /\ accept' = IF scanning THEN accept ELSE AcceptAfter(now.dev)

(* And then no second scan is started. *)
ScanStarted(now, after) ==
  /\ now.at = "starting"
  /\ after = Awake
  /\ \/ scanning' = TRUE /\ UNCHANGED faults
     \/ ~ scanning /\ Fault("scan") /\ UNCHANGED scanning

-----------------------------------------------------------------------------
(* write. *)

(* Mutant: the message is put in front of what the buffer holds. *)
MutantPutInFront(m) == Command(m) \o buf

(* Mutant: only what one PDU takes is copied. *)
MutantOnePdu(m) ==
  LET n == Min({PduLength, CommandLength})
  IN  SubSeq(Command(m), 1, n) \o SubSeq(buf, n + 1, BufferSize)

BufAfterWrite(m) == Command(m) \o SubSeq(buf, CommandLength + 1, BufferSize)

(* The stack takes what fits the next PDU from the buffer.                 *)
WithNextPdu(w, b) ==
  [w EXCEPT !.data = @ \o SubSeq(b, Len(@) + 1,
                                 Min({Len(@) + PduLength, CommandLength}))]

(* When all was sent it is written, and the device answers a subscriber,   *)
(* one command at a time.                                                  *)
Sent(w) ==
  IF Len(w.data) < CommandLength
  THEN writing' = w /\ UNCHANGED <<writes, answer>>
  ELSE /\ writing' = NoWrite
       /\ writes' = Append(writes, [msg |-> w.msg, handle |-> w.handle,
                                    dev |-> peer, data |-> w.data])
       /\ IF /\ w.handle = ValueHandle(peer, CONTROL_UUID)
             /\ Subscribed(peer)
             /\ stage \in {"read", "ready"}
             /\ answer = NoAnswer
          THEN \E n \in ResultLengths :
                 answer' = [msg |-> w.msg, len |-> n, sent |-> 0]
          ELSE UNCHANGED answer

(* The parameters of a write under way are replaced: the stack starts      *)
(* again with the new ones, or goes on with them where it was.             *)
Started(m) ==
  LET new == [msg |-> m, handle |-> controlHandle, data |-> <<>>]
  IN  {new} \cup (IF writing = NoWrite THEN {}
                  ELSE {[new EXCEPT !.data = writing.data]})

(* A connection that is not up has no MTU, and nothing is copied.  One     *)
(* that is down may still have one, but nothing is sent.                   *)
write(m) ==
  \/ /\ conn \in {"pending", "down"}
     /\ UNCHANGED <<buf, writes, deviceVars, faults>>
  \/ /\ conn \in {"up", "down"}
     /\ buf' = BufAfterWrite(m)
     /\ \/ conn = "down" /\ UNCHANGED <<writes, deviceVars, faults>>
        \/ conn = "up" /\ Fault("write") /\ UNCHANGED <<writes, deviceVars>>
        \/ /\ conn = "up"
           /\ UNCHANGED faults
           /\ \E w \in Started(m) : Sent(WithNextPdu(w, buf'))

(* The device took a part of a long write: the next one is sent.           *)
WriteGoesOn ==
  /\ conn = "up"
  /\ writing # NoWrite
  /\ Sent(WithNextPdu(writing, buf))
  /\ UNCHANGED <<linkVars, scanVars, threadVars, avail, setupVars, dataVars,
                 behind, workLock, messages, handed, faults>>

(* The client and sendBleMessage, its message's work item. *)

Message == [kind : {"connect"}, dev : Device]
             \cup [kind : {"command"}, dev : {NoDevice}]

(* A client that waits asks for a device, gets session data, gives a       *)
(* command and gets its result.                                            *)
MaySend(m) ==
  /\ Len(messages) < MaxMessages
  /\ Client # "any" =>
       /\ Len(handed) = Len(messages)
       /\ m.kind = IF Len(messages) % 2 = 0 THEN "connect" ELSE "command"
  /\ Client = "patient" /\ m.kind = "connect" => Idle

(* The lock is held while connect waits for the controller, and for ever   *)
(* when there is a connection and no handle.                               *)
SendBleMessage(m) ==
  /\ work = Awake
  /\ MaySend(m)
  /\ messages' = Append(messages, m)
  /\ behind' \in BehindAfter(m)
  /\ \/ /\ ~ isConnected
        /\ connect(work', AddressIn(m))
        /\ workLock' = TRUE
        /\ UNCHANGED <<faults, buf, writes, deviceVars>>
     \/ /\ isConnected /\ controlHandle = 0
        /\ workLock' = TRUE
        /\ UNCHANGED <<devAddr, work, faults, buf, writes, deviceVars>>
     \/ /\ isConnected /\ controlHandle # 0
        /\ write(Len(messages) + 1)
        /\ workLock' = FALSE
        /\ UNCHANGED <<devAddr, work>>
  /\ UNCHANGED <<linkVars, scanning, accept, bt, avail, setupVars, offset, ctr,
                 handed>>

WorkAdds ==
  /\ AddressAdded(work, work')
  /\ UNCHANGED <<linkVars, scanning, devAddr, bt, avail, setupVars, dataVars,
                 deviceVars, clientVars, handed, faults>>

WorkScans ==
  /\ ScanStarted(work, work')
  /\ workLock' = FALSE
  /\ UNCHANGED <<linkVars, devAddr, accept, bt, avail, setupVars, dataVars,
                 deviceVars, behind, messages, writes, handed>>

Work == WorkAdds \/ WorkScans

-----------------------------------------------------------------------------
(* handleBleDeviceFound, handleConnectionResult, handleDisonnectionResult. *)

(* A device on the accept list that is not the one looked for is ignored.  *)
DeviceFound ==
  /\ bt = Awake
  /\ scanning
  /\ devAddr \in accept
  /\ scanning' = FALSE
  /\ bt' = [at |-> "found", dev |-> devAddr]
  /\ UNCHANGED <<work, linkVars, devAddr, accept, avail, setupVars, dataVars,
                 deviceVars, clientVars, handed, faults>>

(* The stack creates no connection while it scans again, nor a second one. *)
CreateConnection ==
  /\ bt.at = "found"
  /\ bt' = [bt EXCEPT !.at = IF scanning \/ conn # "none" THEN "asleep"
                                                        ELSE "creating"]
  /\ UNCHANGED <<work, linkVars, scanVars, avail, setupVars, dataVars,
                 deviceVars, clientVars, handed, faults>>

(* _conn is set when the call returns. *)
CreateReturns ==
  /\ bt.at = "creating"
  /\ \/ /\ conn' = "pending"
        /\ peer' = bt.dev
        /\ bt' = Awake
        /\ UNCHANGED faults
     \/ /\ Fault("create")
        /\ bt' = [bt EXCEPT !.at = "asleep"]
        /\ UNCHANGED <<conn, peer>>
  /\ UNCHANGED <<work, reason, scanVars, avail, setupVars, dataVars,
                 deviceVars, clientVars, handed>>

ConnectionFailed ==
  /\ bt = Awake
  /\ conn = "pending"
  /\ Fault("connect")
  /\ conn' = "none"
  /\ bt' = [at |-> "asleep", dev |-> peer]
  /\ UNCHANGED <<work, peer, reason, scanVars, avail, setupVars, dataVars,
                 deviceVars, clientVars, handed>>

(* Mutant: an instance in use stays available. *)
MutantStaysAvailable == avail

AvailAfterConnect == FALSE

(* Services are discovered unless the exchange of the MTU fails to start,  *)
(* and that forgets the subscription, but no handle.                       *)
Connected ==
  /\ bt = Awake
  /\ conn = "pending"
  /\ conn' = "up"
  /\ avail' = AvailAfterConnect
  /\ \/ /\ \/ stage' = "primary" /\ UNCHANGED faults
           \/ Fault("discover") /\ stage' = "stalled"
        /\ cursor' = 1
        /\ subscription' = NoSubscription
     \/ Fault("mtu") /\ stage' = "stalled" /\ UNCHANGED <<cursor, subscription>>
  /\ UNCHANGED <<peer, reason, scanVars, threadVars, nextHandle, sessionHandle,
                 controlHandle, dataVars, deviceVars, clientVars, handed>>

(* The link is lost, or the device closes it. *)
ConnectionEnds ==
  /\ conn = "up"
  /\ conn' = "down"
  /\ \/ Fault("loss") /\ reason' = "loss"
     \/ Fault("leave") /\ reason' = "device"
  /\ answer' = NoAnswer
  /\ UNCHANGED <<peer, scanVars, threadVars, avail, setupVars, dataVars,
                 writing, clientVars, handed>>

(* Mutant: a connection that was given up is tried again, a lost one not. *)
MutantRetry == reason # "loss"

Retry == reason = "loss"

(* A read that was under way has been cancelled before, a write is now. *)
Disconnected ==
  /\ bt = Awake
  /\ conn = "down"
  /\ stage # "read"
  /\ accept' = {}
  /\ conn' = "none"
  /\ stage' = "none"
  /\ avail' = TRUE
  /\ bt' = IF Retry THEN [at |-> "asleep", dev |-> peer] ELSE bt
  /\ writing' = NoWrite
  /\ UNCHANGED <<work, peer, reason, scanning, devAddr, cursor, handleVars,
                 dataVars, answer, clientVars, handed, faults>>

(* CS_BLE_CENTRAL_RECONNECT_TIMEOUT is over. *)
RetryConnect ==
  /\ bt.at = "asleep"
  /\ connect(bt', AddressPrinted(bt.dev))
  /\ UNCHANGED <<work, linkVars, scanning, accept, avail, setupVars, dataVars,
                 deviceVars, clientVars, handed, faults>>

RetryAdds ==
  /\ AddressAdded(bt, bt')
  /\ UNCHANGED <<work, linkVars, scanning, devAddr, avail, setupVars, dataVars,
                 deviceVars, clientVars, handed, faults>>

RetryScans ==
  /\ ScanStarted(bt, bt')
  /\ UNCHANGED <<work, linkVars, devAddr, accept, avail, setupVars, dataVars,
                 deviceVars, clientVars, handed>>

-----------------------------------------------------------------------------
(* handleDiscoveryResults and handleDiscoveryDone. *)

Stepping(s) == bt = Awake /\ conn = "up" /\ stage = s

(* The attributes of a type that the stack has yet to report, up to the    *)
(* handle a search ends with.  A search from handle 0 finds nothing.       *)
Ahead(type) ==
  {h \in Handles(peer) :
     cursor # 0 /\ h \in cursor .. 255 /\ Table[peer][h].type = type}

Ours == {h \in Ahead("service") : Table[peer][h].uuid = CROWNSTONE_UUID}

ServiceFound ==
  /\ Stepping("primary")
  /\ Ours # {}
  /\ nextHandle' = Min(Ours) + 1
  /\ cursor' = Min(Ours) + 1
  /\ UNCHANGED <<linkVars, scanVars, threadVars, avail, stage, sessionHandle,
                 controlHandle, subscription, dataVars, deviceVars, clientVars,
                 handed, faults>>

(* A search that found all there is starts the next one where the handlers *)
(* said, which need not be on this device.                                 *)
NextSearch(s) ==
  /\ \/ stage' = s /\ UNCHANGED faults
     \/ Fault("discover") /\ stage' = "stalled"
  /\ cursor' = nextHandle
  /\ UNCHANGED <<linkVars, scanVars, threadVars, avail, handleVars, dataVars,
                 deviceVars, clientVars, handed>>

PrimaryDone ==
  Stepping("primary") /\ Ours = {} /\ NextSearch("characteristics")

HandleAfter(handle, uuid, short, value) ==
  IF IsCharacteristic(uuid, short) THEN value ELSE handle

CharacteristicFound ==
  /\ Stepping("characteristics")
  /\ Ahead("characteristic") # {}
  /\ LET h == Min(Ahead("characteristic"))
         uuid == Table[peer][h].uuid
     IN  /\ cursor' = h + 1
         /\ sessionHandle' =
              HandleAfter(sessionHandle, uuid, SESSION_DATA_UUID, h + 1)
         /\ controlHandle' =
              HandleAfter(controlHandle, uuid, CONTROL_UUID, h + 1)
         /\ subscription' = [subscription EXCEPT
              !.value = HandleAfter(@, uuid, RESULT_UUID, h + 1)]
         /\ nextHandle' = HandleAfter(nextHandle, uuid, RESULT_UUID, h + 1)
  /\ UNCHANGED <<linkVars, scanVars, threadVars, avail, stage, dataVars,
                 deviceVars, clientVars, handed, faults>>

CharacteristicsDone ==
  /\ Stepping("characteristics")
  /\ Ahead("characteristic") = {}
  /\ NextSearch("descriptor")

(* The configuration is looked for in two handles only.                    *)
Ccc ==
  {h \in Ahead("descriptor") :
     h <= nextHandle + 1 /\ Table[peer][h].uuid = CCC_UUID}

(* The configuration of the result characteristic: subscribe. *)
DescriptorFound ==
  /\ Stepping("descriptor")
  /\ Ccc # {}
  /\ \/ stage' = "subscribe" /\ UNCHANGED faults
     \/ Fault("subscribe") /\ stage' = "stalled"
  /\ subscription' = [subscription EXCEPT !.ccc = Min(Ccc)]
  /\ UNCHANGED <<linkVars, scanVars, threadVars, avail, cursor, nextHandle,
                 sessionHandle, controlHandle, dataVars, deviceVars,
                 clientVars, handed>>

(* Nothing to subscribe to, and nothing else is done. *)
NoDescriptor ==
  /\ Stepping("descriptor")
  /\ Ccc = {}
  /\ stage' = "stalled"
  /\ UNCHANGED <<linkVars, scanVars, threadVars, avail, cursor, handleVars,
                 dataVars, deviceVars, clientVars, handed, faults>>

(* The subscription was answered: read the session data. *)
DiscoveryDone ==
  /\ Stepping("subscribe")
  /\ \/ Fault("subscribe") /\ stage' = "stalled" /\ UNCHANGED <<ctr, offset>>
     \/ /\ ctr' = 0
        /\ offset' = 0
        /\ \/ stage' = "read" /\ UNCHANGED faults
           \/ Fault("startread") /\ stage' = "stalled"
  /\ UNCHANGED <<linkVars, scanVars, threadVars, avail, cursor, handleVars,
                 buf, deviceVars, clientVars, handed>>

-----------------------------------------------------------------------------
(* handleReadResult. *)

(* The packet is as long as the counter says.                              *)
Packet(b, n) ==
  [k \in 1 .. n |-> IF k <= BufferSize THEN b[k] ELSE NoUnit]

CtrAfterPacket == 0

(* Each chunk goes where the offset says, and the counter adds them up.    *)
ReadChunk ==
  /\ Stepping("read")
  /\ offset < Len(ValueAt(peer, sessionHandle))
  /\ \/ /\ offset < BufferSize
        /\ buf' = [buf EXCEPT ![offset + 1] =
                     ValueAt(peer, sessionHandle)[offset + 1]]
        /\ ctr' = ctr + 1
        /\ offset' = offset + 1
        /\ UNCHANGED stage
     \/ /\ offset >= BufferSize
        /\ stage' = "stalled"
        /\ UNCHANGED dataVars
  /\ UNCHANGED <<linkVars, scanVars, threadVars, avail, cursor, handleVars,
                 deviceVars, clientVars, handed, faults>>

(* No data: everything was read, or the read failed; the handler does not  *)
(* look which.  A connection that ends cancels the read.                   *)
ReadEnds ==
  /\ bt = Awake
  /\ stage = "read"
  /\ \/ /\ conn = "up"
        /\ offset = Len(ValueAt(peer, sessionHandle))
        /\ UNCHANGED faults
     \/ conn = "up" /\ Fault("read")
     \/ conn = "down" /\ UNCHANGED faults
  /\ handed' = Append(handed, Packet(buf, ctr))
  /\ ctr' = CtrAfterPacket
  /\ stage' = "ready"
  /\ UNCHANGED <<linkVars, scanVars, threadVars, avail, cursor, handleVars,
                 offset, buf, deviceVars, clientVars>>

-----------------------------------------------------------------------------
(* handleNotifications. *)

(* Mutant: the instance keeps the connection. *)
MutantKeepConnection == conn

ConnAfterLastPart == "down"

(* Mutant: there is room for one more than the buffer has. *)
MutantFitsOneMore == ctr + 1 <= BufferSize + 1

PartFits == ctr + 1 <= BufferSize

(* The next part of a result.  The last one completes a packet, and the    *)
(* instance disconnects.  One that does not fit ends the subscription.     *)
Notification ==
  /\ bt = Awake
  /\ conn = "up"
  /\ answer # NoAnswer
  /\ \/ /\ ~ PartFits
        /\ answer' = NoAnswer
        /\ stage' = "stalled"
        /\ UNCHANGED <<linkVars, buf, ctr, handed>>
     \/ /\ PartFits
        /\ LET part == answer.sent + 1
           IN  /\ buf' = [buf EXCEPT ![ctr + 1] =
                            <<"result", answer.msg, part>>]
               /\ IF part < answer.len
                  THEN /\ answer' = [answer EXCEPT !.sent = part]
                       /\ ctr' = ctr + 1
                       /\ UNCHANGED <<linkVars, handed>>
                  ELSE /\ answer' = NoAnswer
                       /\ handed' = Append(handed, Packet(buf', ctr + 1))
                       /\ ctr' = CtrAfterPacket
                       /\ conn' = ConnAfterLastPart
                       /\ reason' = "local"
                       /\ UNCHANGED peer
        /\ UNCHANGED stage
  /\ UNCHANGED <<scanVars, threadVars, avail, cursor, handleVars, offset,
                 writing, clientVars, faults>>

-----------------------------------------------------------------------------
(* init has made the instance available. *)
Init ==
  /\ conn = "none"
  /\ peer = NoDevice
  /\ reason = "local"
  /\ scanning = FALSE
  /\ devAddr = NoDevice
  /\ accept = {}
  /\ bt = Awake
  /\ work = Awake
  /\ avail = TRUE
  /\ stage = "none"
  /\ cursor = 0
  /\ nextHandle = 0
  /\ sessionHandle = 0
  /\ controlHandle = 0
  /\ subscription = NoSubscription
  /\ offset = 0
  /\ buf = [k \in 1 .. BufferSize |-> NoUnit]
  /\ ctr = 0
  /\ writing = NoWrite
  /\ answer = NoAnswer
  /\ behind = FALSE
  /\ workLock = FALSE
  /\ messages = <<>>
  /\ writes = <<>>
  /\ handed = <<>>
  /\ faults = 0

Connecting ==
  DeviceFound \/ CreateConnection \/ CreateReturns \/ ConnectionFailed
    \/ Connected \/ Disconnected \/ RetryConnect \/ RetryAdds \/ RetryScans

Discovery ==
  \/ ServiceFound \/ PrimaryDone
  \/ CharacteristicFound \/ CharacteristicsDone
  \/ DescriptorFound \/ NoDescriptor
  \/ DiscoveryDone

Stack ==
  Connecting \/ Discovery \/ ReadChunk \/ ReadEnds \/ Notification
    \/ WriteGoesOn

Next ==
  \/ \E m \in Message : SendBleMessage(m)
  \/ Work
  \/ ConnectionEnds
  \/ Stack

Spec == Init /\ [][Next]_vars

(* Each thread goes on as long as there is something for it to do.         *)
(* Failures are bounded, so it succeeds in the end.                        *)
FairSpec == Spec /\ WF_vars(Stack) /\ WF_vars(Work)

-----------------------------------------------------------------------------
Unit == {"session"} \X Device \X Nat
          \cup {"result", "message"} \X (1 .. MaxMessages) \X Nat
          \cup {NoUnit}

TypeOK ==
  /\ conn \in {"none", "pending", "up", "down"}
  /\ peer \in Device \cup {NoDevice}
  /\ reason \in {"local", "device", "loss"}
  /\ scanning \in BOOLEAN
  /\ devAddr \in Device \cup {NoDevice}
  /\ accept \subseteq Device
  /\ bt \in [at : {"idle", "found", "creating", "asleep", "adding", "starting"},
             dev : Device \cup {NoDevice}]
  /\ work \in [at : {"idle", "adding", "starting"},
               dev : Device \cup {NoDevice}]
  /\ avail \in BOOLEAN
  /\ stage \in {"none", "primary", "characteristics", "descriptor",
                "subscribe", "read", "ready", "stalled"}
  /\ {cursor, nextHandle, sessionHandle, controlHandle} \subseteq Nat
  /\ subscription \in [value : Nat, ccc : Nat]
  /\ offset \in Nat
  /\ buf \in [1 .. BufferSize -> Unit]
  /\ ctr \in Nat
  /\ writing \in [msg : 0 .. MaxMessages, handle : Nat, data : Seq(Unit)]
  /\ answer \in [msg : 0 .. MaxMessages, len : Nat, sent : Nat]
  /\ {behind, workLock} \subseteq BOOLEAN
  /\ messages \in Seq(Message)
  /\ writes \in Seq([msg : 1 .. MaxMessages, handle : Nat, dev : Device,
                     data : Seq(Unit)])
  /\ handed \in Seq(Seq(Unit))
  /\ faults \in 0 .. MaxFaults

(***************************************************************************)
(* The connection.                                                         *)
(***************************************************************************)

(* What the stack's thread saw before it waited for the controller, in     *)
(* connect and in creating a connection, is still so when it goes on: there*)
(* is no connection it would scan beside or overwrite, whatever the client *)
(* sends meanwhile.                                                        *)
CheckedStaysTrue ==
  bt.at \in {"creating", "adding", "starting"} => conn = "none"

(* The work queue's thread has no such promise, and so this fails: the     *)
(* router never scans while it has a connection or creates one.            *)
ScanOrConnection == ~ (scanning /\ (conn # "none" \/ bt.at = "creating"))

(* The event of waitAvailable is posted exactly while no connection is up  *)
(* or waiting to be given back.                                            *)
AvailableUnlessUp == avail <=> conn \notin {"up", "down"}

(* While the router scans for the device it was last asked for, the scan   *)
(* can see that device.                                                    *)
ScanSeesDevice == scanning => devAddr \in accept

(* While the router scans on a request, it scans for the device it was     *)
(* given.                                                                  *)
ScansForGiven ==
  scanning /\ messages # <<>> /\ Last(messages).kind = "connect"
    => devAddr = Last(messages).dev

(* A request for a connection to an available instance makes it look for   *)
(* that device.                                                            *)
AvailableMeansConnectable ==
  [][\A d \in Device :
       avail /\ SendBleMessage([kind |-> "connect", dev |-> d])
         => ~ isConnected /\ devAddr' = d]_vars

(* The work lock is released when the work item is done. *)
LockReleased == work = Awake => ~ workLock

(* A request for a device leads to its session data, whatever connections  *)
(* fail or are lost on the way.                                            *)
SessionDataArrives ==
  \A i \in 1 .. MaxMessages : \A d \in Device :
    Len(messages) = i /\ Last(messages) = [kind |-> "connect", dev |-> d]
      ~> \E j \in i .. Len(handed) : handed[j] = Session(d)

(* After the result of a command the router gives the connection up, and   *)
(* is ready for the next one.                                              *)
ConnectionGivenUp ==
  \A i \in 1 .. MaxMessages :
    Len(handed) = i /\ i % 2 = 0 ~> Len(handed) > i \/ (Idle /\ avail)

(***************************************************************************)
(* The data.                                                               *)
(***************************************************************************)

(* The counter stays within the buffer it counts the bytes of. *)
BufferFits == ctr <= BufferSize

(* A packet that is handed on as a success is the whole session data of a  *)
(* device or the whole result of a command, with nothing else in it.       *)
PacketsWhole ==
  \A p \in Range(handed) :
    \/ \E d \in Device : p = Session(d)
    \/ \E m \in 1 .. Len(messages), n \in ResultLengths : p = Result(m, n)

(* The client gets, in this order, the session data of the device it asked *)
(* for and the result of the command it gave.                              *)
AnswersInOrder ==
  \A i \in 1 .. Len(handed) :
    \/ messages[i].kind = "connect" /\ handed[i] = Session(messages[i].dev)
    \/ /\ messages[i].kind = "command"
       /\ \E n \in ResultLengths : handed[i] = Result(i, n)

(* What is written is a command as it was given, although it takes several *)
(* PDUs that are each copied from the one buffer when their turn comes,    *)
(* and goes to the control characteristic of the device that is connected, *)
(* wherever that device and the ones before it have theirs.                *)
CommandsArrive ==
  \A w \in Range(writes) :
    /\ w.data = Command(w.msg)
    /\ w.handle = ValueHandle(w.dev, CONTROL_UUID)
==============================================================================
