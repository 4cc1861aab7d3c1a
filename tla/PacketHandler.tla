---------------------------- MODULE PacketHandler ----------------------------
(***************************************************************************)
(* The packet handler: the message queue every instance puts its packets   *)
(* into, the one thread that takes them out, the handler slot of each      *)
(* instance with its work item, and the system work queue that runs the    *)
(* transport callback of an instance.                                      *)
(*                                                                         *)
(* The packet thread is cooperative and nothing it does between two calls  *)
(* of k_msgq_get blocks, so the handling of one packet is one step; a      *)
(* transport callback reads its slot before anything that can block, so    *)
(* it is two steps: RunWork reads the slot, FinishWork returns.            *)
(*                                                                         *)
(* Payloads are not modelled.  A packet carries the number n of its        *)
(* acceptance, and a packet from a peripheral carries the request it       *)
(* answers: a fact about the peripheral that the program cannot see.       *)
(***************************************************************************)
EXTENDS Naturals, Sequences

CONSTANTS
  InstanceId,     \* cs_router_instance_id values in use
  Cloud,          \* CS_INSTANCE_ID_CLOUD
  CM4,            \* CS_INSTANCE_ID_UART_CM4
  Unknown,        \* CS_INSTANCE_ID_UNKNOWN, the id 0
  None,           \* no instance
  Serial,         \* instances that read lines from a UART
  BootScript,     \* main: which instance is started or registered, in order
  Telemetry,      \* instances that also send data nobody asked for
  Addressed,      \* instances the application sends control packets to
  RequestId,      \* request ids the application uses; 0 asks for no result
  OneOutstanding, \* the application waits for a result before it asks again
  QueueSlots,     \* CS_PACKET_QUEUE_SIZE: messages that fit in _msgq_buf
  QueueLimit,     \* max_msgs given to k_msgq_init
  MaxPackets      \* bound: no packet that answers nothing beyond this one

ASSUME ConstantsAssumption ==
  /\ Cloud \in InstanceId
  /\ CM4 \in InstanceId
  /\ Unknown \in InstanceId
  /\ Serial \subseteq InstanceId
  /\ None \notin InstanceId
  /\ BootScript \in Seq([op : {"start", "register"}, id : InstanceId])
  /\ \A a, b \in 1 .. Len(BootScript) :
        /\ BootScript[a].op = "register"
        /\ BootScript[b] = BootScript[a]
        => a = b
  /\ Telemetry \subseteq InstanceId
  /\ Addressed \subseteq InstanceId
  /\ RequestId \subseteq Nat
  /\ OneOutstanding \in BOOLEAN
  /\ QueueSlots \in Nat
  /\ QueueLimit \in Nat
  /\ MaxPackets \in Nat

VARIABLES
  boot,        \* the next operation of main in BootScript
  started,     \* instances whose own thread or callbacks run
  registered,  \* ids found in _handlers
  msgq,        \* _pkth_msgq
  msg,         \* _handlers[i].msg
  result,      \* _handlers[i].result.id
  pending,     \* work items queued on the system work queue
  running,     \* the instance whose callback the work queue runs
  fault,       \* what stopped the firmware, "none" while it runs
  log,         \* history: destination of each accepted packet
  delivered,   \* history: messages each transport callback read
  issued,      \* history: requests the application made
  asked,       \* requests a peripheral has received and not yet answered
  replies      \* history: result packets built for the cloud

peripheralVars == <<asked, issued>>
workVars == <<msg, pending, running, delivered>>
vars == <<boot, started, registered, msgq, msg, result, pending, running,
          fault, log, delivered, issued, asked, replies>>

Packet == [n : Nat, type : {"incoming", "outgoing"}, src : InstanceId,
           dest : InstanceId, control : BOOLEAN, id : Nat, answers : Nat]

Message == [n : Nat, form : {"none", "command", "result", "data"},
            id : Nat, answers : Nat]

Reply == [id : Nat, src : InstanceId, answers : Nat]

Fault == {"none", "overrun", "null_handler", "overread"}

EmptyMessage == [n |-> 0, form |-> "none", id |-> 0, answers |-> 0]

Elements(s) == {s[j] : j \in 1 .. Len(s)}

-----------------------------------------------------------------------------
(* Where an accepted packet goes: only a control packet is passed on from  *)
(* the cloud, and everything from a peripheral is.                         *)
Route(pkt) ==
  IF pkt.type = "incoming" /\ ~ pkt.control THEN None ELSE pkt.dest

(* Mutant: an accepted packet overtakes those already in the queue. *)
MutantEnqueueFront(pkt) == <<pkt>> \o msgq

Enqueued(pkt) == Append(msgq, pkt)

QueueHasRoom == Len(msgq) < QueueLimit

(* PacketHandler::handlePacket: put without waiting.  The queue refuses a  *)
(* packet only at QueueLimit; a packet it takes beyond QueueSlots lands    *)
(* behind the buffer, on the thread structure that follows it.             *)
HandlePacket(pkt) ==
  \/ /\ QueueHasRoom
     /\ msgq' = Enqueued(pkt)
     /\ log' = Append(log, Route(pkt))
     /\ fault' = IF Len(msgq) < QueueSlots THEN fault ELSE "overrun"
  \/ /\ ~ QueueHasRoom
     /\ UNCHANGED <<msgq, log, fault>>

(* k_work_submit is ignored for a work item that is already queued; one    *)
(* that is running is queued again.                                        *)

(* Mutant: the work item is queued once more each time it is submitted. *)
MutantSubmitTwice(i) == Append(pending, i)

(* Mutant: a work item whose callback is running is not queued again. *)
MutantSubmitIdleOnly(i) ==
  IF i \in Elements(pending) \/ running = i THEN pending
  ELSE Append(pending, i)

Submitted(i) ==
  IF i \in Elements(pending) THEN pending ELSE Append(pending, i)

(* Fill the slot of i and submit its work item. *)
Dispatch(i, m) ==
  /\ msg' = [msg EXCEPT ![i] = m]
  /\ pending' = Submitted(i)
  /\ UNCHANGED <<running, delivered>>

(* getHandler returns NULL for an id that is not registered and neither    *)
(* caller looks: the access through it is fatal on this processor.         *)
NullHandler ==
  /\ fault' = "null_handler"
  /\ UNCHANGED <<workVars, result, replies>>

(* The CRC of a packet of the CM4 is taken over as many bytes as its length *)
(* says, less two: over all of the memory when it is 0 or 1, and whenever  *)
(* it says more than was received over what lies behind the buffer.        *)
Overread ==
  /\ fault' = "overread"
  /\ UNCHANGED <<workVars, result, replies>>

-----------------------------------------------------------------------------
(* A control packet: remember its request id in the slot of its            *)
(* destination and pass the payload on.  Other types are dropped.          *)
HandleIncoming(pkt) ==
  \/ pkt.src = CM4 /\ Overread
  \/ /\ ~ pkt.control
     /\ UNCHANGED <<workVars, result, replies, fault>>
  \/ /\ pkt.control
     /\ pkt.dest \notin registered
     /\ NullHandler
  \/ /\ pkt.control
     /\ pkt.dest \in registered
     /\ result' = [result EXCEPT ![pkt.dest] = pkt.id]
     /\ Dispatch(pkt.dest, [n |-> pkt.n, form |-> "command", id |-> pkt.id,
                            answers |-> 0])
     /\ UNCHANGED <<replies, fault>>

(* Mutant: the request id stays in the slot after its result was built. *)
MutantKeepResultId(i) == result

(* The request id is taken out of the slot by the result built with it. *)
ResultTaken(i) == [result EXCEPT ![i] = 0]

(* Mutant: the pending request of the destination is looked up. *)
MutantPendingOfAnyone(i) ==
  LET open == {j \in registered : result[j] > 0}
  IN  IF open = {} THEN 0 ELSE result[CHOOSE j \in open : TRUE]

(* The request a packet from i is taken to answer, 0 for none. *)
PendingRequest(i) == result[i]

(* Mutant: request id 1 is taken for "no request". *)
MutantAboveOne(id) == id > 1

IsRequest(id) == id > 0

(* A packet from a peripheral becomes the result of the request that is    *)
(* pending in the slot of its source, or data when none is.                *)
HandleOutgoing(pkt) ==
  \/ /\ pkt.src \notin registered \/ pkt.dest \notin registered
     /\ NullHandler
  \/ /\ pkt.src \in registered
     /\ pkt.dest \in registered
     /\ LET id == PendingRequest(pkt.src)
            form == IF IsRequest(id) THEN "result" ELSE "data"
        IN  /\ Dispatch(pkt.dest, [n |-> pkt.n, form |-> form, id |-> id,
                                   answers |-> pkt.answers])
            /\ IF IsRequest(id)
               THEN /\ result' = ResultTaken(pkt.src)
                    /\ replies' = Append(replies, [id |-> id, src |-> pkt.src,
                                                   answers |-> pkt.answers])
               ELSE UNCHANGED <<result, replies>>
     /\ UNCHANGED fault

(* One turn of the packet thread. *)
HandlePacketBuffers ==
  /\ fault = "none"
  /\ msgq # <<>>
  /\ msgq' = Tail(msgq)
  /\ LET pkt == Head(msgq)
     IN  \/ pkt.type = "incoming" /\ HandleIncoming(pkt)
         \/ pkt.type = "outgoing" /\ HandleOutgoing(pkt)
  /\ UNCHANGED <<boot, started, registered, log, issued, asked>>

-----------------------------------------------------------------------------
(* The work queue takes the next item and calls its callback, which reads  *)
(* the message now in the slot.  A peripheral that reads a command has it  *)
(* to answer.                                                              *)
RunWork ==
  /\ fault = "none"
  /\ running = None
  /\ pending # <<>>
  /\ LET i == Head(pending)
         m == msg[i]
     IN  /\ running' = i
         /\ delivered' = [delivered EXCEPT ![i] = Append(@, m)]
         /\ asked' = IF i # Cloud /\ m.form = "command"
                     THEN [asked EXCEPT ![i] = @ \cup {m.id}]
                     ELSE asked
  /\ pending' = Tail(pending)
  /\ UNCHANGED <<boot, started, registered, msgq, msg, result, fault, log,
                 issued, replies>>

FinishWork ==
  /\ fault = "none"
  /\ running # None
  /\ running' = None
  /\ UNCHANGED <<boot, started, registered, msgq, msg, result, pending, fault,
                 log, delivered, issued, asked, replies>>

-----------------------------------------------------------------------------
(* main starts the instances and registers their handlers one by one, while*)
(* the instances started already run.  registerHandler stores a slot that  *)
(* was set to zero.                                                        *)
MainStep ==
  /\ fault = "none"
  /\ boot <= Len(BootScript)
  /\ boot' = boot + 1
  /\ LET s == BootScript[boot]
     IN  \/ /\ s.op = "start"
            /\ started' = started \cup {s.id}
            /\ UNCHANGED <<registered, msg, result>>
         \/ /\ s.op = "register"
            /\ registered' = registered \cup {s.id}
            /\ msg' = [msg EXCEPT ![s.id] = EmptyMessage]
            /\ result' = [result EXCEPT ![s.id] = 0]
            /\ UNCHANGED started
  /\ UNCHANGED <<msgq, pending, running, fault, log, delivered, issued, asked,
                 replies>>

-----------------------------------------------------------------------------
(* The environment: the application behind the websocket and the devices.  *)

Answered(id) ==
  \E m \in Elements(delivered[Cloud]) : m.form = "result" /\ m.id = id

MayIssue(dest, id) ==
  /\ id # 0 => \A q \in issued : q.id # id
  /\ OneOutstanding => \A q \in issued : q.dest = dest => Answered(q.id)

(* A control packet arrives over the websocket. *)
CloudControl(dest, id) ==
  /\ fault = "none"
  /\ Cloud \in started
  /\ MayIssue(dest, id)
  /\ issued' = IF id = 0 THEN issued
               ELSE issued \cup {[id |-> id, dest |-> dest]}
  /\ HandlePacket([n |-> Len(log) + 1, type |-> "incoming", src |-> Cloud,
                   dest |-> dest, control |-> TRUE, id |-> id,
                   answers |-> 0])
  /\ UNCHANGED <<boot, started, registered, workVars, result, asked, replies>>

(* A packet of another type arrives over the websocket. *)
CloudOther ==
  /\ fault = "none"
  /\ Cloud \in started
  /\ HandlePacket([n |-> Len(log) + 1, type |-> "incoming", src |-> Cloud,
                   dest |-> Cloud, control |-> FALSE, id |-> 0,
                   answers |-> 0])
  /\ UNCHANGED <<boot, started, registered, workVars, result, peripheralVars,
                 replies>>

(* Peripheral i answers request r, or sends data of its own (r = 0).       *)
PeripheralData(i, r) ==
  /\ fault = "none"
  /\ i \in started
  /\ r \in asked[i] \/ (r = 0 /\ i \in Telemetry)
  /\ asked' = [asked EXCEPT ![i] = @ \ {r}]
  /\ HandlePacket([n |-> Len(log) + 1, type |-> "outgoing", src |-> i,
                   dest |-> Cloud, control |-> FALSE, id |-> 0,
                   answers |-> r])
  /\ UNCHANGED <<boot, started, registered, workVars, result, issued, replies>>

(* A line that begins with the start token is taken for an incoming packet *)
(* of the CM4.  It was cut at its first zero, so it never holds a whole    *)
(* control packet: one too short to reach the type of the packet reads as  *)
(* control of instance 0, a longer one is of another type.                 *)
StartTokenLine(i, control) ==
  /\ fault = "none"
  /\ i \in started
  /\ HandlePacket([n |-> Len(log) + 1, type |-> "incoming", src |-> CM4,
                   dest |-> Unknown, control |-> control, id |-> 0,
                   answers |-> 0])
  /\ UNCHANGED <<boot, started, registered, workVars, result, peripheralVars,
                 replies>>

-----------------------------------------------------------------------------
Init ==
  /\ boot = 1
  /\ started = {}
  /\ registered = {}
  /\ msgq = <<>>
  /\ msg = [i \in InstanceId |-> EmptyMessage]
  /\ result = [i \in InstanceId |-> 0]
  /\ pending = <<>>
  /\ running = None
  /\ fault = "none"
  /\ log = <<>>
  /\ delivered = [i \in InstanceId |-> <<>>]
  /\ issued = {}
  /\ asked = [i \in InstanceId |-> {}]
  /\ replies = <<>>

(* Packets nobody asked for, *)
Unasked ==
  \/ \E dest \in Addressed, id \in RequestId : CloudControl(dest, id)
  \/ CloudOther
  \/ \E i \in InstanceId \ {Cloud} : PeripheralData(i, 0)
  \/ \E i \in Serial, control \in BOOLEAN : StartTokenLine(i, control)

(* and those that answer a request. *)
Answering ==
  \E i \in InstanceId \ {Cloud}, r \in RequestId \ {0} : PeripheralData(i, r)

Environment == Unasked \/ Answering

Next ==
  \/ MainStep
  \/ HandlePacketBuffers
  \/ RunWork
  \/ FinishWork
  \/ Environment

Spec == Init /\ [][Next]_vars

(* For TLC: at most MaxPackets packets before the last one nobody asked    *)
(* for.                                                                    *)
BoundedNext ==
  \/ MainStep
  \/ HandlePacketBuffers
  \/ RunWork
  \/ FinishWork
  \/ Len(log) < MaxPackets /\ Unasked
  \/ Answering

BoundedSpec == Init /\ [][BoundedNext]_vars

-----------------------------------------------------------------------------
(* Types of all variables. *)
TypeOK ==
  /\ boot \in 1 .. Len(BootScript) + 1
  /\ started \subseteq InstanceId
  /\ registered \subseteq InstanceId
  /\ msgq \in Seq(Packet)
  /\ msg \in [InstanceId -> Message]
  /\ result \in [InstanceId -> Nat]
  /\ pending \in Seq(InstanceId)
  /\ running \in InstanceId \cup {None}
  /\ fault \in Fault
  /\ log \in Seq(InstanceId \cup {None})
  /\ delivered \in [InstanceId -> Seq(Message)]
  /\ issued \subseteq [id : Nat, dest : InstanceId]
  /\ asked \in [InstanceId -> SUBSET Nat]
  /\ replies \in Seq(Reply)

(***************************************************************************)
(* Order of delivery.                                                      *)
(***************************************************************************)

(* A transport callback never reads the same packet twice and never an     *)
(* older packet after a newer one, however submissions, running callbacks  *)
(* and slots that are filled again interleave.                             *)
InOrderAtMostOnce ==
  \A i \in InstanceId : \A a, b \in 1 .. Len(delivered[i]) :
    a < b => delivered[i][a].n < delivered[i][b].n

(* The parts of the invariant that make InOrderAtMostOnce inductive.       *)
(* The queue holds accepted packets in the order of acceptance, *)
QueueInOrder ==
  /\ \A a \in 1 .. Len(msgq) :
        /\ msgq[a].n \in 1 .. Len(log)
        /\ log[msgq[a].n] = Route(msgq[a])
  /\ \A a, b \in 1 .. Len(msgq) : a < b => msgq[a].n < msgq[b].n

(* a slot holds a packet accepted for it, older than any in the queue, *)
SlotBehindQueue ==
  \A i \in InstanceId :
    /\ msg[i].n > 0 => msg[i].n <= Len(log) /\ log[msg[i].n] = i
    /\ \A a \in 1 .. Len(msgq) : msg[i].n < msgq[a].n

(* a callback has read nothing newer than its slot, *)
DeliveredUpToSlot ==
  \A i \in InstanceId : \A a \in 1 .. Len(delivered[i]) :
    delivered[i][a].n <= msg[i].n

(* a work item is queued once, for a packet its callback has not read, *)
PendingIsNew ==
  /\ \A a, b \in 1 .. Len(pending) : pending[a] = pending[b] => a = b
  /\ \A a \in 1 .. Len(pending) :
        /\ msg[pending[a]].n > 0
        /\ \A c \in 1 .. Len(delivered[pending[a]]) :
             delivered[pending[a]][c].n < msg[pending[a]].n

(* and a slot that is not yet registered has never been filled.            *)
UnregisteredIsEmpty ==
  /\ registered = {BootScript[a].id :
        a \in {b \in 1 .. boot - 1 : BootScript[b].op = "register"}}
  /\ \A i \in InstanceId \ registered : msg[i].n = 0 /\ delivered[i] = <<>>

IInv ==
  /\ TypeOK
  /\ QueueInOrder
  /\ SlotBehindQueue
  /\ DeliveredUpToSlot
  /\ PendingIsNew
  /\ UnregisteredIsEmpty
  /\ InOrderAtMostOnce

(* The packet handler is a lossy router: what a transport callback reads   *)
(* was accepted for its instance, and each instance is handed its packets  *)
(* in order, some of them superseded, none repeated, none invented.        *)
Router == INSTANCE LossyRouter
  WITH handed <- [i \in InstanceId |->
                    [a \in 1 .. Len(delivered[i]) |-> delivered[i][a].n]]

ImplementsLossyRouter == Router!Spec

(***************************************************************************)
(* Requests and results.                                                   *)
(***************************************************************************)

(* A request gets at most one result, even when it was overwritten in the  *)
(* slot, answered late or mistaken for another.                            *)
OneReplyPerRequest ==
  \A a, b \in 1 .. Len(replies) : replies[a].id = replies[b].id => a = b

(* The result of a request comes from the instance it was addressed to.    *)
ReplyFromAddressee ==
  \A a \in 1 .. Len(replies) :
    [id |-> replies[a].id, dest |-> replies[a].src] \in issued

(* A result carries what the peripheral answered to that very request.     *)
(* It holds when the application keeps one request per instance open and   *)
(* no instance speaks unasked, and fails otherwise.                        *)
ReplyIsAnswer ==
  \A a \in 1 .. Len(replies) : replies[a].answers = replies[a].id

(* The queue never holds more packets than its buffer has room for.        *)
NoQueueOverrun == fault # "overrun"

(* Every packet the thread handles finds the handlers it needs.            *)
NoNullHandler == fault # "null_handler"
==============================================================================
