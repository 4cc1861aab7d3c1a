------------------------- MODULE PacketHandlerProofs -------------------------
(***************************************************************************)
(* Proofs about PacketHandler: its types, the order of delivery, and that  *)
(* it implements LossyRouter, for every value of the constants.            *)
(***************************************************************************)
EXTENDS PacketHandler, SequenceTheorems, TLAPS

-----------------------------------------------------------------------------
(* Types. *)

(* handlePacket keeps the queue, the log and the fault within their types. *)
LEMMA HandlePacketType ==
  ASSUME TypeOK, NEW pkt \in Packet, HandlePacket(pkt)
  PROVE  /\ msgq' \in Seq(Packet)
         /\ log' \in Seq(InstanceId \cup {None})
         /\ fault' \in Fault
<1>1. Route(pkt) \in InstanceId \cup {None}
  BY DEF Route, Packet
<1>2. CASE QueueHasRoom
  <2>1. /\ msgq \in Seq(Packet)
        /\ log \in Seq(InstanceId \cup {None})
        /\ fault \in Fault
    BY DEF TypeOK
  <2>2. /\ msgq' = Append(msgq, pkt)
        /\ log' = Append(log, Route(pkt))
        /\ fault' \in {fault, "overrun"}
    BY <1>2 DEF HandlePacket, Enqueued
  <2>3. msgq' \in Seq(Packet)
    BY <2>1, <2>2
  <2>4. log' \in Seq(InstanceId \cup {None})
    BY <1>1, <2>1, <2>2
  <2>5. fault' \in Fault
    BY <2>1, <2>2 DEF Fault
  <2>6. QED
    BY <2>3, <2>4, <2>5
<1>3. CASE ~ QueueHasRoom
  BY <1>3 DEF TypeOK, HandlePacket
<1>4. QED
  BY <1>2, <1>3

(* Filling a slot and submitting its work item keeps the types. *)
LEMMA DispatchType ==
  ASSUME TypeOK, NEW i \in InstanceId, NEW m \in Message, Dispatch(i, m)
  PROVE  /\ msg' \in [InstanceId -> Message]
         /\ pending' \in Seq(InstanceId)
         /\ running' \in InstanceId \cup {None}
         /\ delivered' \in [InstanceId -> Seq(Message)]
BY DEF TypeOK, Dispatch, Submitted

(* A packet handled by the thread keeps the types. *)
LEMMA HandleIncomingType ==
  ASSUME TypeOK, NEW pkt \in Packet, HandleIncoming(pkt)
  PROVE  /\ msg' \in [InstanceId -> Message]
         /\ result' \in [InstanceId -> Nat]
         /\ pending' \in Seq(InstanceId)
         /\ running' \in InstanceId \cup {None}
         /\ delivered' \in [InstanceId -> Seq(Message)]
         /\ fault' \in Fault
         /\ replies' \in Seq(Reply)
<1>0. CASE Overread
  BY <1>0 DEF TypeOK, Overread, workVars, Fault
<1>1. CASE ~ pkt.control /\ UNCHANGED <<workVars, result, replies, fault>>
  BY <1>1 DEF TypeOK, workVars
<1>2. CASE NullHandler
  BY <1>2 DEF TypeOK, NullHandler, workVars, Fault
<1>3. CASE pkt.control /\ pkt.dest \in registered /\ ~ Overread
  <2> DEFINE m == [n |-> pkt.n, form |-> "command", id |-> pkt.id,
                   answers |-> 0]
  <2>1. /\ pkt.dest \in InstanceId
        /\ m \in Message
        /\ pkt.id \in Nat
    BY DEF Packet, Message
  <2>2. /\ Dispatch(pkt.dest, m)
        /\ result' = [result EXCEPT ![pkt.dest] = pkt.id]
        /\ UNCHANGED <<replies, fault>>
    BY <1>3 DEF HandleIncoming
  <2> HIDE DEF m
  <2>3. QED
    BY <2>1, <2>2, DispatchType DEF TypeOK
<1>4. QED
  BY <1>0, <1>1, <1>2, <1>3 DEF HandleIncoming

(* handleOutgoingPacket keeps the types, whichever handler is missing and   *)
(* whether the packet becomes a result or data.                            *)
LEMMA HandleOutgoingType ==
  ASSUME TypeOK, NEW pkt \in Packet, HandleOutgoing(pkt)
  PROVE  /\ msg' \in [InstanceId -> Message]
         /\ result' \in [InstanceId -> Nat]
         /\ pending' \in Seq(InstanceId)
         /\ running' \in InstanceId \cup {None}
         /\ delivered' \in [InstanceId -> Seq(Message)]
         /\ fault' \in Fault
         /\ replies' \in Seq(Reply)
<1>1. CASE pkt.src \notin registered \/ pkt.dest \notin registered
  BY <1>1 DEF TypeOK, HandleOutgoing, NullHandler, workVars, Fault
<1>2. CASE pkt.src \in registered /\ pkt.dest \in registered
  <2> DEFINE id == PendingRequest(pkt.src)
             m == [n |-> pkt.n,
                   form |-> IF IsRequest(id) THEN "result" ELSE "data",
                   id |-> id, answers |-> pkt.answers]
             r == [id |-> id, src |-> pkt.src, answers |-> pkt.answers]
  <2>1. /\ pkt.src \in InstanceId
        /\ pkt.dest \in InstanceId
        /\ m \in Message
        /\ r \in Reply
    BY DEF TypeOK, Packet, Message, Reply, PendingRequest, IsRequest
  <2>2. /\ Dispatch(pkt.dest, m)
        /\ \/ result' = ResultTaken(pkt.src) /\ replies' = Append(replies, r)
           \/ UNCHANGED <<result, replies>>
        /\ UNCHANGED fault
    BY <1>2 DEF HandleOutgoing
  <2> HIDE DEF m, r
  <2>3. /\ msg' \in [InstanceId -> Message]
        /\ pending' \in Seq(InstanceId)
        /\ running' \in InstanceId \cup {None}
        /\ delivered' \in [InstanceId -> Seq(Message)]
    BY <2>1, <2>2, DispatchType
  <2>4. result' \in [InstanceId -> Nat]
    <3>1. result \in [InstanceId -> Nat]
      BY DEF TypeOK
    <3>2. result' = [result EXCEPT ![pkt.src] = 0] \/ result' = result
      BY <2>2 DEF ResultTaken
    <3>3. QED
      BY <3>1, <3>2
  <2>5. replies' \in Seq(Reply)
    <3>1. replies \in Seq(Reply)
      BY DEF TypeOK
    <3>2. replies' = Append(replies, r) \/ replies' = replies
      BY <2>2
    <3>3. QED
      BY <2>1, <3>1, <3>2
  <2>6. fault' \in Fault
    BY <2>2 DEF TypeOK
  <2>7. QED
    BY <2>3, <2>4, <2>5, <2>6
<1>3. QED
  BY <1>1, <1>2

(* The state main starts from has the types. *)
LEMMA InitType == Init => TypeOK
BY ConstantsAssumption DEF Init, TypeOK, EmptyMessage, Message, Fault

(* Every step keeps the types. *)
LEMMA NextType ==
  ASSUME TypeOK, [Next]_vars
  PROVE  TypeOK'
<1> USE ConstantsAssumption
<1>1. CASE MainStep
  <2>1. BootScript[boot].id \in InstanceId
    <3>1. boot \in 1 .. Len(BootScript)
      BY <1>1 DEF MainStep, TypeOK
    <3>2. BootScript \in Seq([op : {"start", "register"}, id : InstanceId])
      BY DEF ConstantsAssumption
    <3>3. BootScript[boot] \in [op : {"start", "register"},
                                id : InstanceId]
      BY <3>1, <3>2, ElementOfSeq
    <3>4. QED
      BY <3>3
  <2>2. EmptyMessage \in Message
    BY DEF EmptyMessage, Message
  <2>3. boot' \in 1 .. Len(BootScript) + 1
    <3>1. Len(BootScript) \in Nat
      BY LenProperties DEF ConstantsAssumption
    <3>2. QED
      BY <1>1, <3>1 DEF MainStep, TypeOK
  <2>4. /\ started' \subseteq InstanceId
        /\ registered' \subseteq InstanceId
        /\ msg' \in [InstanceId -> Message]
        /\ result' \in [InstanceId -> Nat]
    <3> DEFINE i == BootScript[boot].id
    <3>1. \/ /\ started' = started \cup {i}
             /\ UNCHANGED <<registered, msg, result>>
          \/ /\ registered' = registered \cup {i}
             /\ msg' = [msg EXCEPT ![i] = EmptyMessage]
             /\ result' = [result EXCEPT ![i] = 0]
             /\ UNCHANGED started
      BY <1>1 DEF MainStep
    <3> HIDE DEF i
    <3>2. i \in InstanceId
      BY <2>1 DEF i
    <3>3. /\ started \subseteq InstanceId
          /\ registered \subseteq InstanceId
          /\ msg \in [InstanceId -> Message]
          /\ result \in [InstanceId -> Nat]
      BY DEF TypeOK
    <3> HIDE ConstantsAssumption
    <3>4. QED
      BY <2>2, <3>1, <3>2, <3>3
  <2>5. UNCHANGED <<msgq, pending, running, fault, log, delivered, issued,
                    asked, replies>>
    BY <1>1 DEF MainStep
  <2>6. QED
    BY <2>3, <2>4, <2>5 DEF TypeOK
<1>2. CASE HandlePacketBuffers
  <2> DEFINE pkt == Head(msgq)
  <2>1. pkt \in Packet /\ msgq' \in Seq(Packet)
    <3>1. msgq \in Seq(Packet) /\ msgq # <<>>
      BY <1>2 DEF HandlePacketBuffers, TypeOK
    <3>2. msgq' = Tail(msgq)
      BY <1>2 DEF HandlePacketBuffers
    <3>3. QED
      BY <3>1, <3>2, HeadTailProperties
  <2>2. HandleIncoming(pkt) \/ HandleOutgoing(pkt)
    BY <1>2 DEF HandlePacketBuffers
  <2>3. UNCHANGED <<boot, started, registered, log, issued, asked>>
    BY <1>2 DEF HandlePacketBuffers
  <2> HIDE DEF pkt
  <2>4. QED
    BY <2>1, <2>2, <2>3, HandleIncomingType, HandleOutgoingType DEF TypeOK
<1>3. CASE RunWork
  <2> DEFINE i == Head(pending)
  <2>1. i \in InstanceId /\ pending' \in Seq(InstanceId)
    <3>1. pending \in Seq(InstanceId) /\ pending # <<>>
      BY <1>3 DEF RunWork, TypeOK
    <3>2. pending' = Tail(pending)
      BY <1>3 DEF RunWork
    <3>3. QED
      BY <3>1, <3>2, HeadTailProperties
  <2>2. msg[i] \in Message /\ msg[i].id \in Nat
    BY <2>1 DEF TypeOK, Message
  <2>3. /\ running' = i
        /\ delivered' = [delivered EXCEPT ![i] = Append(@, msg[i])]
        /\ \/ asked' = [asked EXCEPT ![i] = @ \cup {msg[i].id}]
           \/ asked' = asked
        /\ UNCHANGED <<boot, started, registered, msgq, msg, result, fault,
                       log, issued, replies>>
    BY <1>3 DEF RunWork
  <2> HIDE DEF i
  <2>4. delivered' \in [InstanceId -> Seq(Message)]
    <3>1. delivered[i] \in Seq(Message)
      BY <2>1 DEF TypeOK
    <3>2. Append(delivered[i], msg[i]) \in Seq(Message)
      BY <2>2, <3>1
    <3>3. /\ delivered \in [InstanceId -> Seq(Message)]
          /\ delivered' = [delivered EXCEPT ![i] =
                              Append(delivered[i], msg[i])]
      BY <2>3 DEF TypeOK
    <3>4. QED
      BY <2>1, <3>2, <3>3
  <2>5. asked' \in [InstanceId -> SUBSET Nat]
    <3>1. asked \in [InstanceId -> SUBSET Nat]
      BY DEF TypeOK
    <3>2. asked[i] \cup {msg[i].id} \in SUBSET Nat
      BY <2>1, <2>2, <3>1
    <3>3. \/ asked' = [asked EXCEPT ![i] = asked[i] \cup {msg[i].id}]
          \/ asked' = asked
      BY <2>3
    <3>4. QED
      BY <2>1, <3>1, <3>2, <3>3
  <2>6. QED
    BY <2>1, <2>3, <2>4, <2>5 DEF TypeOK
<1>4. CASE FinishWork
  BY <1>4 DEF FinishWork, TypeOK
<1>5. CASE Environment
  <2>1. ASSUME NEW dest \in Addressed, NEW id \in RequestId,
               CloudControl(dest, id)
        PROVE  TypeOK'
    <3> DEFINE pkt == [n |-> Len(log) + 1, type |-> "incoming",
                       src |-> Cloud, dest |-> dest, control |-> TRUE,
                       id |-> id, answers |-> 0]
    <3>1. pkt \in Packet /\ dest \in InstanceId /\ id \in Nat
      <4>1. /\ dest \in InstanceId
            /\ id \in Nat
            /\ Cloud \in InstanceId
        BY DEF ConstantsAssumption
      <4>2. Len(log) + 1 \in Nat
        BY LenProperties DEF TypeOK
      <4>3. QED
        BY <4>1, <4>2 DEF Packet
    <3>2. HandlePacket(pkt)
      BY <2>1 DEF CloudControl
    <3>3. /\ issued' \in {issued, issued \cup {[id |-> id, dest |-> dest]}}
          /\ UNCHANGED <<boot, started, registered, workVars, result,
                         asked, replies>>
      BY <2>1 DEF CloudControl
    <3>4. issued' \subseteq [id : Nat, dest : InstanceId]
      BY <3>1, <3>3 DEF TypeOK
    <3> HIDE DEF pkt
    <3>5. QED
      BY <3>1, <3>2, <3>3, <3>4, HandlePacketType DEF TypeOK, workVars
  <2>2. ASSUME CloudOther PROVE TypeOK'
    <3> DEFINE pkt == [n |-> Len(log) + 1, type |-> "incoming",
                       src |-> Cloud, dest |-> Cloud, control |-> FALSE,
                       id |-> 0, answers |-> 0]
    <3>1. pkt \in Packet
      BY DEF Packet, TypeOK
    <3>2. /\ HandlePacket(pkt)
          /\ UNCHANGED <<boot, started, registered, workVars, result,
                         peripheralVars, replies>>
      BY <2>2 DEF CloudOther
    <3> HIDE DEF pkt
    <3>3. QED
      BY <3>1, <3>2, HandlePacketType DEF TypeOK, workVars, peripheralVars
  <2>3. ASSUME NEW i \in InstanceId \ {Cloud}, NEW r \in RequestId \cup {0},
               PeripheralData(i, r)
        PROVE  TypeOK'
    <3> DEFINE pkt == [n |-> Len(log) + 1, type |-> "outgoing",
                       src |-> i, dest |-> Cloud, control |-> FALSE,
                       id |-> 0, answers |-> r]
    <3>1. pkt \in Packet
      <4>1. /\ i \in InstanceId
            /\ r \in Nat
            /\ Cloud \in InstanceId
        BY DEF ConstantsAssumption
      <4>2. Len(log) + 1 \in Nat
        BY LenProperties DEF TypeOK
      <4>3. QED
        BY <4>1, <4>2 DEF Packet
    <3>2. /\ HandlePacket(pkt)
          /\ asked' = [asked EXCEPT ![i] = @ \ {r}]
          /\ UNCHANGED <<boot, started, registered, workVars, result,
                         issued, replies>>
      BY <2>3 DEF PeripheralData
    <3> HIDE DEF pkt
    <3>3. QED
      BY <3>1, <3>2, HandlePacketType DEF TypeOK, workVars
  <2>4. ASSUME NEW i \in Serial, NEW control \in BOOLEAN,
               StartTokenLine(i, control)
        PROVE  TypeOK'
    <3> DEFINE pkt == [n |-> Len(log) + 1, type |-> "incoming", src |-> CM4,
                       dest |-> Unknown, control |-> control, id |-> 0,
                       answers |-> 0]
    <3>1. pkt \in Packet
      <4>1. Len(log) + 1 \in Nat
        BY LenProperties DEF TypeOK
      <4>2. QED
        BY <4>1, ConstantsAssumption DEF Packet, ConstantsAssumption
    <3>2. /\ HandlePacket(pkt)
          /\ UNCHANGED <<boot, started, registered, workVars, result,
                         peripheralVars, replies>>
      BY <2>4 DEF StartTokenLine
    <3> HIDE DEF pkt
    <3>3. QED
      BY <3>1, <3>2, HandlePacketType DEF TypeOK, workVars, peripheralVars
  <2>5. QED
    BY <1>5, <2>1, <2>2, <2>3, <2>4 DEF Environment, Unasked, Answering
<1>6. CASE UNCHANGED vars
  BY <1>6 DEF vars, TypeOK
<1>7. QED
  BY <1>1, <1>2, <1>3, <1>4, <1>5, <1>6 DEF Next

(* Every variable keeps its type: in particular a slot never holds a       *)
(* request id or a packet that nobody wrote into it.                       *)
THEOREM TypeCorrect == Spec => []TypeOK
BY InitType, NextType, PTL DEF Spec

-----------------------------------------------------------------------------
(* Order of delivery.  TypeOK is assumed where a lemma needs it.           *)

(* The parts of IInv besides the types. *)
OrderInv ==
  /\ QueueInOrder
  /\ SlotBehindQueue
  /\ DeliveredUpToSlot
  /\ PendingIsNew
  /\ UnregisteredIsEmpty
  /\ InOrderAtMostOnce

(* What the order of delivery says about is not touched by a step that     *)
(* leaves these alone.                                                     *)
orderVars == <<boot, registered, msg, pending, delivered>>

(* Accepting a packet, or refusing it, keeps the order. *)
LEMMA AcceptKeepsOrder ==
  ASSUME TypeOK, OrderInv, NEW pkt \in Packet, pkt.n = Len(log) + 1,
         HandlePacket(pkt), UNCHANGED orderVars
  PROVE  OrderInv'
<1>1. CASE QueueHasRoom
  <2>1. /\ msgq \in Seq(Packet)
        /\ log \in Seq(InstanceId \cup {None})
        /\ Route(pkt) \in InstanceId \cup {None}
    BY DEF TypeOK, Route, Packet
  <2>2. /\ msgq' = Append(msgq, pkt)
        /\ log' = Append(log, Route(pkt))
    BY <1>1 DEF HandlePacket, Enqueued
  <2>3. /\ Len(msgq) \in Nat
        /\ Len(msgq') = Len(msgq) + 1
        /\ \A a \in 1 .. Len(msgq) : msgq'[a] = msgq[a]
        /\ msgq'[Len(msgq) + 1] = pkt
    BY <2>1, <2>2, AppendProperties, LenProperties
  <2>4. /\ Len(log) \in Nat
        /\ Len(log') = Len(log) + 1
        /\ \A k \in 1 .. Len(log) : log'[k] = log[k]
        /\ log'[Len(log) + 1] = Route(pkt)
    BY <2>1, <2>2, AppendProperties, LenProperties
  <2>5. \A a \in 1 .. Len(msgq') :
          \/ a \in 1 .. Len(msgq) /\ msgq'[a] = msgq[a]
          \/ a = Len(msgq) + 1 /\ msgq'[a] = pkt
    BY <2>3
  <2>6. QueueInOrder'
    <3>1. \A a \in 1 .. Len(msgq') : /\ msgq'[a].n \in 1 .. Len(log')
                                     /\ log'[msgq'[a].n] = Route(msgq'[a])
      BY <2>4, <2>5 DEF OrderInv, QueueInOrder
    <3>2. \A a, b \in 1 .. Len(msgq') : a < b => msgq'[a].n < msgq'[b].n
      BY <2>3, <2>4, <2>5 DEF OrderInv, QueueInOrder
    <3>3. QED
      BY <3>1, <3>2 DEF QueueInOrder, Route
  <2>7. SlotBehindQueue'
    <3>1. msg' = msg /\ \A i \in InstanceId : msg[i].n \in Nat
      BY DEF orderVars, TypeOK, Message
    <3>2. QED
      BY <2>4, <2>5, <3>1 DEF OrderInv, SlotBehindQueue
  <2>8. QED
    BY <2>6, <2>7
       DEF OrderInv, orderVars, DeliveredUpToSlot, PendingIsNew,
           UnregisteredIsEmpty, InOrderAtMostOnce
<1>2. CASE ~ QueueHasRoom
  BY <1>2
     DEF HandlePacket, OrderInv, orderVars, QueueInOrder, SlotBehindQueue,
         DeliveredUpToSlot, PendingIsNew, UnregisteredIsEmpty,
         InOrderAtMostOnce
<1>3. QED
  BY <1>1, <1>2

(* Taking a packet out of the queue leaves the later ones in order.        *)
LEMMA TailKeepsQueue ==
  ASSUME TypeOK, OrderInv, msgq # <<>>, msgq' = Tail(msgq), log' = log
  PROVE  /\ QueueInOrder'
         /\ Head(msgq) \in Packet
         /\ Head(msgq).n \in 1 .. Len(log)
         /\ log[Head(msgq).n] = Route(Head(msgq))
         /\ \A i \in InstanceId : msg[i].n < Head(msgq).n
         /\ \A a \in 1 .. Len(msgq') : Head(msgq).n < msgq'[a].n
         /\ \A a \in 1 .. Len(msgq') : /\ a + 1 \in 1 .. Len(msgq)
                                       /\ msgq'[a] = msgq[a + 1]
<1>1. msgq \in Seq(Packet)
  BY DEF TypeOK
<1>2. /\ Len(msgq) \in Nat \ {0}
      /\ 1 \in 1 .. Len(msgq)
      /\ Head(msgq) = msgq[1]
      /\ Head(msgq) \in Packet
      /\ Len(msgq') = Len(msgq) - 1
  BY <1>1, HeadTailProperties, EmptySeq, LenProperties
<1>3. \A a \in 1 .. Len(msgq') : /\ a + 1 \in 1 .. Len(msgq)
                                 /\ msgq'[a] = msgq[a + 1]
  BY <1>1, <1>2, HeadTailProperties
<1>4. QueueInOrder'
  <2>1. \A a \in 1 .. Len(msgq') : /\ msgq'[a].n \in 1 .. Len(log')
                                   /\ log'[msgq'[a].n] = Route(msgq'[a])
    BY <1>3 DEF OrderInv, QueueInOrder
  <2>2. \A a, b \in 1 .. Len(msgq') : a < b => msgq'[a].n < msgq'[b].n
    BY <1>2, <1>3 DEF OrderInv, QueueInOrder
  <2>3. QED
    BY <2>1, <2>2 DEF QueueInOrder, Route
<1>5. \A a \in 1 .. Len(msgq') : Head(msgq).n < msgq'[a].n
  BY <1>2, <1>3 DEF OrderInv, QueueInOrder
<1>6. /\ Head(msgq).n \in 1 .. Len(log)
      /\ log[Head(msgq).n] = Route(Head(msgq))
      /\ \A i \in InstanceId : msg[i].n < Head(msgq).n
  BY <1>2 DEF OrderInv, QueueInOrder, SlotBehindQueue
<1>7. QED
  BY <1>2, <1>3, <1>4, <1>5, <1>6

(* Everything a transport callback has read is a message. *)
LEMMA DeliveredType ==
  ASSUME TypeOK, NEW i \in InstanceId, NEW a \in 1 .. Len(delivered[i])
  PROVE  delivered[i][a] \in Message /\ delivered[i][a].n \in Nat
<1>1. delivered[i] \in Seq(Message)
  BY DEF TypeOK
<1>2. delivered[i][a] \in Message
  BY <1>1, ElementOfSeq
<1>3. QED
  BY <1>2 DEF Message

(* A packet put into a registered slot is newer than what the slot held    *)
(* and than all its callback has read.                                     *)
LEMMA DispatchKeepsOrder ==
  ASSUME TypeOK, OrderInv, msgq # <<>>, msgq' = Tail(msgq),
         NEW i \in registered, Route(Head(msgq)) = i,
         NEW m \in Message, m.n = Head(msgq).n, Dispatch(i, m),
         UNCHANGED <<boot, registered, log>>
  PROVE  OrderInv'
<1> DEFINE n == Head(msgq).n
<1>1. /\ QueueInOrder'
      /\ n \in 1 .. Len(log)
      /\ log[n] = i
      /\ \A j \in InstanceId : msg[j].n < n
      /\ \A a \in 1 .. Len(msgq') : n < msgq'[a].n
      /\ \A a \in 1 .. Len(msgq') : /\ a + 1 \in 1 .. Len(msgq)
                                    /\ msgq'[a] = msgq[a + 1]
  BY TailKeepsQueue
<1>2. /\ i \in InstanceId
      /\ msg \in [InstanceId -> Message]
      /\ \A j \in InstanceId : msg[j].n \in Nat
      /\ pending \in Seq(InstanceId)
      /\ Len(pending) \in Nat
      /\ Len(log) \in Nat
  BY LenProperties DEF TypeOK, Message
<1>3. /\ msg' = [msg EXCEPT ![i] = m]
      /\ delivered' = delivered
      /\ pending' = Submitted(i)
  BY DEF Dispatch
<1>4. /\ msg'[i].n = n
      /\ \A j \in InstanceId \ {i} : msg'[j] = msg[j]
  BY <1>2, <1>3
<1> HIDE DEF n
<1>5. SlotBehindQueue'
  <2>1. \A j \in InstanceId : /\ msg'[j].n > 0 => /\ msg'[j].n <= Len(log)
                                                  /\ log[msg'[j].n] = j
    BY <1>1, <1>4 DEF OrderInv, SlotBehindQueue
  <2>2. \A j \in InstanceId : \A a \in 1 .. Len(msgq') :
          msg'[j].n < msgq'[a].n
    BY <1>1, <1>4 DEF OrderInv, SlotBehindQueue
  <2>3. QED
    BY <2>1, <2>2 DEF SlotBehindQueue
<1>6. \A a \in 1 .. Len(delivered[i]) : delivered[i][a].n < n
  <2>1. \A a \in 1 .. Len(delivered[i]) : delivered[i][a].n \in Nat
    BY <1>2, DeliveredType
  <2>2. \A a \in 1 .. Len(delivered[i]) : delivered[i][a].n <= msg[i].n
    BY <1>2 DEF OrderInv, DeliveredUpToSlot
  <2>3. msg[i].n \in Nat /\ n \in Nat /\ msg[i].n < n
    BY <1>1, <1>2
  <2>4. QED
    BY <2>1, <2>2, <2>3
<1>7. DeliveredUpToSlot'
  <2>1. \A a \in 1 .. Len(delivered[i]) : delivered[i][a].n <= n
    <3>1. \A a \in 1 .. Len(delivered[i]) : delivered[i][a].n \in Nat
      BY <1>2, DeliveredType
    <3>2. n \in Nat
      BY <1>1
    <3>3. QED
      BY <1>6, <3>1, <3>2
  <2>2. QED
    BY <1>3, <1>4, <2>1 DEF OrderInv, DeliveredUpToSlot
<1>8. PendingIsNew'
  <2>1. \/ pending' = pending
        \/ /\ pending' = Append(pending, i)
           /\ \A a \in 1 .. Len(pending) : pending[a] # i
    BY <1>3 DEF Submitted, Elements
  <2>2. \A a \in 1 .. Len(pending') :
          \/ a \in 1 .. Len(pending) /\ pending'[a] = pending[a]
          \/ pending'[a] = i
    BY <1>2, <2>1, AppendProperties
  <2>3. \A a, b \in 1 .. Len(pending') : pending'[a] = pending'[b] => a = b
    <3>1. CASE pending' = pending
      BY <3>1 DEF OrderInv, PendingIsNew
    <3>2. CASE /\ pending' = Append(pending, i)
               /\ \A a \in 1 .. Len(pending) : pending[a] # i
      <4>1. /\ Len(pending') = Len(pending) + 1
            /\ \A a \in 1 .. Len(pending) : pending'[a] = pending[a]
            /\ pending'[Len(pending) + 1] = i
        BY <1>2, <3>2, AppendProperties
      <4>2. QED
        BY <1>2, <3>2, <4>1 DEF OrderInv, PendingIsNew
    <3>3. QED
      BY <2>1, <3>1, <3>2
  <2>4. /\ n > 0
        /\ \A a \in 1 .. Len(pending) : pending[a] \in InstanceId
    BY <1>1, <1>2, ElementOfSeq
  <2>5. \A a \in 1 .. Len(pending') :
          /\ msg'[pending'[a]].n > 0
          /\ \A c \in 1 .. Len(delivered'[pending'[a]]) :
               delivered'[pending'[a]][c].n < msg'[pending'[a]].n
    <3> SUFFICES ASSUME NEW a \in 1 .. Len(pending')
                 PROVE  /\ msg'[pending'[a]].n > 0
                        /\ \A c \in 1 .. Len(delivered'[pending'[a]]) :
                             delivered'[pending'[a]][c].n < msg'[pending'[a]].n
      OBVIOUS
    <3>1. CASE pending'[a] = i
      <4>1. msg'[pending'[a]].n = n
        BY <1>4, <3>1
      <4>2. delivered'[pending'[a]] = delivered[i]
        BY <1>3, <3>1
      <4>3. QED
        BY <1>6, <2>4, <4>1, <4>2
    <3>2. CASE pending'[a] # i
      <4>1. a \in 1 .. Len(pending) /\ pending'[a] = pending[a]
        BY <2>2, <3>2
      <4>2. msg'[pending'[a]] = msg[pending[a]]
        BY <1>4, <2>4, <3>2, <4>1
      <4>3. delivered'[pending'[a]] = delivered[pending[a]]
        BY <1>3, <4>1
      <4>4. /\ msg[pending[a]].n > 0
            /\ \A c \in 1 .. Len(delivered[pending[a]]) :
                 delivered[pending[a]][c].n < msg[pending[a]].n
        BY <4>1 DEF OrderInv, PendingIsNew
      <4>5. QED
        BY <4>2, <4>3, <4>4
    <3>3. QED
      BY <3>1, <3>2
  <2>6. QED
    BY <2>3, <2>5 DEF PendingIsNew
<1>9. UnregisteredIsEmpty'
  <2>1. \A j \in InstanceId \ registered :
          msg'[j].n = 0 /\ delivered'[j] = <<>>
    BY <1>3, <1>4 DEF OrderInv, UnregisteredIsEmpty
  <2>2. registered' = registered /\ boot' = boot
    OBVIOUS
  <2>3. QED
    BY <2>1, <2>2 DEF OrderInv, UnregisteredIsEmpty
<1>10. InOrderAtMostOnce'
  BY <1>3 DEF OrderInv, InOrderAtMostOnce
<1>11. QED
  BY <1>1, <1>5, <1>7, <1>8, <1>9, <1>10 DEF OrderInv

(* What RunWork reads: a packet accepted for the instance, newer than all  *)
(* its callback has read.                                                  *)
LEMMA WorkIsNew ==
  ASSUME TypeOK, OrderInv, RunWork
  PROVE  LET i == Head(pending)
         IN  /\ i \in InstanceId
             /\ msg[i] \in Message
             /\ msg[i].n \in 1 .. Len(log)
             /\ log[msg[i].n] = i
             /\ \A a \in 1 .. Len(delivered[i]) : delivered[i][a].n < msg[i].n
             /\ delivered' = [delivered EXCEPT ![i] =
                                Append(delivered[i], msg[i])]
             /\ \A a \in 1 .. Len(pending') :
                  /\ a + 1 \in 1 .. Len(pending)
                  /\ pending'[a] = pending[a + 1]
                  /\ pending'[a] # i
                  /\ pending'[a] \in InstanceId
<1> DEFINE i == Head(pending)
<1>1. /\ pending \in Seq(InstanceId)
      /\ pending # <<>>
      /\ pending' = Tail(pending)
  BY DEF RunWork, TypeOK
<1>2. /\ Len(pending) \in Nat \ {0}
      /\ 1 \in 1 .. Len(pending)
      /\ i = pending[1]
      /\ i \in InstanceId
      /\ Len(pending') = Len(pending) - 1
  BY <1>1, HeadTailProperties, EmptySeq, LenProperties
<1>3. \A a \in 1 .. Len(pending') : /\ a + 1 \in 1 .. Len(pending)
                                    /\ pending'[a] = pending[a + 1]
  BY <1>1, <1>2, HeadTailProperties
<1>4. \A a \in 1 .. Len(pending') : /\ pending'[a] # i
                                    /\ pending'[a] \in InstanceId
  <2>1. \A a \in 1 .. Len(pending') : pending'[a] \in InstanceId
    BY <1>1, <1>3, ElementOfSeq
  <2>2. \A a \in 1 .. Len(pending') : pending[a + 1] # pending[1]
    BY <1>2, <1>3 DEF OrderInv, PendingIsNew
  <2>3. QED
    BY <1>2, <1>3, <2>1, <2>2
<1>5. /\ msg[i].n > 0
      /\ \A a \in 1 .. Len(delivered[i]) : delivered[i][a].n < msg[i].n
  BY <1>2 DEF OrderInv, PendingIsNew
<1>6. msg[i] \in Message /\ msg[i].n \in Nat
  BY <1>2 DEF TypeOK, Message
<1>7. msg[i].n \in 1 .. Len(log) /\ log[msg[i].n] = i
  <2>1. Len(log) \in Nat
    BY LenProperties DEF TypeOK
  <2>2. QED
    BY <1>2, <1>5, <1>6, <2>1 DEF OrderInv, SlotBehindQueue
<1>8. delivered' = [delivered EXCEPT ![i] = Append(delivered[i], msg[i])]
  BY DEF RunWork
<1>9. QED
  BY <1>2, <1>3, <1>4, <1>5, <1>6, <1>7, <1>8

(* The history of the instance whose callback runs grows by its slot, the  *)
(* others stay.                                                            *)
LEMMA WorkAppends ==
  ASSUME TypeOK, OrderInv, RunWork
  PROVE  LET i == Head(pending)
         IN  /\ Len(delivered[i]) \in Nat
             /\ Len(delivered'[i]) = Len(delivered[i]) + 1
             /\ \A a \in 1 .. Len(delivered[i]) :
                  delivered'[i][a] = delivered[i][a]
             /\ delivered'[i][Len(delivered[i]) + 1] = msg[i]
             /\ \A j \in InstanceId \ {i} : delivered'[j] = delivered[j]
<1> DEFINE i == Head(pending)
<1>1. /\ i \in InstanceId
      /\ msg[i] \in Message
      /\ delivered' = [delivered EXCEPT ![i] = Append(delivered[i], msg[i])]
  BY WorkIsNew
<1>2. /\ delivered \in [InstanceId -> Seq(Message)]
      /\ delivered[i] \in Seq(Message)
  BY <1>1 DEF TypeOK
<1>3. delivered'[i] = Append(delivered[i], msg[i])
  BY <1>1, <1>2
<1>4. \A j \in InstanceId \ {i} : delivered'[j] = delivered[j]
  BY <1>1, <1>2
<1> HIDE DEF i
<1>5. /\ Len(delivered[i]) \in Nat
      /\ Len(delivered'[i]) = Len(delivered[i]) + 1
      /\ \A a \in 1 .. Len(delivered[i]) : delivered'[i][a] = delivered[i][a]
      /\ delivered'[i][Len(delivered[i]) + 1] = msg[i]
  BY <1>1, <1>2, <1>3, AppendProperties, LenProperties
<1>6. QED
  BY <1>4, <1>5 DEF i

(* A callback that runs keeps the invariant: what it reads is newer than    *)
(* all it has read before, because its work item was queued for it.        *)
LEMMA RunWorkKeepsOrder ==
  ASSUME TypeOK, OrderInv, RunWork
  PROVE  OrderInv'
<1> DEFINE i == Head(pending)
<1>1. /\ i \in InstanceId
      /\ msg[i].n \in 1 .. Len(log)
      /\ \A a \in 1 .. Len(delivered[i]) : delivered[i][a].n < msg[i].n
      /\ \A a \in 1 .. Len(pending') : /\ a + 1 \in 1 .. Len(pending)
                                       /\ pending'[a] = pending[a + 1]
                                       /\ pending'[a] # i
                                       /\ pending'[a] \in InstanceId
  BY WorkIsNew
<1>2. /\ Len(delivered[i]) \in Nat
      /\ Len(delivered'[i]) = Len(delivered[i]) + 1
      /\ \A a \in 1 .. Len(delivered[i]) : delivered'[i][a] = delivered[i][a]
      /\ delivered'[i][Len(delivered[i]) + 1] = msg[i]
      /\ \A j \in InstanceId \ {i} : delivered'[j] = delivered[j]
  BY WorkAppends
<1>3. UNCHANGED <<boot, registered, msgq, msg, log>>
  BY DEF RunWork
<1> HIDE DEF i
<1>4. \A a \in 1 .. Len(delivered'[i]) :
        \/ /\ a \in 1 .. Len(delivered[i])
           /\ delivered'[i][a] = delivered[i][a]
        \/ a = Len(delivered[i]) + 1 /\ delivered'[i][a] = msg[i]
  BY <1>2
<1>5. QueueInOrder' /\ SlotBehindQueue'
  BY <1>3 DEF OrderInv, QueueInOrder, SlotBehindQueue, Route
<1>6. DeliveredUpToSlot'
  <2>1. \A a \in 1 .. Len(delivered'[i]) : delivered'[i][a].n <= msg[i].n
    <3>1. \A a \in 1 .. Len(delivered[i]) : delivered[i][a].n <= msg[i].n
      BY <1>1 DEF OrderInv, DeliveredUpToSlot
    <3>2. msg[i].n <= msg[i].n
      BY <1>1
    <3>3. QED
      BY <1>4, <3>1, <3>2
  <2>2. QED
    BY <1>2, <1>3, <2>1 DEF OrderInv, DeliveredUpToSlot
<1>7. PendingIsNew'
  <2>0. /\ Len(pending) \in Nat
        /\ Len(pending') \in Nat
    BY LenProperties, HeadTailProperties DEF TypeOK, RunWork
  <2>1. \A a, b \in 1 .. Len(pending') : pending'[a] = pending'[b] => a = b
    BY <1>1, <2>0 DEF OrderInv, PendingIsNew
  <2>2. ASSUME NEW a \in 1 .. Len(pending')
        PROVE  /\ msg'[pending'[a]].n > 0
               /\ \A c \in 1 .. Len(delivered'[pending'[a]]) :
                    delivered'[pending'[a]][c].n < msg'[pending'[a]].n
    <3>1. /\ msg' = msg
          /\ delivered'[pending'[a]] = delivered[pending'[a]]
          /\ a + 1 \in 1 .. Len(pending)
          /\ pending'[a] = pending[a + 1]
      BY <1>1, <1>2, <1>3
    <3>2. QED
      BY <3>1 DEF OrderInv, PendingIsNew
  <2>3. QED
    BY <2>1, <2>2 DEF PendingIsNew
<1>8. UnregisteredIsEmpty'
  <2>1. i \in registered
    BY <1>1 DEF OrderInv, UnregisteredIsEmpty
  <2>2. QED
    BY <1>2, <1>3, <2>1 DEF OrderInv, UnregisteredIsEmpty
<1>9. InOrderAtMostOnce'
  <2>1. ASSUME NEW a \in 1 .. Len(delivered'[i]),
               NEW b \in 1 .. Len(delivered'[i]), a < b
        PROVE  delivered'[i][a].n < delivered'[i][b].n
    <3>1. a \in 1 .. Len(delivered[i]) /\ delivered'[i][a] = delivered[i][a]
      BY <1>2, <1>4, <2>1
    <3>2. CASE b \in 1 .. Len(delivered[i])
      BY <1>1, <1>2, <2>1, <3>1, <3>2 DEF OrderInv, InOrderAtMostOnce
    <3>3. CASE b = Len(delivered[i]) + 1
      BY <1>1, <1>2, <3>1, <3>3
    <3>4. QED
      BY <1>2, <1>4, <3>2, <3>3
  <2>2. QED
    BY <1>2, <2>1 DEF OrderInv, InOrderAtMostOnce
<1>10. QED
  BY <1>5, <1>6, <1>7, <1>8, <1>9 DEF OrderInv

(* Registering an instance clears a slot that was never filled, because    *)
(* main registers each instance once.                                      *)
LEMMA MainKeepsOrder ==
  ASSUME TypeOK, OrderInv, MainStep
  PROVE  OrderInv'
<1> DEFINE s == BootScript[boot]
           Registers(k) == {BootScript[a].id :
             a \in {b \in 1 .. k - 1 : BootScript[b].op = "register"}}
<1>1. /\ boot \in 1 .. Len(BootScript)
      /\ Len(BootScript) \in Nat
      /\ \A a \in 1 .. Len(BootScript) :
            BootScript[a] \in [op : {"start", "register"}, id : InstanceId]
  <2>1. BootScript \in Seq([op : {"start", "register"}, id : InstanceId])
    BY ConstantsAssumption DEF ConstantsAssumption
  <2>2. Len(BootScript) \in Nat
    BY <2>1, LenProperties
  <2>3. \A a \in 1 .. Len(BootScript) :
          BootScript[a] \in [op : {"start", "register"}, id : InstanceId]
    BY <2>1, ElementOfSeq
  <2>4. boot \in 1 .. Len(BootScript)
    BY <2>2 DEF MainStep, TypeOK
  <2>5. QED
    BY <2>2, <2>3, <2>4
<1>2. /\ boot' = boot + 1
      /\ UNCHANGED <<msgq, pending, log, delivered>>
  BY DEF MainStep
<1>3. registered = Registers(boot)
  BY DEF OrderInv, UnregisteredIsEmpty
<1>4. s.id \in InstanceId /\ s.op \in {"start", "register"}
  BY <1>1
<1>5. CASE s.op = "start"
  <2>1. UNCHANGED <<registered, msg>>
    BY <1>5 DEF MainStep
  <2>2. registered' = Registers(boot')
    <3>1. {b \in 1 .. boot' - 1 : BootScript[b].op = "register"}
            = {b \in 1 .. boot - 1 : BootScript[b].op = "register"}
      BY <1>1, <1>2, <1>5
    <3>2. QED
      BY <1>3, <2>1, <3>1
  <2>3. QED
    BY <1>2, <2>1, <2>2
       DEF OrderInv, QueueInOrder, Route, SlotBehindQueue, DeliveredUpToSlot,
           PendingIsNew, UnregisteredIsEmpty, InOrderAtMostOnce
<1>6. CASE s.op = "register"
  <2>1. /\ registered' = registered \cup {s.id}
        /\ msg' = [msg EXCEPT ![s.id] = EmptyMessage]
    BY <1>6 DEF MainStep
  <2>2. s.id \notin registered
    <3>1. SUFFICES ASSUME s.id \in Registers(boot) PROVE FALSE
      BY <1>3
    <3>2. PICK a \in 1 .. boot - 1 : /\ BootScript[a].op = "register"
                                     /\ BootScript[a].id = s.id
      BY <3>1
    <3>3. a \in 1 .. Len(BootScript) /\ a # boot
      BY <1>1, <3>2
    <3>4. BootScript[a] = s
      BY <1>1, <1>6, <3>2, <3>3
    <3>5. QED
      BY <1>1, <3>2, <3>3, <3>4, ConstantsAssumption
         DEF ConstantsAssumption
  <2>3. msg[s.id].n = 0 /\ delivered[s.id] = <<>>
    BY <1>4, <2>2 DEF OrderInv, UnregisteredIsEmpty
  <2>4. /\ msg'[s.id].n = 0
        /\ \A j \in InstanceId \ {s.id} : msg'[j] = msg[j]
    BY <1>4, <2>1 DEF TypeOK, EmptyMessage
  <2> HIDE DEF s
  <2>5. \A j \in InstanceId : msg'[j].n = msg[j].n
    BY <2>3, <2>4
  <2>6. \A a \in 1 .. Len(pending) : pending[a] \in InstanceId
    BY ElementOfSeq DEF TypeOK
  <2>7. QueueInOrder' /\ InOrderAtMostOnce'
    BY <1>2 DEF OrderInv, QueueInOrder, Route, InOrderAtMostOnce
  <2>8. SlotBehindQueue' /\ DeliveredUpToSlot'
    BY <1>2, <2>5 DEF OrderInv, SlotBehindQueue, DeliveredUpToSlot
  <2>9. PendingIsNew'
    BY <1>2, <2>5, <2>6 DEF OrderInv, PendingIsNew
  <2>10. UnregisteredIsEmpty'
    <3>1. registered' = Registers(boot')
      <4>1. {b \in 1 .. boot' - 1 : BootScript[b].op = "register"}
              = {b \in 1 .. boot - 1 : BootScript[b].op = "register"}
                  \cup {boot}
        BY <1>1, <1>2, <1>6 DEF s
      <4>2. QED
        BY <1>3, <2>1, <4>1 DEF s
    <3>2. \A j \in InstanceId \ registered' :
            msg'[j].n = 0 /\ delivered'[j] = <<>>
      BY <1>2, <2>1, <2>5 DEF OrderInv, UnregisteredIsEmpty
    <3>3. QED
      BY <3>1, <3>2 DEF UnregisteredIsEmpty
  <2>11. QED
    BY <2>7, <2>8, <2>9, <2>10 DEF OrderInv
<1>7. QED
  BY <1>4, <1>5, <1>6

(* The thread either drops the packet at the head of the queue or puts it  *)
(* into a registered slot.                                                 *)
LEMMA HandleKeepsOrder ==
  ASSUME TypeOK, OrderInv, HandlePacketBuffers
  PROVE  OrderInv'
<1> DEFINE pkt == Head(msgq)
<1>1. /\ msgq # <<>>
      /\ msgq' = Tail(msgq)
      /\ UNCHANGED <<boot, registered, log>>
      /\ \/ pkt.type = "incoming" /\ HandleIncoming(pkt)
         \/ pkt.type = "outgoing" /\ HandleOutgoing(pkt)
  BY DEF HandlePacketBuffers
<1>2. pkt \in Packet
  BY <1>1, TailKeepsQueue
<1>3. CASE UNCHANGED workVars
  <2>1. /\ QueueInOrder'
        /\ \A a \in 1 .. Len(msgq') : /\ a + 1 \in 1 .. Len(msgq)
                                      /\ msgq'[a] = msgq[a + 1]
    BY <1>1, TailKeepsQueue
  <2>2. SlotBehindQueue'
    BY <1>1, <1>3, <2>1 DEF workVars, OrderInv, SlotBehindQueue
  <2>3. QED
    BY <1>1, <1>3, <2>1, <2>2
       DEF workVars, OrderInv, DeliveredUpToSlot, PendingIsNew,
           UnregisteredIsEmpty, InOrderAtMostOnce
<1>4. CASE \E i \in registered, m \in Message :
             Route(pkt) = i /\ m.n = pkt.n /\ Dispatch(i, m)
  <2>1. PICK i \in registered, m \in Message :
               Route(pkt) = i /\ m.n = pkt.n /\ Dispatch(i, m)
    BY <1>4
  <2>2. QED
    BY <1>1, <2>1, DispatchKeepsOrder
<1>5. CASE pkt.type = "incoming" /\ HandleIncoming(pkt)
  <2> DEFINE m == [n |-> pkt.n, form |-> "command", id |-> pkt.id,
                   answers |-> 0]
  <2>1. CASE pkt.control /\ pkt.dest \in registered /\ ~ Overread
    <3>1. m \in Message /\ m.n = pkt.n
      BY <1>2 DEF Packet, Message
    <3>2. Route(pkt) = pkt.dest
      BY <2>1 DEF Route
    <3>3. Dispatch(pkt.dest, m)
      BY <1>5, <2>1 DEF HandleIncoming
    <3>4. QED
      BY <1>4, <2>1, <3>1, <3>2, <3>3
  <2>2. CASE ~ (pkt.control /\ pkt.dest \in registered) \/ Overread
    BY <1>3, <1>5, <2>2 DEF HandleIncoming, NullHandler, Overread
  <2>3. QED
    BY <2>1, <2>2
<1>6. CASE pkt.type = "outgoing" /\ HandleOutgoing(pkt)
  <2> DEFINE id == PendingRequest(pkt.src)
             m == [n |-> pkt.n,
                   form |-> IF IsRequest(id) THEN "result" ELSE "data",
                   id |-> id, answers |-> pkt.answers]
  <2>1. CASE pkt.src \in registered /\ pkt.dest \in registered
    <3>1. m \in Message /\ m.n = pkt.n
      BY <1>2, <2>1 DEF TypeOK, Packet, Message, PendingRequest, IsRequest
    <3>2. Route(pkt) = pkt.dest
      BY <1>6 DEF Route
    <3>3. Dispatch(pkt.dest, m)
      BY <1>6, <2>1 DEF HandleOutgoing
    <3>4. QED
      BY <1>4, <2>1, <3>1, <3>2, <3>3
  <2>2. CASE ~ (pkt.src \in registered /\ pkt.dest \in registered)
    BY <1>3, <1>6, <2>2 DEF HandleOutgoing, NullHandler
  <2>3. QED
    BY <2>1, <2>2
<1>7. QED
  BY <1>1, <1>5, <1>6

(* A packet from the environment is numbered by its acceptance.            *)
LEMMA EnvironmentKeepsOrder ==
  ASSUME TypeOK, OrderInv, Environment
  PROVE  OrderInv'
<1>1. /\ Len(log) + 1 \in Nat
      /\ {Cloud, CM4, Unknown} \subseteq InstanceId
      /\ Addressed \subseteq InstanceId
      /\ RequestId \subseteq Nat
  BY ConstantsAssumption, LenProperties DEF TypeOK, ConstantsAssumption
<1>2. ASSUME NEW dest \in Addressed, NEW id \in RequestId,
             CloudControl(dest, id)
      PROVE  OrderInv'
  <2> DEFINE pkt == [n |-> Len(log) + 1, type |-> "incoming", src |-> Cloud,
                     dest |-> dest, control |-> TRUE, id |-> id,
                     answers |-> 0]
  <2>1. pkt \in Packet
    BY <1>1 DEF Packet
  <2>2. HandlePacket(pkt) /\ UNCHANGED orderVars
    BY <1>2 DEF CloudControl, workVars, orderVars
  <2>3. QED
    BY <2>1, <2>2, AcceptKeepsOrder
<1>3. ASSUME CloudOther PROVE OrderInv'
  <2> DEFINE pkt == [n |-> Len(log) + 1, type |-> "incoming", src |-> Cloud,
                     dest |-> Cloud, control |-> FALSE, id |-> 0,
                     answers |-> 0]
  <2>1. pkt \in Packet
    BY <1>1 DEF Packet
  <2>2. HandlePacket(pkt) /\ UNCHANGED orderVars
    BY <1>3 DEF CloudOther, workVars, orderVars
  <2>3. QED
    BY <2>1, <2>2, AcceptKeepsOrder
<1>4. ASSUME NEW i \in InstanceId \ {Cloud}, NEW r \in RequestId \cup {0},
             PeripheralData(i, r)
      PROVE  OrderInv'
  <2> DEFINE pkt == [n |-> Len(log) + 1, type |-> "outgoing", src |-> i,
                     dest |-> Cloud, control |-> FALSE, id |-> 0,
                     answers |-> r]
  <2>1. r \in Nat
    BY <1>1
  <2>2. pkt \in Packet
    BY <1>1, <2>1 DEF Packet
  <2>3. HandlePacket(pkt) /\ UNCHANGED orderVars
    BY <1>4 DEF PeripheralData, workVars, orderVars
  <2>4. QED
    BY <2>2, <2>3, AcceptKeepsOrder
<1>5. ASSUME NEW i \in Serial, NEW control \in BOOLEAN,
             StartTokenLine(i, control)
      PROVE  OrderInv'
  <2> DEFINE pkt == [n |-> Len(log) + 1, type |-> "incoming", src |-> CM4,
                     dest |-> Unknown, control |-> control, id |-> 0,
                     answers |-> 0]
  <2>1. pkt \in Packet
    BY <1>1 DEF Packet
  <2>2. HandlePacket(pkt) /\ UNCHANGED orderVars
    BY <1>5 DEF StartTokenLine, workVars, orderVars
  <2>3. QED
    BY <2>1, <2>2, AcceptKeepsOrder
<1>6. QED
  BY <1>2, <1>3, <1>4, <1>5 DEF Environment, Unasked, Answering

(* Every step of the firmware and of its environment keeps the invariant.   *)
LEMMA NextKeepsOrder ==
  ASSUME TypeOK, OrderInv, [Next]_vars
  PROVE  OrderInv'
<1>1. CASE FinishWork
  BY <1>1
     DEF FinishWork, OrderInv, QueueInOrder, Route, SlotBehindQueue,
         DeliveredUpToSlot, PendingIsNew, UnregisteredIsEmpty,
         InOrderAtMostOnce
<1>2. CASE UNCHANGED vars
  BY <1>2
     DEF vars, OrderInv, QueueInOrder, Route, SlotBehindQueue,
         DeliveredUpToSlot, PendingIsNew, UnregisteredIsEmpty,
         InOrderAtMostOnce
<1>3. QED
  BY <1>1, <1>2, MainKeepsOrder, HandleKeepsOrder, RunWorkKeepsOrder,
     EnvironmentKeepsOrder
     DEF Next

(* And it holds where main starts: nothing is queued, stored or read.      *)
LEMMA InitOrder ==
  ASSUME Init
  PROVE  OrderInv
<1>1. /\ \A a \in 1 .. Len(<<>>) : FALSE
      /\ msgq = <<>>
      /\ pending = <<>>
      /\ \A i \in InstanceId : /\ msg[i].n = 0
                               /\ msg[i].n \in Nat
                               /\ delivered[i] = <<>>
  BY DEF Init, EmptyMessage
<1>2. UnregisteredIsEmpty
  <2>1. registered = {} /\ boot = 1
    BY DEF Init
  <2>2. 1 .. boot - 1 = {}
    BY <2>1
  <2>3. QED
    BY <1>1, <2>1, <2>2 DEF UnregisteredIsEmpty
<1>3. QueueInOrder /\ PendingIsNew
  BY <1>1 DEF QueueInOrder, PendingIsNew
<1>4. SlotBehindQueue
  <2>1. ASSUME NEW i \in InstanceId PROVE ~ (msg[i].n > 0)
    <3>1. msg[i].n = 0
      BY <1>1
    <3>2. QED
      BY <3>1
  <2>2. \A a \in 1 .. Len(msgq) : FALSE
    BY <1>1
  <2>3. QED
    BY <2>1, <2>2 DEF SlotBehindQueue
<1>5. DeliveredUpToSlot /\ InOrderAtMostOnce
  BY <1>1 DEF DeliveredUpToSlot, InOrderAtMostOnce
<1>6. QED
  BY <1>2, <1>3, <1>4, <1>5 DEF OrderInv

(* The inductive invariant: queue, slots, work items and what the          *)
(* callbacks have read are always in the order of acceptance, each packet  *)
(* in at most one of the places that could still hand it over.             *)
THEOREM InvariantHolds == Spec => []IInv
<1>1. TypeOK /\ OrderInv => IInv
  BY DEF OrderInv, IInv
<1>2. QED
  BY <1>1, InitOrder, NextKeepsOrder, TypeCorrect, PTL DEF Spec

(* A transport callback never reads a packet twice nor out of order.       *)
THEOREM DeliveryInOrder == Spec => []InOrderAtMostOnce
<1>1. IInv => InOrderAtMostOnce
  BY DEF IInv
<1>2. QED
  BY <1>1, InvariantHolds, PTL

-----------------------------------------------------------------------------
(* Implementation of LossyRouter. *)

(* The numbers of the packets each callback has read. *)
handed == [i \in InstanceId |->
             [a \in 1 .. Len(delivered[i]) |-> delivered[i][a].n]]

(* A callback that reads its slot hands over the packet in it, which is    *)
(* newer than the one handed over before.                                  *)
LEMMA RunWorkHands ==
  ASSUME TypeOK, OrderInv, RunWork
  PROVE  LET i == Head(pending)
             k == msg[i].n
         IN  i \in InstanceId /\ k \in 1 .. Len(log) /\ Router!Hand(i, k)
<1> DEFINE i == Head(pending)
           k == msg[i].n
<1>1. /\ i \in InstanceId
      /\ k \in 1 .. Len(log)
      /\ log[k] = i
      /\ \A a \in 1 .. Len(delivered[i]) : delivered[i][a].n < k
  BY WorkIsNew
<1>2. /\ Len(delivered[i]) \in Nat
      /\ Len(delivered'[i]) = Len(delivered[i]) + 1
      /\ \A a \in 1 .. Len(delivered[i]) : delivered'[i][a] = delivered[i][a]
      /\ delivered'[i][Len(delivered[i]) + 1] = msg[i]
      /\ \A j \in InstanceId \ {i} : delivered'[j] = delivered[j]
  BY WorkAppends
<1>3. log' = log
  BY DEF RunWork
<1>4. \A a \in 1 .. Len(delivered[i]) : delivered[i][a].n \in Nat
  BY <1>1, DeliveredType
<1>5. delivered'[i][Len(delivered[i]) + 1].n = k
  BY <1>2
<1> HIDE DEF k
<1> HIDE DEF i
<1>6. /\ handed[i] \in Seq(Nat)
      /\ Len(handed[i]) = Len(delivered[i])
      /\ \A a \in 1 .. Len(handed[i]) : handed[i][a] < k
  <2>1. handed[i] = [a \in 1 .. Len(delivered[i]) |-> delivered[i][a].n]
    BY <1>1 DEF handed
  <2>2. handed[i] \in Seq(Nat) /\ Len(handed[i]) = Len(delivered[i])
    BY <1>2, <1>4, <2>1, IsASeq
  <2>3. QED
    BY <1>1, <2>1, <2>2
<1>7. Router!LastHanded(i) < k
  <2>1. CASE handed[i] = <<>>
    BY <1>1, <2>1 DEF Router!LastHanded, handed
  <2>2. CASE handed[i] # <<>>
    <3>1. Len(handed[i]) \in 1 .. Len(handed[i])
      BY <1>6, <2>2, EmptySeq, LenProperties
    <3>2. Router!LastHanded(i) = handed[i][Len(handed[i])]
      BY <2>2 DEF Router!LastHanded, handed
    <3>3. QED
      BY <1>6, <3>1, <3>2
  <2>3. QED
    BY <2>1, <2>2
<1>8. handed' = [handed EXCEPT ![i] = Append(handed[i], k)]
  <2>1. handed'[i] = Append(handed[i], k)
    <3>1. handed'[i] = [a \in 1 .. Len(delivered[i]) + 1 |->
                          delivered'[i][a].n]
      BY <1>1, <1>2 DEF handed
    <3>2. k \in Nat
      BY <1>1
    <3>3. /\ Append(handed[i], k) \in Seq(Nat)
          /\ Len(Append(handed[i], k)) = Len(delivered[i]) + 1
          /\ \A a \in 1 .. Len(delivered[i]) :
               Append(handed[i], k)[a] = handed[i][a]
          /\ Append(handed[i], k)[Len(delivered[i]) + 1] = k
      BY <1>6, <3>2, AppendProperties
    <3>4. \A a \in 1 .. Len(delivered[i]) + 1 :
            /\ delivered'[i][a].n = Append(handed[i], k)[a]
            /\ delivered'[i][a].n \in Nat
      <4>1. \A a \in 1 .. Len(delivered[i]) :
              handed[i][a] = delivered[i][a].n
        BY <1>1 DEF handed
      <4>2. \A a \in 1 .. Len(delivered[i]) :
              /\ delivered'[i][a].n = Append(handed[i], k)[a]
              /\ delivered'[i][a].n \in Nat
        BY <1>2, <1>4, <3>3, <4>1
      <4>3. delivered'[i][Len(delivered[i]) + 1].n
              = Append(handed[i], k)[Len(delivered[i]) + 1]
        BY <1>5, <3>3
      <4>4. \A a \in 1 .. Len(delivered[i]) + 1 :
              a \in 1 .. Len(delivered[i]) \/ a = Len(delivered[i]) + 1
        BY <1>2
      <4>5. QED
        BY <1>5, <3>2, <4>2, <4>3, <4>4
    <3>5. /\ handed'[i] \in Seq(Nat)
          /\ Len(handed'[i]) = Len(delivered[i]) + 1
      BY <1>2, <3>1, <3>4, IsASeq
    <3>6. QED
      BY <3>1, <3>3, <3>4, <3>5, SeqEqual
  <2>2. \A j \in InstanceId \ {i} : handed'[j] = handed[j]
    BY <1>2 DEF handed
  <2>3. QED
    BY <1>1, <2>1, <2>2 DEF handed
<1>9. Router!Hand(i, k)
  BY <1>1, <1>3, <1>7, <1>8 DEF Router!Hand, handed
<1>10. QED
  BY <1>1, <1>9 DEF i, k

(* The packet handler implements the lossy router: accepting a packet is   *)
(* Accept, a callback that reads its slot is Hand, and no other step       *)
(* changes what has been accepted or handed over.                          *)
THEOREM Implementation == Spec => ImplementsLossyRouter
<1>1. Init => Router!Init
  BY DEF Init, Router!Init
<1>2. TypeOK /\ OrderInv /\ [Next]_vars => [Router!Next]_Router!vars
  <2> SUFFICES ASSUME TypeOK, OrderInv, [Next]_vars
               PROVE  [Router!Next]_Router!vars
    OBVIOUS
  <2>1. ASSUME UNCHANGED <<log, delivered>> PROVE [Router!Next]_Router!vars
    BY <2>1 DEF Router!vars
  <2>2. ASSUME NEW pkt \in Packet, HandlePacket(pkt), UNCHANGED delivered
        PROVE  [Router!Next]_Router!vars
    <3>1. Route(pkt) \in InstanceId \cup {None}
      BY DEF Route, Packet
    <3>2. log' = Append(log, Route(pkt)) \/ log' = log
      BY <2>2 DEF HandlePacket
    <3>3. QED
      BY <2>2, <3>1, <3>2
         DEF Router!Next, Router!Accept, Router!vars
  <2>3. CASE RunWork
    <3>1. PICK i \in InstanceId, k \in 1 .. Len(log) : Router!Hand(i, k)
      <4> DEFINE i == Head(pending)
                 k == msg[i].n
      <4>1. i \in InstanceId /\ k \in 1 .. Len(log) /\ Router!Hand(i, k)
        BY <2>3, RunWorkHands
      <4> HIDE DEF k
      <4> HIDE DEF i
      <4>2. QED
        BY <4>1 DEF Router!Hand
    <3>2. QED
      BY <3>1 DEF Router!Next
  <2>4. CASE HandlePacketBuffers
    <3>1. UNCHANGED <<log, delivered>>
      BY <2>4
         DEF HandlePacketBuffers, HandleIncoming, HandleOutgoing, NullHandler,
             Overread, Dispatch, workVars
    <3>2. QED
      BY <2>1, <3>1
  <2>5. CASE MainStep \/ FinishWork \/ UNCHANGED vars
    BY <2>1, <2>5 DEF MainStep, FinishWork, vars
  <2>6. CASE Environment
    <3>1. /\ Len(log) + 1 \in Nat
          /\ {Cloud, CM4, Unknown} \subseteq InstanceId
          /\ Addressed \subseteq InstanceId
          /\ RequestId \subseteq Nat
      BY ConstantsAssumption, LenProperties DEF TypeOK, ConstantsAssumption
    <3>2. ASSUME NEW dest \in Addressed, NEW id \in RequestId,
                 CloudControl(dest, id)
          PROVE  [Router!Next]_Router!vars
      BY <2>2, <3>1, <3>2 DEF CloudControl, Packet, workVars
    <3>3. ASSUME CloudOther PROVE [Router!Next]_Router!vars
      BY <2>2, <3>1, <3>3 DEF CloudOther, Packet, workVars
    <3>4. ASSUME NEW i \in InstanceId \ {Cloud},
                 NEW r \in RequestId \cup {0}, PeripheralData(i, r)
          PROVE  [Router!Next]_Router!vars
      <4> DEFINE pkt == [n |-> Len(log) + 1, type |-> "outgoing", src |-> i,
                         dest |-> Cloud, control |-> FALSE, id |-> 0,
                         answers |-> r]
      <4>1. r \in Nat
        BY <3>1
      <4>2. pkt \in Packet
        BY <3>1, <4>1 DEF Packet
      <4>3. HandlePacket(pkt) /\ UNCHANGED delivered
        BY <3>4 DEF PeripheralData, workVars
      <4>4. QED
        BY <2>2, <4>2, <4>3
    <3>5. ASSUME NEW i \in Serial, NEW control \in BOOLEAN,
                 StartTokenLine(i, control)
          PROVE  [Router!Next]_Router!vars
      BY <2>2, <3>1, <3>5 DEF StartTokenLine, Packet, workVars
    <3>6. QED
      BY <2>6, <3>2, <3>3, <3>4, <3>5 DEF Environment, Unasked, Answering
  <2>7. QED
    BY <2>3, <2>4, <2>5, <2>6 DEF Next
<1>3. IInv => TypeOK /\ OrderInv
  BY DEF IInv, OrderInv
<1>4. QED
  BY <1>1, <1>2, <1>3, InvariantHolds, PTL
     DEF Spec, ImplementsLossyRouter, Router!Spec

-----------------------------------------------------------------------------
(* Requests.  A request id the application uses is new, and it is in one   *)
(* place at a time: in a packet of the queue, in the slot of the instance  *)
(* it was addressed to, or in a result.  It can be lost on the way, but it *)
(* is never in two of them, so it cannot be answered twice.                *)

(* Ids are given out once, *)
IssuedOnce ==
  /\ \A q \in issued : q.id > 0
  /\ \A p, q \in issued : p.id = q.id => p = q

(* the queue holds an id at most once, in the packet it was issued with,   *)
QueuedOnce ==
  /\ \A a \in 1 .. Len(msgq) : msgq[a].id > 0 =>
        /\ msgq[a].type = "incoming"
        /\ [id |-> msgq[a].id, dest |-> msgq[a].dest] \in issued
  /\ \A a, b \in 1 .. Len(msgq) :
        msgq[a].id > 0 /\ msgq[a].id = msgq[b].id => a = b

(* an id in a slot was issued for its instance and left the queue, *)
SlotAfterQueue ==
  \A i \in InstanceId : result[i] > 0 =>
    /\ [id |-> result[i], dest |-> i] \in issued
    /\ \A a \in 1 .. Len(msgq) : msgq[a].id # result[i]

(* and one in a result has left queue and slot.                            *)
ReplyAfterSlot ==
  \A a \in 1 .. Len(replies) :
    /\ replies[a].id > 0
    /\ \A b \in 1 .. Len(msgq) : msgq[b].id # replies[a].id
    /\ \A i \in InstanceId : result[i] # replies[a].id

RequestInv ==
  /\ IssuedOnce
  /\ QueuedOnce
  /\ SlotAfterQueue
  /\ ReplyAfterSlot
  /\ OneReplyPerRequest
  /\ ReplyFromAddressee

(* The parts of a queue that lost its first packet. *)
LEMMA TailFacts ==
  ASSUME TypeOK, msgq # <<>>, msgq' = Tail(msgq)
  PROVE  /\ Head(msgq) \in Packet
         /\ 1 \in 1 .. Len(msgq) /\ Head(msgq) = msgq[1]
         /\ \A a \in 1 .. Len(msgq') : /\ a \in Nat \ {0}
                                       /\ a + 1 \in 1 .. Len(msgq)
                                       /\ msgq'[a] = msgq[a + 1]
<1>1. msgq \in Seq(Packet)
  BY DEF TypeOK
<1>2. /\ Len(msgq) \in Nat \ {0}
      /\ Head(msgq) = msgq[1]
      /\ Head(msgq) \in Packet
      /\ Len(msgq') = Len(msgq) - 1
  BY <1>1, HeadTailProperties, EmptySeq, LenProperties
<1>3. QED
  BY <1>1, <1>2, HeadTailProperties

(* A queue that lost its first packet no longer holds the id of it. *)
LEMMA QueueLosesHead ==
  ASSUME TypeOK, RequestInv, msgq # <<>>, msgq' = Tail(msgq), issued' = issued
  PROVE  /\ QueuedOnce'
         /\ Head(msgq).id > 0 =>
              /\ Head(msgq).type = "incoming"
              /\ [id |-> Head(msgq).id, dest |-> Head(msgq).dest] \in issued
              /\ \A a \in 1 .. Len(msgq') : msgq'[a].id # Head(msgq).id
              /\ \A a \in 1 .. Len(replies) : replies[a].id # Head(msgq).id
<1>1. /\ 1 \in 1 .. Len(msgq) /\ Head(msgq) = msgq[1]
      /\ \A a \in 1 .. Len(msgq') : /\ a \in Nat \ {0}
                                    /\ a + 1 \in 1 .. Len(msgq)
                                    /\ msgq'[a] = msgq[a + 1]
  BY TailFacts
<1>2. QueuedOnce'
  <2>1. \A a \in 1 .. Len(msgq') : msgq'[a].id > 0 =>
          /\ msgq'[a].type = "incoming"
          /\ [id |-> msgq'[a].id, dest |-> msgq'[a].dest] \in issued'
    BY <1>1 DEF RequestInv, QueuedOnce
  <2>2. \A a, b \in 1 .. Len(msgq') :
          msgq'[a].id > 0 /\ msgq'[a].id = msgq'[b].id => a = b
    BY <1>1 DEF RequestInv, QueuedOnce
  <2>3. QED
    BY <2>1, <2>2 DEF QueuedOnce
<1>3. ASSUME Head(msgq).id > 0, NEW a \in 1 .. Len(msgq'),
             msgq'[a].id = Head(msgq).id
      PROVE  FALSE
  <2>1. a + 1 = 1
    BY <1>1, <1>3 DEF RequestInv, QueuedOnce
  <2>2. QED
    BY <1>1, <2>1
<1>4. Head(msgq).id > 0 =>
        /\ Head(msgq).type = "incoming"
        /\ [id |-> Head(msgq).id, dest |-> Head(msgq).dest] \in issued
        /\ \A a \in 1 .. Len(replies) : replies[a].id # Head(msgq).id
  BY <1>1 DEF RequestInv, QueuedOnce, ReplyAfterSlot
<1>5. QED
  BY <1>2, <1>3, <1>4

(* And what else is said of ids stays true. *)
LEMMA TailKeepsRequests ==
  ASSUME TypeOK, RequestInv, msgq # <<>>, msgq' = Tail(msgq),
         UNCHANGED <<issued, result, replies>>
  PROVE  RequestInv'
<1>1. \A a \in 1 .. Len(msgq') : /\ a + 1 \in 1 .. Len(msgq)
                                /\ msgq'[a] = msgq[a + 1]
  BY TailFacts
<1>2. QueuedOnce'
  BY QueueLosesHead
<1>3. SlotAfterQueue' /\ ReplyAfterSlot'
  BY <1>1 DEF RequestInv, SlotAfterQueue, ReplyAfterSlot
<1>4. QED
  BY <1>2, <1>3
     DEF RequestInv, IssuedOnce, OneReplyPerRequest, ReplyFromAddressee

(* An accepted packet is behind the others. *)
LEMMA AppendFacts ==
  ASSUME TypeOK, NEW pkt \in Packet, QueueHasRoom, HandlePacket(pkt)
  PROVE  /\ Len(msgq) + 1 \in 1 .. Len(msgq')
         /\ msgq'[Len(msgq) + 1] = pkt
         /\ \A a \in 1 .. Len(msgq') :
              \/ a \in 1 .. Len(msgq) /\ msgq'[a] = msgq[a]
              \/ a = Len(msgq) + 1 /\ msgq'[a] = pkt
<1>1. msgq \in Seq(Packet) /\ msgq' = Append(msgq, pkt)
  BY DEF HandlePacket, Enqueued, TypeOK
<1>2. /\ Len(msgq) \in Nat
      /\ Len(msgq') = Len(msgq) + 1
      /\ \A a \in 1 .. Len(msgq) : msgq'[a] = msgq[a]
      /\ msgq'[Len(msgq) + 1] = pkt
  BY <1>1, AppendProperties, LenProperties
<1>3. QED
  BY <1>2

(* An accepted packet without a request id changes none of this.           *)
LEMMA PlainKeepsRequests ==
  ASSUME TypeOK, RequestInv, NEW pkt \in Packet, pkt.id = 0,
         HandlePacket(pkt), UNCHANGED <<issued, result, replies>>
  PROVE  RequestInv'
<1>1. CASE ~ QueueHasRoom
  <2>1. UNCHANGED <<msgq, issued, result, replies>>
    BY <1>1 DEF HandlePacket
  <2>2. QED
    BY <2>1
       DEF RequestInv, IssuedOnce, QueuedOnce, SlotAfterQueue,
           ReplyAfterSlot, OneReplyPerRequest, ReplyFromAddressee
<1>2. CASE QueueHasRoom
  <2>1. \A a \in 1 .. Len(msgq') :
           \/ a \in 1 .. Len(msgq) /\ msgq'[a] = msgq[a]
           \/ msgq'[a].id = 0
    BY <1>2, AppendFacts
  <2>2. QueuedOnce'
    BY <2>1 DEF RequestInv, QueuedOnce
  <2>3. SlotAfterQueue' /\ ReplyAfterSlot'
    BY <2>1 DEF RequestInv, SlotAfterQueue, ReplyAfterSlot
  <2>4. QED
    BY <2>2, <2>3
       DEF RequestInv, IssuedOnce, OneReplyPerRequest, ReplyFromAddressee
<1>3. QED
  BY <1>1, <1>2

(* A request that is sent and accepted has an id nobody has used.          *)
LEMMA RequestKeepsRequests ==
  ASSUME TypeOK, RequestInv, NEW dest \in InstanceId, NEW id \in Nat,
         CloudControl(dest, id)
  PROVE  RequestInv'
<1> DEFINE pkt == [n |-> Len(log) + 1, type |-> "incoming", src |-> Cloud,
                   dest |-> dest, control |-> TRUE, id |-> id,
                   answers |-> 0]
           q == [id |-> id, dest |-> dest]
<1>1. pkt \in Packet
  BY ConstantsAssumption, LenProperties DEF ConstantsAssumption, TypeOK, Packet
<1>2. /\ HandlePacket(pkt)
      /\ MayIssue(dest, id)
      /\ issued' = IF id = 0 THEN issued ELSE issued \cup {q}
      /\ UNCHANGED <<result, replies>>
  BY DEF CloudControl
<1>3. pkt.id = id /\ pkt.dest = dest /\ pkt.type = "incoming"
  OBVIOUS
<1> HIDE DEF pkt
<1>4. CASE id = 0
  BY <1>1, <1>2, <1>3, <1>4, PlainKeepsRequests
<1>5. CASE id # 0
  <2>1. \A p \in issued : p.id # id
    BY <1>2, <1>5 DEF MayIssue
  <2>2. /\ issued' = issued \cup {q}
        /\ q.id = id /\ id > 0
    BY <1>2, <1>5
  <2>3. IssuedOnce'
    BY <2>1, <2>2 DEF RequestInv, IssuedOnce
  <2>4. /\ \A a \in 1 .. Len(msgq) : msgq[a].id # id
        /\ \A i \in InstanceId : result[i] # id
        /\ \A a \in 1 .. Len(replies) : replies[a].id # id
    BY <2>1, <2>2
       DEF RequestInv, QueuedOnce, SlotAfterQueue, ReplyFromAddressee
  <2>5. \A a \in 1 .. Len(msgq') :
          \/ a \in 1 .. Len(msgq) /\ msgq'[a] = msgq[a]
          \/ a = Len(msgq) + 1 /\ msgq'[a] = pkt
    <3>1. CASE QueueHasRoom
      BY <1>1, <1>2, <3>1, AppendFacts
    <3>2. CASE ~ QueueHasRoom
      BY <1>2, <3>2 DEF HandlePacket
    <3>3. QED
      BY <3>1, <3>2
  <2>6. QueuedOnce'
    <3>1. \A a \in 1 .. Len(msgq') : msgq'[a].id > 0 =>
            /\ msgq'[a].type = "incoming"
            /\ [id |-> msgq'[a].id, dest |-> msgq'[a].dest] \in issued'
      BY <1>3, <2>2, <2>5 DEF RequestInv, QueuedOnce
    <3>2. \A a, b \in 1 .. Len(msgq') :
            msgq'[a].id > 0 /\ msgq'[a].id = msgq'[b].id => a = b
      BY <1>3, <2>4, <2>5 DEF RequestInv, QueuedOnce
    <3>3. QED
      BY <3>1, <3>2 DEF QueuedOnce
  <2>7. SlotAfterQueue' /\ ReplyAfterSlot'
    BY <1>2, <1>3, <2>2, <2>4, <2>5
       DEF RequestInv, SlotAfterQueue, ReplyAfterSlot
  <2>8. OneReplyPerRequest' /\ ReplyFromAddressee'
    BY <1>2, <2>2 DEF RequestInv, OneReplyPerRequest, ReplyFromAddressee
  <2>9. QED
    BY <2>3, <2>6, <2>7, <2>8 DEF RequestInv
<1>6. QED
  BY <1>4, <1>5

(* The packet thread moves an id from the queue to the slot of the         *)
(* instance it was issued for.                                             *)
LEMMA IncomingKeepsRequests ==
  ASSUME TypeOK, RequestInv, HandlePacketBuffers,
         HandleIncoming(Head(msgq)), ~ Overread, Head(msgq).control,
         Head(msgq).dest \in registered
  PROVE  RequestInv'
<1> DEFINE pkt == Head(msgq)
<1>1. /\ msgq # <<>>
      /\ msgq' = Tail(msgq)
      /\ result' = [result EXCEPT ![pkt.dest] = pkt.id]
      /\ UNCHANGED <<issued, replies>>
  BY DEF HandlePacketBuffers, HandleIncoming
<1>2. /\ pkt \in Packet
      /\ pkt.id \in Nat
      /\ result \in [InstanceId -> Nat]
      /\ \A a \in 1 .. Len(msgq') : /\ a + 1 \in 1 .. Len(msgq)
                                    /\ msgq'[a] = msgq[a + 1]
  BY <1>1, TailFacts DEF TypeOK, Packet
<1>3. \A i \in InstanceId :
         \/ i = pkt.dest /\ result'[i] = pkt.id
         \/ result'[i] = result[i]
  BY <1>1, <1>2
<1>4. IssuedOnce' /\ OneReplyPerRequest' /\ ReplyFromAddressee'
  BY <1>1 DEF RequestInv, IssuedOnce, OneReplyPerRequest, ReplyFromAddressee
<1>5. /\ QueuedOnce'
      /\ pkt.id > 0 =>
           /\ [id |-> pkt.id, dest |-> pkt.dest] \in issued
           /\ \A a \in 1 .. Len(msgq') : msgq'[a].id # pkt.id
           /\ \A a \in 1 .. Len(replies) : replies[a].id # pkt.id
  BY <1>1, QueueLosesHead
<1> HIDE DEF pkt
<1>6. SlotAfterQueue'
  BY <1>1, <1>2, <1>3, <1>5 DEF RequestInv, SlotAfterQueue
<1>7. ReplyAfterSlot'
  BY <1>1, <1>2, <1>3, <1>5 DEF RequestInv, ReplyAfterSlot
<1>8. QED
  BY <1>4, <1>5, <1>6, <1>7 DEF RequestInv

(* A packet that takes the request id out of the slot of its source makes  *)
(* it the id of a result: no other slot has it, since it was issued for    *)
(* one instance only.                                                      *)
LEMMA ResultKeepsRequests ==
  ASSUME TypeOK, RequestInv, HandlePacketBuffers,
         NEW i \in InstanceId, result[i] > 0,
         result' = ResultTaken(i),
         NEW r \in Reply, r.id = result[i], r.src = i,
         replies' = Append(replies, r)
  PROVE  RequestInv'
<1>1. /\ msgq # <<>>
      /\ msgq' = Tail(msgq)
      /\ issued' = issued
      /\ result \in [InstanceId -> Nat]
      /\ replies \in Seq(Reply)
  BY DEF HandlePacketBuffers, HandleIncoming, HandleOutgoing, NullHandler,
         Overread, TypeOK
<1>2. \A a \in 1 .. Len(msgq') : /\ a + 1 \in 1 .. Len(msgq)
                                /\ msgq'[a] = msgq[a + 1]
  BY <1>1, TailFacts
<1>3. /\ result'[i] = 0
      /\ \A j \in InstanceId \ {i} : result'[j] = result[j]
  BY <1>1 DEF ResultTaken
<1>4. \A a \in 1 .. Len(replies') :
         \/ a \in 1 .. Len(replies) /\ replies'[a] = replies[a]
         \/ a = Len(replies) + 1 /\ replies'[a] = r
  <2>1. /\ Len(replies) \in Nat
        /\ Len(replies') = Len(replies) + 1
        /\ \A a \in 1 .. Len(replies) : replies'[a] = replies[a]
        /\ replies'[Len(replies) + 1] = r
    BY <1>1, AppendProperties, LenProperties
  <2>2. QED
    BY <2>1
<1>5. /\ [id |-> result[i], dest |-> i] \in issued
      /\ \A a \in 1 .. Len(msgq) : msgq[a].id # result[i]
      /\ \A a \in 1 .. Len(replies) : replies[a].id # result[i]
  BY DEF RequestInv, SlotAfterQueue, ReplyAfterSlot
<1>6. ASSUME NEW j \in InstanceId \ {i} PROVE result[j] # result[i]
  <2> SUFFICES ASSUME result[j] = result[i] PROVE FALSE
    OBVIOUS
  <2>1. [id |-> result[i], dest |-> j] \in issued
    BY DEF RequestInv, SlotAfterQueue
  <2>2. [id |-> result[i], dest |-> j] = [id |-> result[i], dest |-> i]
    BY <1>5, <2>1 DEF RequestInv, IssuedOnce
  <2>3. QED
    BY <2>2
<1>7. QueuedOnce'
  BY <1>1, QueueLosesHead
<1>8. SlotAfterQueue'
  BY <1>1, <1>2, <1>3 DEF RequestInv, SlotAfterQueue
<1>9. ReplyAfterSlot'
  <2> SUFFICES ASSUME NEW a \in 1 .. Len(replies')
               PROVE  /\ replies'[a].id > 0
                      /\ \A b \in 1 .. Len(msgq') :
                           msgq'[b].id # replies'[a].id
                      /\ \A j \in InstanceId : result'[j] # replies'[a].id
    BY DEF ReplyAfterSlot
  <2>1. CASE a \in 1 .. Len(replies) /\ replies'[a] = replies[a]
    <3>1. replies[a].id > 0
      BY <2>1 DEF RequestInv, ReplyAfterSlot
    <3>2. QED
      BY <1>2, <1>3, <2>1, <3>1 DEF RequestInv, ReplyAfterSlot
  <2>2. CASE replies'[a] = r
    <3>1. replies'[a].id = result[i]
      BY <2>2
    <3>2. \A j \in InstanceId : result'[j] # result[i]
      BY <1>3, <1>6
    <3>3. \A b \in 1 .. Len(msgq') : msgq'[b].id # result[i]
      BY <1>2, <1>5
    <3>4. QED
      BY <3>1, <3>2, <3>3
  <2>3. QED
    BY <1>4, <2>1, <2>2
<1>10. OneReplyPerRequest'
  <2>1. \A a, b \in 1 .. Len(replies) :
          replies[a].id = replies[b].id => a = b
    BY DEF RequestInv, OneReplyPerRequest
  <2>2. QED
    BY <1>4, <1>5, <2>1 DEF OneReplyPerRequest
<1>11. ReplyFromAddressee'
  BY <1>1, <1>4, <1>5 DEF RequestInv, ReplyFromAddressee
<1>12. IssuedOnce'
  BY <1>1 DEF RequestInv, IssuedOnce
<1>13. QED
  BY <1>7, <1>8, <1>9, <1>10, <1>11, <1>12 DEF RequestInv

LEMMA HandleKeepsRequests ==
  ASSUME TypeOK, RequestInv, HandlePacketBuffers
  PROVE  RequestInv'
<1> DEFINE pkt == Head(msgq)
<1>1. /\ msgq # <<>>
      /\ msgq' = Tail(msgq)
      /\ issued' = issued
      /\ \/ pkt.type = "incoming" /\ HandleIncoming(pkt)
         \/ pkt.type = "outgoing" /\ HandleOutgoing(pkt)
  BY DEF HandlePacketBuffers
<1>2. CASE UNCHANGED <<result, replies>>
  BY <1>1, <1>2, TailKeepsRequests
<1>3. CASE HandleIncoming(pkt)
  <2>1. CASE pkt.control /\ pkt.dest \in registered /\ ~ Overread
    BY <1>3, <2>1, IncomingKeepsRequests
  <2>2. CASE ~ (pkt.control /\ pkt.dest \in registered) \/ Overread
    BY <1>2, <1>3, <2>2 DEF HandleIncoming, NullHandler, Overread
  <2>3. QED
    BY <2>1, <2>2
<1>4. CASE HandleOutgoing(pkt)
  <2> DEFINE id == PendingRequest(pkt.src)
             r == [id |-> id, src |-> pkt.src, answers |-> pkt.answers]
  <2>1. pkt.src \in InstanceId /\ r \in Reply /\ id \in Nat
    BY <1>1, TailFacts DEF TypeOK, Packet, Reply, PendingRequest
  <2>2. CASE /\ pkt.src \in registered /\ pkt.dest \in registered
             /\ IsRequest(id)
    <3>1. result' = ResultTaken(pkt.src) /\ replies' = Append(replies, r)
      BY <1>4, <2>2 DEF HandleOutgoing
    <3>2. /\ result[pkt.src] > 0
          /\ r.id = result[pkt.src]
          /\ r.src = pkt.src
      BY <2>2 DEF IsRequest, PendingRequest
    <3> HIDE DEF r, id
    <3>3. QED
      BY <2>1, <3>1, <3>2, ResultKeepsRequests
  <2>3. CASE ~ /\ pkt.src \in registered /\ pkt.dest \in registered
               /\ IsRequest(id)
    BY <1>2, <1>4, <2>3 DEF HandleOutgoing, NullHandler
  <2>4. QED
    BY <2>2, <2>3
<1>5. QED
  BY <1>1, <1>3, <1>4

(* Registration empties a slot. *)
LEMMA MainKeepsRequests ==
  ASSUME TypeOK, RequestInv, MainStep
  PROVE  RequestInv'
<1>1. UNCHANGED <<msgq, issued, replies>>
  BY DEF MainStep
<1>2. \A i \in InstanceId : result'[i] = result[i] \/ result'[i] = 0
  BY DEF MainStep, TypeOK
<1>3. SlotAfterQueue'
  BY <1>1, <1>2 DEF RequestInv, SlotAfterQueue
<1>4. ReplyAfterSlot'
  <2>1. \A a \in 1 .. Len(replies) : replies[a].id > 0
    BY DEF RequestInv, ReplyAfterSlot
  <2>2. QED
    BY <1>1, <1>2, <2>1 DEF RequestInv, ReplyAfterSlot
<1>5. QED
  BY <1>1, <1>3, <1>4
     DEF RequestInv, IssuedOnce, QueuedOnce, OneReplyPerRequest,
         ReplyFromAddressee

LEMMA EnvironmentKeepsRequests ==
  ASSUME TypeOK, RequestInv, Environment
  PROVE  RequestInv'
<1>1. /\ Len(log) + 1 \in Nat
      /\ {Cloud, CM4, Unknown} \subseteq InstanceId
      /\ Addressed \subseteq InstanceId
      /\ RequestId \subseteq Nat
  BY ConstantsAssumption, LenProperties DEF TypeOK, ConstantsAssumption
<1>2. ASSUME NEW dest \in Addressed, NEW id \in RequestId,
             CloudControl(dest, id)
      PROVE  RequestInv'
  BY <1>1, <1>2, RequestKeepsRequests
<1>3. ASSUME CloudOther PROVE RequestInv'
  <2> DEFINE pkt == [n |-> Len(log) + 1, type |-> "incoming", src |-> Cloud,
                     dest |-> Cloud, control |-> FALSE, id |-> 0,
                     answers |-> 0]
  <2>1. pkt \in Packet /\ pkt.id = 0
    BY <1>1 DEF Packet
  <2>2. HandlePacket(pkt) /\ UNCHANGED <<issued, result, replies>>
    BY <1>3 DEF CloudOther, peripheralVars
  <2>3. QED
    BY <2>1, <2>2, PlainKeepsRequests
<1>4. ASSUME NEW i \in InstanceId \ {Cloud}, NEW r \in RequestId \cup {0},
             PeripheralData(i, r)
      PROVE  RequestInv'
  <2> DEFINE pkt == [n |-> Len(log) + 1, type |-> "outgoing", src |-> i,
                     dest |-> Cloud, control |-> FALSE, id |-> 0,
                     answers |-> r]
  <2>1. pkt \in Packet /\ pkt.id = 0
    BY <1>1 DEF Packet
  <2>2. HandlePacket(pkt) /\ UNCHANGED <<issued, result, replies>>
    BY <1>4 DEF PeripheralData
  <2>3. QED
    BY <2>1, <2>2, PlainKeepsRequests
<1>5. ASSUME NEW i \in Serial, NEW control \in BOOLEAN,
             StartTokenLine(i, control)
      PROVE  RequestInv'
  <2> DEFINE pkt == [n |-> Len(log) + 1, type |-> "incoming", src |-> CM4,
                     dest |-> Unknown, control |-> control, id |-> 0,
                     answers |-> 0]
  <2>1. pkt \in Packet /\ pkt.id = 0
    BY <1>1 DEF Packet
  <2>2. HandlePacket(pkt) /\ UNCHANGED <<issued, result, replies>>
    BY <1>5 DEF StartTokenLine, peripheralVars
  <2>3. QED
    BY <2>1, <2>2, PlainKeepsRequests
<1>6. QED
  BY <1>2, <1>3, <1>4, <1>5 DEF Environment, Unasked, Answering

(* Every id is in one place at a time. *)
THEOREM RequestsHold == Spec => []RequestInv
<1>1. Init => RequestInv
  <2> SUFFICES ASSUME Init PROVE RequestInv
    OBVIOUS
  <2>1. /\ \A a \in 1 .. Len(<<>>) : FALSE
        /\ msgq = <<>> /\ replies = <<>> /\ issued = {}
        /\ \A i \in InstanceId : result[i] = 0
    BY DEF Init
  <2>2. QED
    BY <2>1
       DEF RequestInv, IssuedOnce, QueuedOnce, SlotAfterQueue,
           ReplyAfterSlot, OneReplyPerRequest, ReplyFromAddressee
<1>2. TypeOK /\ RequestInv /\ [Next]_vars => RequestInv'
  <2> SUFFICES ASSUME TypeOK, RequestInv, [Next]_vars PROVE RequestInv'
    OBVIOUS
  <2>1. CASE RunWork \/ FinishWork \/ UNCHANGED vars
    <3>1. UNCHANGED <<msgq, result, issued, replies>>
      BY <2>1 DEF RunWork, FinishWork, vars
    <3>2. QED
      BY <3>1
         DEF RequestInv, IssuedOnce, QueuedOnce, SlotAfterQueue,
             ReplyAfterSlot, OneReplyPerRequest, ReplyFromAddressee
  <2>2. QED
    BY <2>1, MainKeepsRequests, HandleKeepsRequests,
       EnvironmentKeepsRequests
       DEF Next
<1>3. QED
  BY <1>1, <1>2, TypeCorrect, PTL DEF Spec

(* A request is answered at most once, although its id can be overwritten  *)
(* in the slot, answered late or given to a packet that answers another.   *)
THEOREM AnsweredOnce == Spec => []OneReplyPerRequest
<1>1. RequestInv => OneReplyPerRequest
  BY DEF RequestInv
<1>2. QED
  BY <1>1, RequestsHold, PTL

(* And its result is built from a packet of the instance it was for.       *)
THEOREM AnsweredByAddressee == Spec => []ReplyFromAddressee
<1>1. RequestInv => ReplyFromAddressee
  BY DEF RequestInv
<1>2. QED
  BY <1>1, RequestsHold, PTL

=============================================================================
