-------------------------- MODULE RouterSystemProofs --------------------------
(***************************************************************************)
(* What the packet handler promises it still promises inside the system,   *)
(* once main is through only packets for strangers find no handler, and an *)
(* application that waits for its results gets the answers to its requests.*)
(***************************************************************************)
EXTENDS RouterSystem, PacketHandlerProofs

(* What the application put into the socket. *)
Sent == [dest : Addressed \ {Unknown}, id : RequestId \ {0}]

InboxOK == inbox \in Seq(Sent)

-----------------------------------------------------------------------------
(* Every step of the system is a step of the packet handler or none of it. *)

LEMMA SystemStep ==
  ASSUME InboxOK, [SysNext]_allVars
  PROVE  [Next]_vars
<1>1. CASE UNCHANGED allVars
  BY <1>1 DEF allVars
<1>2. CASE MainGoesOn
  BY <1>2 DEF MainGoesOn, Next
<1>3. CASE \/ MainReturns \/ LinkLost \/ Wake \/ NothingThere
           \/ \E dest \in Addressed \ {Unknown}, id \in RequestId \ {0} :
                 CloudSends(dest, id)
  BY <1>3 DEF MainReturns, LinkLost, Wake, NothingThere, CloudSends
<1>4. CASE ReadPacket
  <2>1. Head(inbox) \in Sent
    BY <1>4, HeadTailProperties DEF ReadPacket, InboxOK
  <2>2. /\ CloudControl(Head(inbox).dest, Head(inbox).id)
        /\ Head(inbox).dest \in Addressed
        /\ Head(inbox).id \in RequestId
    BY <1>4, <2>1 DEF ReadPacket, Sent
  <2>3. QED
    BY <2>2 DEF Next, Environment, Unasked
<1>5. CASE ReadNothing
  BY <1>5, SystemAssumption
     DEF SystemAssumption, ReadNothing, Next, Environment, Unasked
<1>6. CASE PacketThread \/ StartWork \/ EndWork
  BY <1>6 DEF PacketThread, StartWork, EndWork, Next
<1>7. ASSUME NEW i \in InstanceId \ {Cloud}, NEW r \in RequestId \cup {0},
             PeripheralSpeaks(i, r)
      PROVE  Next
  BY <1>7 DEF PeripheralSpeaks, Next, Environment, Unasked, Answering
<1>8. ASSUME NEW i \in Serial, NEW control \in BOOLEAN,
             PeripheralBabbles(i, control)
      PROVE  Next
  BY <1>8 DEF PeripheralBabbles, Next, Environment, Unasked
<1>9. QED
  BY <1>1, <1>2, <1>3, <1>4, <1>5, <1>6, <1>7, <1>8 DEF SysNext, Reader

LEMMA InboxStep ==
  ASSUME InboxOK, [SysNext]_allVars
  PROVE  InboxOK'
<1>1. ASSUME NEW dest \in Addressed \ {Unknown}, NEW id \in RequestId \ {0},
             CloudSends(dest, id)
      PROVE  InboxOK'
  <2>1. [dest |-> dest, id |-> id] \in Sent
    BY DEF Sent
  <2>2. QED
    BY <1>1, <2>1 DEF CloudSends, InboxOK
<1>2. CASE ReadPacket
  BY <1>2, HeadTailProperties DEF ReadPacket, InboxOK
<1>3. CASE inbox' = inbox
  BY <1>3 DEF InboxOK
<1>4. ASSUME \/ UNCHANGED allVars \/ MainGoesOn \/ MainReturns \/ LinkLost
             \/ Wake \/ NothingThere \/ ReadNothing \/ PacketThread
             \/ StartWork \/ EndWork
      PROVE  inbox' = inbox
  BY <1>4
     DEF allVars, systemVars, MainGoesOn, StartCloud, StartPeripheral,
         MainReturns, LinkLost, Wake, NothingThere, ReadNothing,
         PacketThread, StartWork, EndWork
<1>5. ASSUME NEW i \in InstanceId \ {Cloud}, NEW r \in RequestId \cup {0},
             PeripheralSpeaks(i, r)
      PROVE  inbox' = inbox
  BY <1>5 DEF PeripheralSpeaks, systemVars
<1>6. ASSUME NEW i \in Serial, NEW control \in BOOLEAN,
             PeripheralBabbles(i, control)
      PROVE  inbox' = inbox
  BY <1>6 DEF PeripheralBabbles, systemVars
<1>7. QED
  BY <1>1, <1>2, <1>3, <1>4, <1>5, <1>6 DEF SysNext, Reader

LEMMA InboxInit == SysInit => InboxOK
BY DEF SysInit, InboxOK

(* The system implements the packet handler: main's failures, the loss of  *)
(* the connection and the sharing of the processor add nothing to what its *)
(* environment may do.                                                     *)
THEOREM SystemImplements == SysSpec => Spec
<1>1. SysInit => Init
  BY DEF SysInit
<1>2. QED
  BY <1>1, SystemStep, InboxStep, InboxInit, PTL DEF SysSpec, Spec

(* So the system, too, hands packets over in order and once,               *)
THEOREM SystemKeepsOrder == SysSpec => ImplementsLossyRouter
BY SystemImplements, Implementation, PTL

(* and a request is answered at most once, by the instance it was for.     *)
THEOREM SystemAnswersOnce ==
  SysSpec => [](OneReplyPerRequest /\ ReplyFromAddressee)
BY SystemImplements, AnsweredOnce, AnsweredByAddressee, PTL

-----------------------------------------------------------------------------
(* Missing handlers. *)

(* The queue holds the packets accepted last, in the order of acceptance. *)
QueueIsEndOfLog ==
  /\ Len(msgq) <= Len(log)
  /\ \A a \in 1 .. Len(msgq) : log[LastTaken + a] = Route(msgq[a])

(* Only what main started speaks, and only to what main registers. *)
SpeakersRegistrable ==
  /\ started \subseteq Registrable
  /\ \A a \in 1 .. Len(msgq) :
       msgq[a].type = "outgoing" => {msgq[a].src, msgq[a].dest} \subseteq Registrable

HandlersInv ==
  /\ QueueIsEndOfLog
  /\ SpeakersRegistrable
  /\ NullOnlyForStrangers

(* A packet the queue takes is the last of both, *)
LEMMA AcceptKeepsHandlers ==
  ASSUME TypeOK, HandlersInv, NEW pkt \in Packet, HandlePacket(pkt),
         pkt.type = "outgoing" => {pkt.src, pkt.dest} \subseteq Registrable,
         fault = "none", UNCHANGED <<boot, started>>
  PROVE  HandlersInv'
<1>1. NullOnlyForStrangers'
  BY DEF HandlePacket, NullOnlyForStrangers
<1>2. CASE ~ QueueHasRoom
  <2>1. UNCHANGED <<msgq, log>>
    BY <1>2 DEF HandlePacket
  <2>2. QED
    BY <1>1, <2>1
       DEF HandlersInv, QueueIsEndOfLog, SpeakersRegistrable, LastTaken, Route
<1>3. CASE QueueHasRoom
  <2>1. \A a \in 1 .. Len(msgq') :
          \/ a \in 1 .. Len(msgq) /\ msgq'[a] = msgq[a]
          \/ a = Len(msgq) + 1 /\ msgq'[a] = pkt
    BY <1>3, AppendFacts
  <2>2. /\ Len(msgq) \in Nat
        /\ Len(msgq') = Len(msgq) + 1
    BY <1>3, AppendProperties, LenProperties DEF HandlePacket, Enqueued, TypeOK
  <2>3. Route(pkt) \in InstanceId \cup {None}
    BY DEF Route, Packet
  <2>4. /\ Len(log) \in Nat
        /\ Len(log') = Len(log) + 1
        /\ log'[Len(log) + 1] = Route(pkt)
        /\ \A k \in 1 .. Len(log) : log'[k] = log[k]
    <3>1. log \in Seq(InstanceId \cup {None}) /\ log' = Append(log, Route(pkt))
      BY <1>3 DEF HandlePacket, TypeOK
    <3>2. QED
      BY <2>3, <3>1, AppendProperties, LenProperties
  <2>5. LastTaken' = LastTaken /\ LastTaken \in Nat
    BY <2>2, <2>4 DEF HandlersInv, QueueIsEndOfLog, LastTaken
  <2>6. \A a \in 1 .. Len(msgq') : log'[LastTaken + a] = Route(msgq'[a])
    <3> TAKE a \in 1 .. Len(msgq')
    <3>1. CASE a \in 1 .. Len(msgq) /\ msgq'[a] = msgq[a]
      <4>1. LastTaken + a \in 1 .. Len(log)
        BY <2>2, <2>4, <2>5, <3>1 DEF LastTaken
      <4>2. log[LastTaken + a] = Route(msgq[a])
        BY <3>1 DEF HandlersInv, QueueIsEndOfLog
      <4>3. QED
        BY <2>4, <3>1, <4>1, <4>2
    <3>2. CASE a = Len(msgq) + 1 /\ msgq'[a] = pkt
      <4>1. LastTaken + a = Len(log) + 1
        BY <2>2, <2>4, <3>2 DEF LastTaken
      <4>2. QED
        BY <2>4, <3>2, <4>1
    <3>3. QED
      BY <2>1, <3>1, <3>2
  <2>7. QueueIsEndOfLog'
    BY <2>2, <2>4, <2>5, <2>6 DEF HandlersInv, QueueIsEndOfLog, Route
  <2>8. SpeakersRegistrable'
    <3>1. Registrable' = Registrable
      BY DEF Registrable
    <3>2. started' \subseteq Registrable
      BY DEF HandlersInv, SpeakersRegistrable
    <3>3. \A a \in 1 .. Len(msgq') : msgq'[a].type = "outgoing"
             => {msgq'[a].src, msgq'[a].dest} \subseteq Registrable
      BY <2>1 DEF HandlersInv, SpeakersRegistrable
    <3>4. QED
      BY <3>1, <3>2, <3>3 DEF SpeakersRegistrable
  <2>9. QED
    BY <1>1, <2>7, <2>8 DEF HandlersInv
<1>4. QED
  BY <1>2, <1>3

(* and the one the packet thread takes is the one after LastTaken: when    *)
(* main is through it finds its handlers unless it is for a stranger.      *)
LEMMA HandleKeepsHandlers ==
  ASSUME TypeOK, UnregisteredIsEmpty, HandlersInv, HandlePacketBuffers
  PROVE  HandlersInv'
<1> DEFINE pkt == Head(msgq)
<1>1. /\ fault = "none"
      /\ msgq # <<>>
      /\ msgq' = Tail(msgq)
      /\ UNCHANGED <<boot, started, registered, log>>
      /\ \/ pkt.type = "incoming" /\ HandleIncoming(pkt)
         \/ pkt.type = "outgoing" /\ HandleOutgoing(pkt)
  BY DEF HandlePacketBuffers
<1>2. /\ pkt \in Packet
      /\ 1 \in 1 .. Len(msgq) /\ pkt = msgq[1]
      /\ \A a \in 1 .. Len(msgq') : /\ a + 1 \in 1 .. Len(msgq)
                                    /\ msgq'[a] = msgq[a + 1]
  BY <1>1, TailFacts
<1>3. /\ Len(msgq) \in Nat /\ Len(msgq') = Len(msgq) - 1
      /\ Len(log) \in Nat
  BY <1>1, HeadTailProperties, LenProperties DEF TypeOK
<1>4. LastTaken' = LastTaken + 1 /\ LastTaken \in Nat
  BY <1>1, <1>3 DEF HandlersInv, QueueIsEndOfLog, LastTaken
<1>5. log'[LastTaken'] = Route(pkt)
  BY <1>1, <1>2, <1>4 DEF HandlersInv, QueueIsEndOfLog
<1>6. QueueIsEndOfLog'
  <2>1. \A a \in 1 .. Len(msgq') : log'[LastTaken' + a] = Route(msgq'[a])
    <3> TAKE a \in 1 .. Len(msgq')
    <3>1. LastTaken' + a = LastTaken + (a + 1)
      BY <1>3, <1>4
    <3>2. log[LastTaken + (a + 1)] = Route(msgq[a + 1])
      BY <1>2 DEF HandlersInv, QueueIsEndOfLog
    <3>3. QED
      BY <1>1, <1>2, <3>1, <3>2
  <2>2. Len(msgq') <= Len(log')
    BY <1>1, <1>3 DEF HandlersInv, QueueIsEndOfLog
  <2>3. QED
    BY <2>1, <2>2 DEF QueueIsEndOfLog, Route
<1>7. SpeakersRegistrable'
  BY <1>1, <1>2 DEF HandlersInv, SpeakersRegistrable, Registrable
<1>8. NullOnlyForStrangers'
  <2> SUFFICES ASSUME boot > Len(BootScript), fault' = "null_handler"
               PROVE  log'[LastTaken'] \in InstanceId \ Registrable
    <3>1. boot \in Nat /\ Len(BootScript) \in Nat
      BY ConstantsAssumption, LenProperties DEF TypeOK, ConstantsAssumption
    <3>2. QED
      BY <1>1, <3>1 DEF NullOnlyForStrangers, Registrable
  <2>1. boot = Len(BootScript) + 1 /\ Len(BootScript) \in Nat
    <3>1. Len(BootScript) \in Nat
      BY ConstantsAssumption, LenProperties DEF ConstantsAssumption
    <3>2. boot \in 1 .. Len(BootScript) + 1
      BY DEF TypeOK
    <3>3. QED
      BY <3>1, <3>2
  <2>2. registered = Registrable
    BY <2>1 DEF UnregisteredIsEmpty, Registrable
  <2>3. \/ pkt.type = "incoming" /\ pkt.control /\ pkt.dest \notin registered
        \/ /\ pkt.type = "outgoing"
           /\ pkt.src \notin registered \/ pkt.dest \notin registered
    BY <1>1 DEF HandleIncoming, HandleOutgoing, Overread
  <2>4. pkt.type = "incoming" /\ pkt.control /\ pkt.dest \notin Registrable
    BY <1>2, <2>2, <2>3 DEF HandlersInv, SpeakersRegistrable
  <2>5. QED
    BY <1>2, <1>5, <2>4 DEF Route, Packet
<1>9. QED
  BY <1>6, <1>7, <1>8 DEF HandlersInv

LEMMA NextKeepsHandlers ==
  ASSUME TypeOK, UnregisteredIsEmpty, HandlersInv, [Next]_vars
  PROVE  HandlersInv'
<1>1. /\ Len(log) + 1 \in Nat
      /\ {Cloud, CM4, Unknown} \subseteq InstanceId
      /\ Addressed \subseteq InstanceId
      /\ RequestId \subseteq Nat
      /\ Cloud \in Registrable
  BY ConstantsAssumption, SystemAssumption, LenProperties
     DEF TypeOK, ConstantsAssumption, SystemAssumption
<1>2. CASE MainStep
  <2>1. fault = "none" /\ UNCHANGED <<msgq, log, fault>>
    BY <1>2 DEF MainStep
  <2>2. started' \subseteq Registrable
    <3>1. BootScript[boot].id \in Registrable
      BY <1>2, SystemAssumption DEF SystemAssumption, MainStep, TypeOK
    <3>2. QED
      BY <1>2, <3>1 DEF MainStep, HandlersInv, SpeakersRegistrable
  <2>3. QED
    BY <2>1, <2>2
       DEF HandlersInv, QueueIsEndOfLog, SpeakersRegistrable,
           NullOnlyForStrangers, LastTaken, Route, Registrable
<1>3. CASE HandlePacketBuffers
  BY <1>3, HandleKeepsHandlers
<1>4. CASE RunWork \/ FinishWork \/ UNCHANGED vars
  <2>1. UNCHANGED <<boot, started, msgq, log, fault>>
    BY <1>4 DEF RunWork, FinishWork, vars
  <2>2. QED
    BY <2>1
       DEF HandlersInv, QueueIsEndOfLog, SpeakersRegistrable,
           NullOnlyForStrangers, LastTaken, Route, Registrable
<1>5. ASSUME NEW dest \in Addressed, NEW id \in RequestId,
             CloudControl(dest, id)
      PROVE  HandlersInv'
  <2> DEFINE pkt == [n |-> Len(log) + 1, type |-> "incoming", src |-> Cloud,
                     dest |-> dest, control |-> TRUE, id |-> id,
                     answers |-> 0]
  <2>1. pkt \in Packet /\ pkt.type # "outgoing"
    BY <1>1 DEF Packet
  <2>2. HandlePacket(pkt) /\ fault = "none" /\ UNCHANGED <<boot, started>>
    BY <1>5 DEF CloudControl
  <2>3. QED
    BY <2>1, <2>2, AcceptKeepsHandlers
<1>6. CASE CloudOther
  <2> DEFINE pkt == [n |-> Len(log) + 1, type |-> "incoming", src |-> Cloud,
                     dest |-> Cloud, control |-> FALSE, id |-> 0,
                     answers |-> 0]
  <2>1. pkt \in Packet /\ pkt.type # "outgoing"
    BY <1>1 DEF Packet
  <2>2. HandlePacket(pkt) /\ fault = "none" /\ UNCHANGED <<boot, started>>
    BY <1>6 DEF CloudOther
  <2>3. QED
    BY <2>1, <2>2, AcceptKeepsHandlers
<1>7. ASSUME NEW i \in Serial, NEW control \in BOOLEAN,
             StartTokenLine(i, control)
      PROVE  HandlersInv'
  <2> DEFINE pkt == [n |-> Len(log) + 1, type |-> "incoming", src |-> CM4,
                     dest |-> Unknown, control |-> control, id |-> 0,
                     answers |-> 0]
  <2>1. pkt \in Packet /\ pkt.type # "outgoing"
    BY <1>1 DEF Packet
  <2>2. HandlePacket(pkt) /\ fault = "none" /\ UNCHANGED <<boot, started>>
    BY <1>7 DEF StartTokenLine
  <2>3. QED
    BY <2>1, <2>2, AcceptKeepsHandlers
<1>8. ASSUME NEW i \in InstanceId \ {Cloud}, NEW r \in RequestId \cup {0},
             PeripheralData(i, r)
      PROVE  HandlersInv'
  <2> DEFINE pkt == [n |-> Len(log) + 1, type |-> "outgoing", src |-> i,
                     dest |-> Cloud, control |-> FALSE, id |-> 0,
                     answers |-> r]
  <2>1. pkt \in Packet
    BY <1>1 DEF Packet
  <2>2. /\ HandlePacket(pkt) /\ fault = "none" /\ i \in started
        /\ UNCHANGED <<boot, started>>
    BY <1>8 DEF PeripheralData
  <2>3. {pkt.src, pkt.dest} \subseteq Registrable
    BY <1>1, <2>2 DEF HandlersInv, SpeakersRegistrable
  <2>4. QED
    BY <2>1, <2>2, <2>3, AcceptKeepsHandlers
<1>9. QED
  BY <1>2, <1>3, <1>4, <1>5, <1>6, <1>7, <1>8
     DEF Next, Environment, Unasked, Answering

(* Once main is through, the firmware meets no missing handler but by a    *)
(* packet for an id main never registers, whatever failed on the way.      *)
THEOREM NullForStrangersOnly == SysSpec => []NullOnlyForStrangers
<1>1. Init => HandlersInv
  <2> SUFFICES ASSUME Init PROVE HandlersInv
    OBVIOUS
  <2>1. /\ Len(msgq) = 0 /\ Len(log) = 0
        /\ started = {} /\ fault = "none"
    BY DEF Init
  <2>2. QED
    BY <2>1
       DEF HandlersInv, QueueIsEndOfLog, SpeakersRegistrable,
           NullOnlyForStrangers
<1>2. IInv => TypeOK /\ UnregisteredIsEmpty
  BY DEF IInv
<1>3. HandlersInv => NullOnlyForStrangers
  BY DEF HandlersInv
<1>4. Spec => []NullOnlyForStrangers
  BY <1>1, <1>2, <1>3, NextKeepsHandlers, InvariantHolds, PTL DEF Spec
<1>5. QED
  BY <1>4, SystemImplements, PTL

-----------------------------------------------------------------------------
(* Requests and their answers.                                             *)

(* The application waits for a result before it asks an instance again,    *)
(* and no instance it asks speaks unasked.                                 *)
PatientApplication ==
  /\ OneOutstanding
  /\ \A d \in Addressed \ {Unknown} : d \notin Telemetry

(* Request r for instance d was made and has no result yet. *)
OpenFor(d, r) ==
  /\ [id |-> r, dest |-> d] \in issued
  /\ \A a \in 1 .. Len(replies) : replies[a].id # r

(* The request a packet takes to an instance or answers, 0 for none, and   *)
(* the instance.                                                           *)
Carried(pkt) == IF pkt.type = "incoming" THEN pkt.id ELSE pkt.answers

Device(pkt) == IF pkt.type = "incoming" THEN pkt.dest ELSE pkt.src

(* A request that is on its way to instance d, or back. *)
OnTheWay(d, r) == IF r = 0 THEN d \in Telemetry \cup {Unknown} ELSE OpenFor(d, r)

(* Requests are made of known instances, one of each at a time. *)
OneOpen ==
  /\ \A q \in issued : q.dest \in Addressed \ {Unknown}
  /\ \A p, q \in issued :
        /\ p.dest = q.dest
        /\ OpenFor(p.dest, p.id)
        /\ OpenFor(q.dest, q.id)
        => p = q

(* What the cloud is handed as a result was recorded as one. *)
ResultsReplied ==
  /\ msg[Cloud].form = "result"
       => \E a \in 1 .. Len(replies) : replies[a].id = msg[Cloud].id
  /\ \A c \in 1 .. Len(delivered[Cloud]) :
        delivered[Cloud][c].form = "result"
          => \E a \in 1 .. Len(replies) : replies[a].id = delivered[Cloud][c].id

(* A request is in the queue once, on the way to its instance or back, *)
QueueOpen ==
  /\ \A a \in 1 .. Len(msgq) : OnTheWay(Device(msgq[a]), Carried(msgq[a]))
  /\ \A a, b \in 1 .. Len(msgq) :
        Carried(msgq[a]) > 0 /\ Carried(msgq[a]) = Carried(msgq[b]) => a = b

(* or it is in a slot whose callback has not run and no more in the queue, *)
SlotOpen ==
  \A d \in InstanceId :
    /\ msg[d].form = "command"
    /\ \E k \in 1 .. Len(pending) : pending[k] = d
    => /\ OnTheWay(d, msg[d].id)
       /\ msg[d].id > 0 =>
            \A a \in 1 .. Len(msgq) : Carried(msgq[a]) # msg[d].id

(* or its instance has it and has not answered, and it is nowhere else.    *)
AskedOpen ==
  \A d \in InstanceId : \A r \in asked[d] :
    /\ OnTheWay(d, r)
    /\ r > 0 =>
         /\ \A a \in 1 .. Len(msgq) : Carried(msgq[a]) # r
         /\ \A k \in 1 .. Len(pending) :
              ~ (pending[k] = d /\ msg[d].form = "command" /\ msg[d].id = r)

AnswerInv ==
  /\ OneOpen
  /\ ResultsReplied
  /\ QueueOpen
  /\ SlotOpen
  /\ AskedOpen
  /\ ReplyIsAnswer

(* What an accepted or a refused packet leaves in the queue. *)
LEMMA QueueAfter ==
  ASSUME TypeOK, NEW pkt \in Packet, HandlePacket(pkt)
  PROVE  \A a \in 1 .. Len(msgq') :
           \/ a \in 1 .. Len(msgq) /\ msgq'[a] = msgq[a]
           \/ a = Len(msgq) + 1 /\ msgq'[a] = pkt
<1>1. CASE QueueHasRoom
  BY <1>1, AppendFacts
<1>2. CASE ~ QueueHasRoom
  BY <1>2 DEF HandlePacket
<1>3. QED
  BY <1>1, <1>2

(* Steps that leave requests, replies and what the cloud was handed alone. *)
LEMMA SameRequests ==
  ASSUME AnswerInv, UNCHANGED <<issued, replies>>
  PROVE  /\ OneOpen' /\ ReplyIsAnswer'
         /\ \A d, r : OnTheWay(d, r)' <=> OnTheWay(d, r)
<1>1. \A d, r : OpenFor(d, r)' <=> OpenFor(d, r)
  BY DEF OpenFor
<1>2. \A d, r : OnTheWay(d, r)' <=> OnTheWay(d, r)
  BY <1>1 DEF OnTheWay
<1>3. OneOpen'
  BY <1>1 DEF AnswerInv, OneOpen
<1>4. ReplyIsAnswer'
  BY DEF AnswerInv, ReplyIsAnswer
<1>5. QED
  BY <1>2, <1>3, <1>4

(* A request belongs to one instance. *)
LEMMA OneInstance ==
  ASSUME RequestInv, NEW d, NEW e, NEW r, r # 0,
         OnTheWay(d, r), OnTheWay(e, r)
  PROVE  d = e
<1>1. [id |-> r, dest |-> d] \in issued /\ [id |-> r, dest |-> e] \in issued
  BY DEF OnTheWay, OpenFor
<1>2. [id |-> r, dest |-> d] = [id |-> r, dest |-> e]
  BY <1>1 DEF RequestInv, IssuedOnce
<1>3. QED
  BY <1>2

(* Only the work item that was submitted is new on the work queue. *)
LEMMA SubmittedFacts ==
  ASSUME TypeOK, NEW i \in InstanceId, pending' = Submitted(i)
  PROVE  \A k \in 1 .. Len(pending') :
           \/ pending'[k] = i
           \/ k \in 1 .. Len(pending) /\ pending'[k] = pending[k]
<1>1. CASE i \in Elements(pending)
  BY <1>1 DEF Submitted
<1>2. CASE i \notin Elements(pending)
  <2>1. pending' = Append(pending, i) /\ pending \in Seq(InstanceId)
    BY <1>2 DEF Submitted, TypeOK
  <2>2. /\ Len(pending) \in Nat
        /\ Len(pending') = Len(pending) + 1
        /\ \A k \in 1 .. Len(pending) : pending'[k] = pending[k]
        /\ pending'[Len(pending) + 1] = i
    BY <2>1, AppendProperties, LenProperties
  <2>3. QED
    BY <2>2
<1>3. QED
  BY <1>1, <1>2

(* The packet thread puts a request into the slot of its instance. *)
LEMMA IncomingKeepsAnswers ==
  ASSUME TypeOK, AnswerInv, HandlePacketBuffers,
         Head(msgq).type = "incoming", HandleIncoming(Head(msgq))
  PROVE  AnswerInv'
<1> DEFINE pkt == Head(msgq)
<1>1. /\ msgq # <<>> /\ msgq' = Tail(msgq)
      /\ UNCHANGED <<issued, replies, asked, delivered>>
  BY DEF HandlePacketBuffers, HandleIncoming, NullHandler, Overread, workVars,
         Dispatch
<1>2. /\ pkt \in Packet
      /\ 1 \in 1 .. Len(msgq) /\ pkt = msgq[1]
      /\ \A a \in 1 .. Len(msgq') : /\ a \in Nat \ {0}
                                    /\ a + 1 \in 1 .. Len(msgq)
                                    /\ msgq'[a] = msgq[a + 1]
  BY <1>1, TailFacts
<1>3. /\ Carried(pkt) = pkt.id /\ Device(pkt) = pkt.dest
      /\ pkt.id \in Nat /\ pkt.dest \in InstanceId
  BY <1>2 DEF Carried, Device, Packet
<1>4. /\ OneOpen' /\ ReplyIsAnswer'
      /\ \A d, r : OnTheWay(d, r)' <=> OnTheWay(d, r)
  BY <1>1, SameRequests
<1>5. /\ OnTheWay(pkt.dest, pkt.id)
      /\ pkt.id > 0 => \A a \in 1 .. Len(msgq') : Carried(msgq'[a]) # pkt.id
  BY <1>2, <1>3 DEF AnswerInv, QueueOpen
<1>6. /\ \A a \in 1 .. Len(msgq') : Carried(msgq[a])' = Carried(msgq'[a])
      /\ \A a \in 1 .. Len(msgq') : Device(msgq[a])' = Device(msgq'[a])
  BY DEF Carried, Device
<1>7. QueueOpen'
  BY <1>2, <1>4, <1>6 DEF AnswerInv, QueueOpen
<1>8. CASE UNCHANGED <<msg, pending>>
  <2>1. SlotOpen'
    BY <1>2, <1>4, <1>6, <1>8 DEF AnswerInv, SlotOpen
  <2>2. AskedOpen'
    BY <1>1, <1>2, <1>4, <1>6, <1>8 DEF AnswerInv, AskedOpen
  <2>3. ResultsReplied'
    BY <1>1, <1>8 DEF AnswerInv, ResultsReplied
  <2>4. QED
    BY <1>4, <1>7, <2>1, <2>2, <2>3 DEF AnswerInv
<1>9. CASE Dispatch(pkt.dest, [n |-> pkt.n, form |-> "command", id |-> pkt.id,
                               answers |-> 0])
  <2>1. /\ msg'[pkt.dest].form = "command" /\ msg'[pkt.dest].id = pkt.id
        /\ \A d \in InstanceId \ {pkt.dest} : msg'[d] = msg[d]
    BY <1>3, <1>9 DEF Dispatch, TypeOK
  <2>2. \A d \in InstanceId \ {pkt.dest} :
          (\E k \in 1 .. Len(pending') : pending'[k] = d)
            => \E k \in 1 .. Len(pending) : pending[k] = d
    BY <1>3, <1>9, SubmittedFacts DEF Dispatch
  <2>3. SlotOpen'
    BY <1>2, <1>4, <1>5, <1>6, <2>1, <2>2 DEF AnswerInv, SlotOpen
  <2>4. ASSUME NEW d \in InstanceId, NEW r \in asked'[d]
        PROVE  /\ OnTheWay(d, r)'
               /\ r > 0 =>
                    /\ \A a \in 1 .. Len(msgq') : Carried(msgq'[a]) # r
                    /\ \A k \in 1 .. Len(pending') :
                         ~ (/\ pending'[k] = d /\ msg'[d].form = "command"
                            /\ msg'[d].id = r)
    <3>1. /\ OnTheWay(d, r)
          /\ r > 0 => \A a \in 1 .. Len(msgq) : Carried(msgq[a]) # r
      BY <1>1 DEF AnswerInv, AskedOpen
    <3>2. CASE d = pkt.dest
      BY <1>2, <1>3, <1>4, <2>1, <3>1, <3>2
    <3>3. CASE d # pkt.dest
      <4>1. r > 0 => \A k \in 1 .. Len(pending) :
               ~ (pending[k] = d /\ msg[d].form = "command" /\ msg[d].id = r)
        BY <1>1 DEF AnswerInv, AskedOpen
      <4>2. QED
        BY <1>2, <1>4, <2>1, <2>2, <3>1, <3>3, <4>1
    <3>4. QED
      BY <3>2, <3>3
  <2>5. AskedOpen'
    BY <1>6, <2>4 DEF AskedOpen
  <2>6. ResultsReplied'
    BY <1>1, <2>1, ConstantsAssumption
       DEF AnswerInv, ResultsReplied, ConstantsAssumption
  <2>7. QED
    BY <1>4, <1>7, <2>3, <2>5, <2>6 DEF AnswerInv
<1>10. QED
  BY <1>8, <1>9 DEF HandleIncoming, NullHandler, Overread, workVars

(* A packet that answers no request, or finds none in the slot.            *)
LEMMA DataKeepsAnswers ==
  ASSUME TypeOK, AnswerInv, msgq # <<>>, msgq' = Tail(msgq),
         UNCHANGED <<issued, replies, asked, delivered>>,
         \/ UNCHANGED <<msg, pending>>
         \/ \E i \in InstanceId, m \in Message :
               m.form = "data" /\ Dispatch(i, m)
  PROVE  AnswerInv'
<1>1. \A a \in 1 .. Len(msgq') : /\ a \in Nat \ {0}
                                /\ a + 1 \in 1 .. Len(msgq)
                                /\ msgq'[a] = msgq[a + 1]
  BY TailFacts
<1>2. /\ OneOpen' /\ ReplyIsAnswer'
      /\ \A d, r : OnTheWay(d, r)' <=> OnTheWay(d, r)
  BY SameRequests
<1>3. /\ \A a \in 1 .. Len(msgq') : Carried(msgq[a])' = Carried(msgq'[a])
      /\ \A a \in 1 .. Len(msgq') : Device(msgq[a])' = Device(msgq'[a])
  BY DEF Carried, Device
<1>4. QueueOpen'
  BY <1>1, <1>2, <1>3 DEF AnswerInv, QueueOpen
<1>5. \A d \in InstanceId :
        \/ msg'[d].form = "data"
        \/ /\ msg'[d] = msg[d]
           /\ \A k \in 1 .. Len(pending') : pending'[k] = d =>
                 \E j \in 1 .. Len(pending) : pending[j] = d
  <2>1. CASE UNCHANGED <<msg, pending>>
    BY <2>1
  <2>2. ASSUME NEW i \in InstanceId, NEW m \in Message, m.form = "data",
               Dispatch(i, m)
        PROVE  \A d \in InstanceId :
                 \/ msg'[d].form = "data"
                 \/ /\ msg'[d] = msg[d]
                    /\ \A k \in 1 .. Len(pending') : pending'[k] = d =>
                          \E j \in 1 .. Len(pending) : pending[j] = d
    BY <2>2, SubmittedFacts DEF Dispatch, TypeOK
  <2>3. QED
    BY <2>1, <2>2
<1>6. SlotOpen'
  BY <1>1, <1>2, <1>3, <1>5 DEF AnswerInv, SlotOpen
<1>7. AskedOpen'
  <2> SUFFICES ASSUME NEW d \in InstanceId, NEW r \in asked[d]
               PROVE  /\ OnTheWay(d, r)
                      /\ r > 0 =>
                         /\ \A a \in 1 .. Len(msgq') : Carried(msgq'[a]) # r
                         /\ \A k \in 1 .. Len(pending') :
                              ~ (/\ pending'[k] = d
                                 /\ msg'[d].form = "command"
                                 /\ msg'[d].id = r)
    BY <1>2, <1>3 DEF AskedOpen
  <2>1. /\ OnTheWay(d, r)
        /\ r > 0 =>
             /\ \A a \in 1 .. Len(msgq) : Carried(msgq[a]) # r
             /\ \A k \in 1 .. Len(pending) :
                  ~ (pending[k] = d /\ msg[d].form = "command" /\ msg[d].id = r)
    BY DEF AnswerInv, AskedOpen
  <2>2. QED
    BY <1>1, <1>5, <2>1
<1>8. ResultsReplied'
  BY <1>5, ConstantsAssumption DEF AnswerInv, ResultsReplied, ConstantsAssumption
<1>9. QED
  BY <1>2, <1>4, <1>6, <1>7, <1>8 DEF AnswerInv

(* The packet that is taken for the answer to a request is the answer: the *)
(* request in the slot is open, the one the packet answers is too, and an  *)
(* instance has only one.                                                  *)
LEMMA AnswerIsMatched ==
  ASSUME TypeOK, RequestInv, AnswerInv, PatientApplication,
         NEW pkt \in Packet, pkt.type = "outgoing",
         OnTheWay(Device(pkt), Carried(pkt)),
         result[pkt.src] > 0
  PROVE  pkt.answers = result[pkt.src]
<1>1. Device(pkt) = pkt.src /\ Carried(pkt) = pkt.answers
  BY DEF Device, Carried
<1>2. pkt.src \in InstanceId
  BY DEF Packet
<1>3. OpenFor(pkt.src, result[pkt.src])
  BY <1>2 DEF RequestInv, SlotAfterQueue, ReplyAfterSlot, OpenFor
<1>4. pkt.src \in Addressed \ {Unknown}
  BY <1>3 DEF OpenFor, AnswerInv, OneOpen
<1>5. OpenFor(pkt.src, pkt.answers)
  BY <1>1, <1>4 DEF OnTheWay, PatientApplication
<1> DEFINE p == [id |-> pkt.answers, dest |-> pkt.src]
           q == [id |-> result[pkt.src], dest |-> pkt.src]
<1>6. p \in issued /\ q \in issued
  BY <1>3, <1>5 DEF OpenFor
<1>7. p = q
  BY <1>3, <1>5, <1>6 DEF AnswerInv, OneOpen
<1>8. QED
  BY <1>7

(* It closes that request, which is in no other place.                     *)
LEMMA ResultKeepsAnswers ==
  ASSUME TypeOK, RequestInv, AnswerInv, PatientApplication,
         msgq # <<>>, msgq' = Tail(msgq),
         UNCHANGED <<issued, asked, delivered>>,
         Head(msgq).type = "outgoing", result[Head(msgq).src] > 0,
         NEW r \in Reply, r.id = result[Head(msgq).src],
         r.answers = Head(msgq).answers,
         replies' = Append(replies, r),
         NEW i \in InstanceId, NEW m \in Message,
         m.form = "result", m.id = r.id, Dispatch(i, m)
  PROVE  AnswerInv'
<1> DEFINE pkt == Head(msgq)
<1>1. /\ pkt \in Packet
      /\ 1 \in 1 .. Len(msgq) /\ pkt = msgq[1]
      /\ \A a \in 1 .. Len(msgq') : /\ a \in Nat \ {0}
                                    /\ a + 1 \in 1 .. Len(msgq)
                                    /\ msgq'[a] = msgq[a + 1]
  BY TailFacts
<1>2. /\ OnTheWay(Device(pkt), Carried(pkt))
      /\ Carried(pkt) = pkt.answers
  BY <1>1 DEF AnswerInv, QueueOpen, Carried
<1>3. pkt.answers = r.id /\ r.id > 0
  BY <1>1, <1>2, AnswerIsMatched
<1>4. \A a \in 1 .. Len(replies') :
         \/ a \in 1 .. Len(replies) /\ replies'[a] = replies[a]
         \/ a = Len(replies) + 1 /\ replies'[a] = r
  <2>1. /\ Len(replies) \in Nat
        /\ Len(replies') = Len(replies) + 1
        /\ \A a \in 1 .. Len(replies) : replies'[a] = replies[a]
        /\ replies'[Len(replies) + 1] = r
    BY AppendProperties, LenProperties DEF TypeOK
  <2>2. QED
    BY <2>1
<1>5. /\ Len(replies) + 1 \in 1 .. Len(replies')
      /\ replies'[Len(replies) + 1] = r
      /\ \A a \in 1 .. Len(replies) : /\ a \in 1 .. Len(replies')
                                      /\ replies'[a] = replies[a]
  BY AppendProperties, LenProperties DEF TypeOK
<1>6. ReplyIsAnswer'
  BY <1>3, <1>4 DEF AnswerInv, ReplyIsAnswer
<1>7. \A d, x : OpenFor(d, x)' <=> OpenFor(d, x) /\ x # r.id
  BY <1>4, <1>5 DEF OpenFor
<1>8. \A d, x : OnTheWay(d, x) /\ x # r.id => OnTheWay(d, x)'
  BY <1>7 DEF OnTheWay
<1>9. OneOpen'
  BY <1>7 DEF AnswerInv, OneOpen
<1>10. /\ \A a \in 1 .. Len(msgq') : Carried(msgq[a])' = Carried(msgq'[a])
       /\ \A a \in 1 .. Len(msgq') : Device(msgq[a])' = Device(msgq'[a])
  BY DEF Carried, Device
<1>11. \A a \in 1 .. Len(msgq') : Carried(msgq'[a]) # r.id
  BY <1>1, <1>2, <1>3 DEF AnswerInv, QueueOpen
<1>12. QueueOpen'
  BY <1>1, <1>8, <1>10, <1>11 DEF AnswerInv, QueueOpen
<1>13. \A d \in InstanceId :
         \/ d = i /\ msg'[d] = m
         \/ /\ msg'[d] = msg[d]
            /\ \A k \in 1 .. Len(pending') : pending'[k] = d =>
                  \E j \in 1 .. Len(pending) : pending[j] = d
  BY SubmittedFacts DEF Dispatch, TypeOK
<1>14. SlotOpen'
  <2> SUFFICES ASSUME NEW d \in InstanceId, msg'[d].form = "command",
                      NEW k \in 1 .. Len(pending'), pending'[k] = d
               PROVE  /\ OnTheWay(d, msg[d].id)'
                      /\ msg'[d].id > 0 =>
                         \A a \in 1 .. Len(msgq') : Carried(msgq'[a]) # msg'[d].id
    BY <1>10 DEF SlotOpen
  <2>1. /\ msg'[d] = msg[d]
        /\ \E j \in 1 .. Len(pending) : pending[j] = d
    BY <1>13
  <2>2. /\ OnTheWay(d, msg[d].id)
        /\ msg[d].id > 0 =>
             \A a \in 1 .. Len(msgq) : Carried(msgq[a]) # msg[d].id
    BY <2>1 DEF AnswerInv, SlotOpen
  <2>3. msg[d].id # r.id
    BY <1>1, <1>2, <1>3, <2>2
  <2>4. QED
    BY <1>1, <1>8, <2>1, <2>2, <2>3
<1>15. AskedOpen'
  <2> SUFFICES ASSUME NEW d \in InstanceId, NEW x \in asked[d]
               PROVE  /\ OnTheWay(d, x)'
                      /\ x > 0 =>
                         /\ \A a \in 1 .. Len(msgq') : Carried(msgq'[a]) # x
                         /\ \A k \in 1 .. Len(pending') :
                              ~ (/\ pending'[k] = d
                                 /\ msg'[d].form = "command"
                                 /\ msg'[d].id = x)
    BY <1>10 DEF AskedOpen
  <2>1. /\ OnTheWay(d, x)
        /\ x > 0 =>
             /\ \A a \in 1 .. Len(msgq) : Carried(msgq[a]) # x
             /\ \A k \in 1 .. Len(pending) :
                  ~ (pending[k] = d /\ msg[d].form = "command" /\ msg[d].id = x)
    BY DEF AnswerInv, AskedOpen
  <2>2. x # r.id
    BY <1>1, <1>2, <1>3, <2>1
  <2>3. QED
    BY <1>1, <1>8, <1>13, <2>1, <2>2
<1>16. ResultsReplied'
  <2>1. Cloud \in InstanceId
    BY ConstantsAssumption DEF ConstantsAssumption
  <2>2. \A x : (\E a \in 1 .. Len(replies) : replies[a].id = x)
                 => \E a \in 1 .. Len(replies') : replies'[a].id = x
    BY <1>5
  <2>3. \E a \in 1 .. Len(replies') : replies'[a].id = m.id
    BY <1>5
  <2>4. msg'[Cloud] = m \/ msg'[Cloud] = msg[Cloud]
    BY <1>13, <2>1
  <2>5. QED
    BY <2>2, <2>3, <2>4 DEF AnswerInv, ResultsReplied
<1>17. QED
  BY <1>6, <1>9, <1>12, <1>14, <1>15, <1>16 DEF AnswerInv

LEMMA HandleKeepsAnswers ==
  ASSUME TypeOK, RequestInv, AnswerInv, PatientApplication,
         HandlePacketBuffers
  PROVE  AnswerInv'
<1> DEFINE pkt == Head(msgq)
<1>1. /\ msgq # <<>> /\ msgq' = Tail(msgq)
      /\ UNCHANGED <<issued, asked>>
      /\ \/ pkt.type = "incoming" /\ HandleIncoming(pkt)
         \/ pkt.type = "outgoing" /\ HandleOutgoing(pkt)
  BY DEF HandlePacketBuffers
<1>2. pkt \in Packet
  BY <1>1, TailFacts
<1>3. CASE pkt.type = "incoming"
  BY <1>1, <1>3, IncomingKeepsAnswers
<1>4. CASE pkt.type = "outgoing"
  <2> DEFINE id == PendingRequest(pkt.src)
             m(form) == [n |-> pkt.n, form |-> form, id |-> id,
                         answers |-> pkt.answers]
             r == [id |-> id, src |-> pkt.src, answers |-> pkt.answers]
  <2>1. HandleOutgoing(pkt)
    BY <1>1, <1>4
  <2>2. /\ pkt.src \in InstanceId /\ pkt.dest \in InstanceId
        /\ id \in Nat /\ id = result[pkt.src]
        /\ r \in Reply
        /\ m("data") \in Message /\ m("result") \in Message
    BY <1>2 DEF TypeOK, Packet, Reply, Message, PendingRequest
  <2>3. CASE pkt.src \notin registered \/ pkt.dest \notin registered
    <3>1. UNCHANGED <<replies, delivered, msg, pending>>
      BY <2>1, <2>3 DEF HandleOutgoing, NullHandler, workVars
    <3>2. QED
      BY <1>1, <3>1, DataKeepsAnswers
  <2>4. CASE /\ pkt.src \in registered /\ pkt.dest \in registered
             /\ ~ IsRequest(id)
    <3>1. /\ UNCHANGED <<replies, delivered>>
          /\ Dispatch(pkt.dest, m("data"))
      BY <2>1, <2>4 DEF HandleOutgoing, Dispatch
    <3>2. m("data").form = "data"
      OBVIOUS
    <3> HIDE DEF m
    <3>3. QED
      BY <1>1, <2>2, <3>1, <3>2, DataKeepsAnswers
  <2>5. CASE /\ pkt.src \in registered /\ pkt.dest \in registered
             /\ IsRequest(id)
    <3>1. /\ replies' = Append(replies, r)
          /\ UNCHANGED delivered
          /\ Dispatch(pkt.dest, m("result"))
      BY <2>1, <2>5 DEF HandleOutgoing, Dispatch
    <3>2. /\ m("result").form = "result" /\ m("result").id = r.id
          /\ r.id = result[pkt.src] /\ r.answers = pkt.answers
          /\ result[pkt.src] > 0
      BY <2>2, <2>5 DEF IsRequest
    <3> HIDE DEF m, r, id
    <3>3. QED
      BY <1>1, <1>4, <2>2, <3>1, <3>2, ResultKeepsAnswers
  <2>6. QED
    BY <2>3, <2>4, <2>5
<1>5. QED
  BY <1>2, <1>3, <1>4 DEF Packet

(* A callback that reads a command takes the request out of the slot.      *)
LEMMA WorkKeepsAnswers ==
  ASSUME TypeOK, OrderInv, AnswerInv, RunWork
  PROVE  AnswerInv'
<1> DEFINE i == Head(pending)
<1>1. /\ pending # <<>> /\ pending' = Tail(pending)
      /\ asked' = IF i # Cloud /\ msg[i].form = "command"
                  THEN [asked EXCEPT ![i] = @ \cup {msg[i].id}]
                  ELSE asked
      /\ UNCHANGED <<issued, replies, msgq, msg>>
  BY DEF RunWork
<1>2. /\ i \in InstanceId
      /\ 1 \in 1 .. Len(pending) /\ i = pending[1]
      /\ \A k \in 1 .. Len(pending') : /\ k + 1 \in 1 .. Len(pending)
                                      /\ pending'[k] = pending[k + 1]
                                      /\ pending'[k] # i
  <2>1. Len(pending) \in Nat \ {0} /\ i = pending[1]
    BY <1>1, HeadTailProperties, EmptySeq, LenProperties DEF TypeOK
  <2>2. QED
    BY <2>1, WorkIsNew
<1>3. /\ OneOpen' /\ ReplyIsAnswer'
      /\ \A d, r : OnTheWay(d, r)' <=> OnTheWay(d, r)
  BY <1>1, SameRequests
<1>4. QueueOpen'
  BY <1>1, <1>3 DEF AnswerInv, QueueOpen, Carried, Device
<1>5. SlotOpen'
  BY <1>1, <1>2, <1>3 DEF AnswerInv, SlotOpen, Carried
<1>6. AskedOpen'
  <2> SUFFICES ASSUME NEW d \in InstanceId, NEW r \in asked'[d]
               PROVE  /\ OnTheWay(d, r)
                      /\ r > 0 =>
                         /\ \A a \in 1 .. Len(msgq) : Carried(msgq[a]) # r
                         /\ \A k \in 1 .. Len(pending') :
                              ~ (/\ pending'[k] = d
                                 /\ msg[d].form = "command"
                                 /\ msg[d].id = r)
    BY <1>1, <1>3 DEF AskedOpen, Carried
  <2>1. CASE r \in asked[d]
    BY <1>2, <2>1 DEF AnswerInv, AskedOpen
  <2>2. CASE d = i /\ r = msg[i].id /\ msg[i].form = "command"
    BY <1>2, <2>2 DEF AnswerInv, SlotOpen
  <2>3. r \in asked[d] \/ (d = i /\ r = msg[i].id /\ msg[i].form = "command")
    BY <1>1, <1>2 DEF TypeOK
  <2>4. QED
    BY <2>1, <2>2, <2>3
<1>7. ResultsReplied'
  <2>1. Cloud \in InstanceId
    BY ConstantsAssumption DEF ConstantsAssumption
  <2>2. \A c \in 1 .. Len(delivered'[Cloud]) :
          \/ /\ c \in 1 .. Len(delivered[Cloud])
             /\ delivered'[Cloud][c] = delivered[Cloud][c]
          \/ delivered'[Cloud][c] = msg[Cloud]
    <3>1. CASE i = Cloud
      <4>1. /\ Len(delivered[i]) \in Nat
            /\ Len(delivered'[i]) = Len(delivered[i]) + 1
            /\ \A c \in 1 .. Len(delivered[i]) :
                 delivered'[i][c] = delivered[i][c]
            /\ delivered'[i][Len(delivered[i]) + 1] = msg[i]
        BY WorkAppends
      <4> HIDE DEF i
      <4>2. QED
        BY <3>1, <4>1
    <3>2. CASE i # Cloud
      BY <2>1, <3>2, WorkAppends
    <3>3. QED
      BY <3>1, <3>2
  <2>3. QED
    BY <1>1, <2>2 DEF AnswerInv, ResultsReplied
<1>8. QED
  BY <1>3, <1>4, <1>5, <1>6, <1>7 DEF AnswerInv

(* Registration empties a slot. *)
LEMMA MainKeepsAnswers ==
  ASSUME TypeOK, AnswerInv, MainStep
  PROVE  AnswerInv'
<1>1. UNCHANGED <<issued, replies, msgq, pending, delivered, asked>>
  BY DEF MainStep
<1>2. \A d \in InstanceId :
        msg'[d] = msg[d] \/ msg'[d].form = "none"
  BY DEF MainStep, TypeOK, EmptyMessage
<1>3. /\ OneOpen' /\ ReplyIsAnswer'
      /\ \A d, r : OnTheWay(d, r)' <=> OnTheWay(d, r)
  BY <1>1, SameRequests
<1>4. QueueOpen'
  BY <1>1, <1>3 DEF AnswerInv, QueueOpen, Carried, Device
<1>5. SlotOpen'
  BY <1>1, <1>2, <1>3 DEF AnswerInv, SlotOpen, Carried
<1>6. AskedOpen'
  BY <1>1, <1>2, <1>3 DEF AnswerInv, AskedOpen, Carried
<1>7. ResultsReplied'
  BY <1>1, <1>2, ConstantsAssumption
     DEF AnswerInv, ResultsReplied, ConstantsAssumption
<1>8. QED
  BY <1>3, <1>4, <1>5, <1>6, <1>7 DEF AnswerInv

(* A new request has an id nobody has used, and its instance has answered  *)
(* every request before it.                                                *)
LEMMA RequestKeepsAnswers ==
  ASSUME TypeOK, RequestInv, AnswerInv, PatientApplication,
         NEW dest \in Addressed, NEW id \in RequestId,
         dest = Unknown <=> id = 0,
         CloudControl(dest, id)
  PROVE  AnswerInv'
<1> DEFINE pkt == [n |-> Len(log) + 1, type |-> "incoming", src |-> Cloud,
                   dest |-> dest, control |-> TRUE, id |-> id,
                   answers |-> 0]
           new == [id |-> id, dest |-> dest]
<1>1. /\ pkt \in Packet
      /\ dest \in InstanceId /\ id \in Nat
      /\ Cloud \in InstanceId
  BY ConstantsAssumption, LenProperties DEF ConstantsAssumption, TypeOK, Packet
<1>2. /\ HandlePacket(pkt)
      /\ MayIssue(dest, id)
      /\ issued' = IF id = 0 THEN issued ELSE issued \cup {new}
      /\ UNCHANGED <<msg, pending, delivered, asked, replies>>
  BY DEF CloudControl, workVars
<1>3. Carried(pkt) = id /\ Device(pkt) = dest
  BY DEF Carried, Device
<1> HIDE DEF pkt
<1>4. \A a \in 1 .. Len(msgq') :
        \/ a \in 1 .. Len(msgq) /\ msgq'[a] = msgq[a]
        \/ a = Len(msgq) + 1 /\ msgq'[a] = pkt
  BY <1>1, <1>2, QueueAfter
<1>5. id # 0 => \A d : ~ OnTheWay(d, id)
  BY <1>2 DEF MayIssue, OnTheWay, OpenFor
<1>6. \A d, r : OnTheWay(d, r) => OnTheWay(d, r)'
  BY <1>2 DEF OnTheWay, OpenFor
<1>7. id # 0 => \A a \in 1 .. Len(replies) : replies[a].id # id
  BY <1>2 DEF MayIssue, RequestInv, ReplyFromAddressee
<1>8. OnTheWay(dest, id)'
  BY <1>2, <1>7 DEF OnTheWay, OpenFor
<1>9. OneOpen'
  <2>1. CASE id = 0
    BY <1>2, <2>1 DEF AnswerInv, OneOpen, OpenFor
  <2>2. CASE id # 0
    <3>1. \A q \in issued : q.dest = dest => ~ OpenFor(q.dest, q.id)
      <4> SUFFICES ASSUME NEW q \in issued, q.dest = dest
                   PROVE  \E a \in 1 .. Len(replies) : replies[a].id = q.id
        BY DEF OpenFor
      <4>1. Answered(q.id)
        BY <1>2 DEF MayIssue, PatientApplication
      <4>2. \E c \in 1 .. Len(delivered[Cloud]) :
               /\ delivered[Cloud][c].form = "result"
               /\ delivered[Cloud][c].id = q.id
        BY <4>1 DEF Answered, Elements
      <4>3. QED
        BY <4>2 DEF AnswerInv, ResultsReplied
    <3>2. \A q \in issued : OpenFor(q.dest, q.id)' => OpenFor(q.dest, q.id)
      BY <1>2, <2>2 DEF MayIssue, OpenFor
    <3>3. \A q \in issued' : q \in issued \/ q = new
      BY <1>2
    <3>4. \A p, q \in issued' :
             /\ p.dest = q.dest
             /\ OpenFor(p.dest, p.id)'
             /\ OpenFor(q.dest, q.id)'
             => p = q
      BY <3>1, <3>2, <3>3 DEF AnswerInv, OneOpen
    <3>5. \A q \in issued' : q.dest \in Addressed \ {Unknown}
      BY <2>2, <3>3 DEF AnswerInv, OneOpen
    <3>6. QED
      BY <3>4, <3>5 DEF OneOpen, OpenFor
  <2>3. QED
    BY <2>1, <2>2
<1>10. /\ \A a \in 1 .. Len(msgq') : Carried(msgq[a])' = Carried(msgq'[a])
       /\ \A a \in 1 .. Len(msgq') : Device(msgq[a])' = Device(msgq'[a])
  BY DEF Carried, Device
<1>11. QueueOpen'
  <2>1. ASSUME NEW a \in 1 .. Len(msgq), id # 0, Carried(msgq[a]) = id
        PROVE  FALSE
    <3>1. OnTheWay(Device(msgq[a]), id)
      BY <2>1 DEF AnswerInv, QueueOpen
    <3>2. QED
      BY <1>5, <2>1, <3>1
  <2>2. \A a \in 1 .. Len(msgq') : OnTheWay(Device(msgq[a]), Carried(msgq[a]))'
    BY <1>3, <1>4, <1>6, <1>8, <1>10 DEF AnswerInv, QueueOpen
  <2>3. \A a, b \in 1 .. Len(msgq') :
           Carried(msgq'[a]) > 0 /\ Carried(msgq'[a]) = Carried(msgq'[b])
             => a = b
    <3> SUFFICES ASSUME NEW a \in 1 .. Len(msgq'), NEW b \in 1 .. Len(msgq'),
                        Carried(msgq'[a]) > 0,
                        Carried(msgq'[a]) = Carried(msgq'[b])
                 PROVE  a = b
      OBVIOUS
    <3>1. CASE /\ a \in 1 .. Len(msgq) /\ msgq'[a] = msgq[a]
               /\ b \in 1 .. Len(msgq) /\ msgq'[b] = msgq[b]
      BY <3>1 DEF AnswerInv, QueueOpen
    <3>2. CASE msgq'[a] = pkt \/ msgq'[b] = pkt
      <4>1. id # 0 /\ Carried(msgq'[a]) = id /\ Carried(msgq'[b]) = id
        BY <1>1, <1>3, <3>2
      <4>2. QED
        BY <1>4, <2>1, <4>1
    <3>3. QED
      BY <1>4, <3>1, <3>2
  <2>4. QED
    BY <1>10, <2>2, <2>3 DEF QueueOpen
<1>12. SlotOpen'
  <2> SUFFICES ASSUME NEW d \in InstanceId, msg[d].form = "command",
                      NEW k \in 1 .. Len(pending), pending[k] = d
               PROVE  /\ OnTheWay(d, msg[d].id)'
                      /\ msg[d].id > 0 =>
                         \A a \in 1 .. Len(msgq') : Carried(msgq'[a]) # msg[d].id
    BY <1>2, <1>10 DEF SlotOpen
  <2>1. /\ OnTheWay(d, msg[d].id)
        /\ msg[d].id > 0 =>
             \A a \in 1 .. Len(msgq) : Carried(msgq[a]) # msg[d].id
    BY DEF AnswerInv, SlotOpen
  <2>2. msg[d].id \in Nat
    BY DEF TypeOK, Message
  <2>3. QED
    BY <1>2, <1>3, <1>4, <1>5, <1>6, <2>1, <2>2
<1>13. AskedOpen'
  <2> SUFFICES ASSUME NEW d \in InstanceId, NEW r \in asked[d]
               PROVE  /\ OnTheWay(d, r)'
                      /\ r > 0 =>
                         /\ \A a \in 1 .. Len(msgq') : Carried(msgq'[a]) # r
                         /\ \A k \in 1 .. Len(pending) :
                              ~ (/\ pending[k] = d
                                 /\ msg[d].form = "command"
                                 /\ msg[d].id = r)
    BY <1>2, <1>10 DEF AskedOpen
  <2>1. /\ OnTheWay(d, r)
        /\ r > 0 =>
             /\ \A a \in 1 .. Len(msgq) : Carried(msgq[a]) # r
             /\ \A k \in 1 .. Len(pending) :
                  ~ (pending[k] = d /\ msg[d].form = "command" /\ msg[d].id = r)
    BY DEF AnswerInv, AskedOpen
  <2>2. r \in Nat
    BY DEF TypeOK
  <2>3. QED
    BY <1>3, <1>4, <1>5, <1>6, <2>1, <2>2
<1>14. ResultsReplied' /\ ReplyIsAnswer'
  BY <1>2 DEF AnswerInv, ResultsReplied, ReplyIsAnswer
<1>15. QED
  BY <1>9, <1>11, <1>12, <1>13, <1>14 DEF AnswerInv

(* An answer leaves its instance for the queue, or is lost.                *)
LEMMA SpeakingKeepsAnswers ==
  ASSUME TypeOK, RequestInv, AnswerInv,
         NEW i \in InstanceId, NEW r \in Nat, PeripheralData(i, r)
  PROVE  AnswerInv'
<1> DEFINE pkt == [n |-> Len(log) + 1, type |-> "outgoing", src |-> i,
                   dest |-> Cloud, control |-> FALSE, id |-> 0,
                   answers |-> r]
<1>1. pkt \in Packet
  BY ConstantsAssumption, LenProperties DEF ConstantsAssumption, TypeOK, Packet
<1>2. /\ HandlePacket(pkt)
      /\ r \in asked[i] \/ (r = 0 /\ i \in Telemetry)
      /\ asked' = [asked EXCEPT ![i] = @ \ {r}]
      /\ UNCHANGED <<msg, pending, delivered, issued, replies>>
  BY DEF PeripheralData, workVars
<1>3. Carried(pkt) = r /\ Device(pkt) = i
  BY DEF Carried, Device
<1> HIDE DEF pkt
<1>4. \A a \in 1 .. Len(msgq') :
        \/ a \in 1 .. Len(msgq) /\ msgq'[a] = msgq[a]
        \/ a = Len(msgq) + 1 /\ msgq'[a] = pkt
  BY <1>1, <1>2, QueueAfter
<1>5. /\ OnTheWay(i, r)
      /\ r > 0 =>
           /\ \A a \in 1 .. Len(msgq) : Carried(msgq[a]) # r
           /\ \A k \in 1 .. Len(pending) :
                ~ (pending[k] = i /\ msg[i].form = "command" /\ msg[i].id = r)
  BY <1>2 DEF AnswerInv, AskedOpen, OnTheWay
<1>6. /\ OneOpen' /\ ReplyIsAnswer'
      /\ \A d, x : OnTheWay(d, x)' <=> OnTheWay(d, x)
  BY <1>2, SameRequests
<1>7. /\ \A a \in 1 .. Len(msgq') : Carried(msgq[a])' = Carried(msgq'[a])
      /\ \A a \in 1 .. Len(msgq') : Device(msgq[a])' = Device(msgq'[a])
  BY DEF Carried, Device
<1>8. QueueOpen'
  <2>1. \A a \in 1 .. Len(msgq') : OnTheWay(Device(msgq'[a]), Carried(msgq'[a]))
    BY <1>3, <1>4, <1>5 DEF AnswerInv, QueueOpen
  <2>2. \A a, b \in 1 .. Len(msgq') :
           Carried(msgq'[a]) > 0 /\ Carried(msgq'[a]) = Carried(msgq'[b])
             => a = b
    BY <1>3, <1>4, <1>5 DEF AnswerInv, QueueOpen
  <2>3. QED
    BY <1>6, <1>7, <2>1, <2>2 DEF QueueOpen
<1>9. SlotOpen'
  <2> SUFFICES ASSUME NEW d \in InstanceId, msg[d].form = "command",
                      NEW k \in 1 .. Len(pending), pending[k] = d
               PROVE  /\ OnTheWay(d, msg[d].id)
                      /\ msg[d].id > 0 =>
                         \A a \in 1 .. Len(msgq') : Carried(msgq'[a]) # msg[d].id
    BY <1>2, <1>6, <1>7 DEF SlotOpen
  <2>1. /\ OnTheWay(d, msg[d].id)
        /\ msg[d].id > 0 =>
             \A a \in 1 .. Len(msgq) : Carried(msgq[a]) # msg[d].id
    BY DEF AnswerInv, SlotOpen
  <2>2. msg[d].id > 0 => msg[d].id # r
    BY <1>5, <2>1, OneInstance
  <2>3. QED
    BY <1>3, <1>4, <2>1, <2>2
<1>10. AskedOpen'
  <2> SUFFICES ASSUME NEW d \in InstanceId, NEW x \in asked'[d]
               PROVE  /\ OnTheWay(d, x)
                      /\ x > 0 =>
                         /\ \A a \in 1 .. Len(msgq') : Carried(msgq'[a]) # x
                         /\ \A k \in 1 .. Len(pending) :
                              ~ (/\ pending[k] = d
                                 /\ msg[d].form = "command"
                                 /\ msg[d].id = x)
    BY <1>2, <1>6, <1>7 DEF AskedOpen
  <2>1. /\ x \in asked[d] /\ x \in Nat
        /\ d = i => x # r
    BY <1>2 DEF TypeOK
  <2>2. /\ OnTheWay(d, x)
        /\ x > 0 =>
             /\ \A a \in 1 .. Len(msgq) : Carried(msgq[a]) # x
             /\ \A k \in 1 .. Len(pending) :
                  ~ (pending[k] = d /\ msg[d].form = "command" /\ msg[d].id = x)
    BY <2>1 DEF AnswerInv, AskedOpen
  <2>3. x > 0 => x # r
    BY <1>5, <2>1, <2>2, OneInstance
  <2>4. QED
    BY <1>3, <1>4, <2>2, <2>3
<1>11. ResultsReplied'
  BY <1>2 DEF AnswerInv, ResultsReplied
<1>12. QED
  BY <1>6, <1>8, <1>9, <1>10, <1>11 DEF AnswerInv

(* A line taken for a packet of the CM4 carries no request. *)
LEMMA LineKeepsAnswers ==
  ASSUME TypeOK, AnswerInv, NEW i \in Serial, NEW control \in BOOLEAN,
         StartTokenLine(i, control)
  PROVE  AnswerInv'
<1> DEFINE pkt == [n |-> Len(log) + 1, type |-> "incoming", src |-> CM4,
                   dest |-> Unknown, control |-> control, id |-> 0,
                   answers |-> 0]
<1>1. pkt \in Packet
  BY ConstantsAssumption, LenProperties DEF ConstantsAssumption, TypeOK, Packet
<1>2. /\ HandlePacket(pkt)
      /\ UNCHANGED <<msg, pending, delivered, asked, issued, replies>>
  BY DEF StartTokenLine, workVars, peripheralVars
<1>3. Carried(pkt) = 0 /\ Device(pkt) = Unknown
  BY DEF Carried, Device
<1> HIDE DEF pkt
<1>4. \A a \in 1 .. Len(msgq') :
        \/ a \in 1 .. Len(msgq) /\ msgq'[a] = msgq[a]
        \/ a = Len(msgq) + 1 /\ msgq'[a] = pkt
  BY <1>1, <1>2, QueueAfter
<1>5. /\ OneOpen' /\ ReplyIsAnswer'
      /\ \A d, r : OnTheWay(d, r)' <=> OnTheWay(d, r)
  BY <1>2, SameRequests
<1>6. /\ \A a \in 1 .. Len(msgq') : Carried(msgq[a])' = Carried(msgq'[a])
      /\ \A a \in 1 .. Len(msgq') : Device(msgq[a])' = Device(msgq'[a])
  BY DEF Carried, Device
<1>7. OnTheWay(Unknown, 0)
  BY DEF OnTheWay
<1>8. QueueOpen'
  <2>1. \A a \in 1 .. Len(msgq') : OnTheWay(Device(msgq'[a]), Carried(msgq'[a]))
    BY <1>3, <1>4, <1>7 DEF AnswerInv, QueueOpen
  <2>2. \A a, b \in 1 .. Len(msgq') :
           Carried(msgq'[a]) > 0 /\ Carried(msgq'[a]) = Carried(msgq'[b])
             => a = b
    BY <1>3, <1>4 DEF AnswerInv, QueueOpen
  <2>3. QED
    BY <1>5, <1>6, <2>1, <2>2 DEF QueueOpen
<1>9. \A r : r > 0 /\ (\A a \in 1 .. Len(msgq) : Carried(msgq[a]) # r)
                => \A a \in 1 .. Len(msgq') : Carried(msgq'[a]) # r
  BY <1>3, <1>4
<1>10. SlotOpen'
  BY <1>2, <1>5, <1>6, <1>9 DEF AnswerInv, SlotOpen
<1>11. AskedOpen'
  BY <1>2, <1>5, <1>6, <1>9 DEF AnswerInv, AskedOpen
<1>12. ResultsReplied'
  BY <1>2 DEF AnswerInv, ResultsReplied
<1>13. QED
  BY <1>5, <1>8, <1>10, <1>11, <1>12 DEF AnswerInv

LEMMA SystemKeepsAnswers ==
  ASSUME PatientApplication, TypeOK, OrderInv, RequestInv, InboxOK,
         AnswerInv, [SysNext]_allVars
  PROVE  AnswerInv'
<1>1. CASE MainGoesOn
  BY <1>1, MainKeepsAnswers DEF MainGoesOn
<1>2. CASE PacketThread
  BY <1>2, HandleKeepsAnswers DEF PacketThread
<1>3. CASE StartWork
  BY <1>3, WorkKeepsAnswers DEF StartWork
<1>4. CASE ReadPacket
  <2>1. Head(inbox) \in Sent
    BY <1>4, HeadTailProperties DEF ReadPacket, InboxOK
  <2>2. /\ Head(inbox).dest \in Addressed /\ Head(inbox).dest # Unknown
        /\ Head(inbox).id \in RequestId /\ Head(inbox).id # 0
    BY <2>1 DEF Sent
  <2>3. QED
    BY <1>4, <2>2, RequestKeepsAnswers DEF ReadPacket
<1>5. CASE ReadNothing
  <2>1. Unknown \in Addressed /\ 0 \in RequestId
    BY SystemAssumption DEF SystemAssumption
  <2>2. QED
    BY <1>5, <2>1, RequestKeepsAnswers DEF ReadNothing
<1>6. ASSUME NEW i \in InstanceId \ {Cloud}, NEW r \in RequestId \cup {0},
             PeripheralSpeaks(i, r)
      PROVE  AnswerInv'
  BY <1>6, ConstantsAssumption, SpeakingKeepsAnswers
     DEF PeripheralSpeaks, ConstantsAssumption
<1>7. ASSUME UNCHANGED <<issued, replies, msgq, msg, pending, delivered, asked>>
      PROVE  AnswerInv'
  BY <1>7
     DEF AnswerInv, OneOpen, ResultsReplied, QueueOpen, SlotOpen, AskedOpen,
         ReplyIsAnswer, OnTheWay, OpenFor, Carried, Device
<1>8. CASE \/ UNCHANGED allVars \/ MainReturns \/ LinkLost \/ Wake
           \/ NothingThere \/ EndWork
  BY <1>7, <1>8
     DEF allVars, vars, MainReturns, LinkLost, Wake, NothingThere, EndWork,
         FinishWork
<1>9. ASSUME NEW dest \in Addressed \ {Unknown}, NEW id \in RequestId \ {0},
             CloudSends(dest, id)
      PROVE  AnswerInv'
  BY <1>7, <1>9 DEF CloudSends, vars
<1>10. ASSUME NEW i \in Serial, NEW control \in BOOLEAN,
              PeripheralBabbles(i, control)
       PROVE  AnswerInv'
  BY <1>10, LineKeepsAnswers DEF PeripheralBabbles
<1>11. QED
  BY <1>1, <1>2, <1>3, <1>4, <1>5, <1>6, <1>8, <1>9, <1>10 DEF SysNext, Reader

(* An application that waits for a result before it asks an instance again *)
(* gets the answers to its own requests, whatever is overwritten in a      *)
(* slot, refused by the queue or lost with the connection.                 *)
THEOREM ResultsMatch ==
  ASSUME PatientApplication
  PROVE  SysSpec => []ReplyIsAnswer
<1>1. SysInit => AnswerInv
  <2> SUFFICES ASSUME SysInit PROVE AnswerInv
    OBVIOUS
  <2>1. /\ \A a \in 1 .. Len(<<>>) : FALSE
        /\ Cloud \in InstanceId
    BY ConstantsAssumption DEF ConstantsAssumption
  <2>2. QED
    BY <2>1
       DEF SysInit, Init, EmptyMessage, AnswerInv, OneOpen, ResultsReplied,
           QueueOpen, SlotOpen, AskedOpen, ReplyIsAnswer
<1>2. TypeOK /\ OrderInv /\ RequestInv /\ InboxOK /\ AnswerInv
        /\ [SysNext]_allVars => AnswerInv'
  BY SystemKeepsAnswers
<1>3. IInv => TypeOK /\ OrderInv
  BY DEF IInv, OrderInv
<1>4. AnswerInv => ReplyIsAnswer
  BY DEF AnswerInv
<1>5. SysSpec => [](IInv /\ RequestInv)
  BY SystemImplements, InvariantHolds, RequestsHold, PTL
<1>6. SysSpec => []InboxOK
  BY InboxInit, InboxStep, PTL DEF SysSpec
<1>7. QED
  BY <1>1, <1>2, <1>3, <1>4, <1>5, <1>6, PTL DEF SysSpec

=============================================================================
