--------------------------- MODULE BleCentralProofs ---------------------------
(***************************************************************************)
(* What the stack's thread makes sure of, and that every variable keeps to *)
(* its type: for all devices, clients, faults and lengths.  And what a     *)
(* client that waits for its answers is promised, as long as set-up        *)
(* connections hold and no read fails: its answers arrive in order and     *)
(* whole, and its commands at the device they are for.                     *)
(***************************************************************************)
EXTENDS BleCentral, SequenceTheorems, WellFoundedInduction, TLAPS

(* A connection that is created overwrites none, which is why the event    *)
(* stays true.                                                             *)
ConnectionInv == CheckedStaysTrue /\ AvailableUnlessUp

(* What the work queue's thread does leaves the connection, the event and  *)
(* the stack's thread as they are.                                         *)
LEMMA SendKeeps ==
  ASSUME (\E m \in Message : SendBleMessage(m)) \/ Work
  PROVE  UNCHANGED <<conn, bt, avail>>
BY DEF SendBleMessage, Work, WorkAdds, WorkScans, linkVars

(* Every callback of the stack keeps the invariant. *)
LEMMA ConnectingKeeps ==
  ASSUME ConnectionInv, Connecting
  PROVE  ConnectionInv'
<1> USE DEF ConnectionInv, CheckedStaysTrue, AvailableUnlessUp
<1>1. CASE DeviceFound
  BY <1>1 DEF DeviceFound, linkVars
<1>2. CASE CreateConnection
  <2>1. conn' = conn /\ avail' = avail
    BY <1>2 DEF CreateConnection, linkVars
  <2>2. bt'.at = "creating" => conn = "none"
    BY <1>2 DEF CreateConnection
  <2>3. bt'.at \notin {"adding", "starting"}
    BY <1>2 DEF CreateConnection
  <2> QED
    BY <2>1, <2>2, <2>3
<1>3. CASE CreateReturns
  <2>1. conn = "none" /\ avail' = avail
    BY <1>3 DEF CreateReturns
  <2>2. CASE conn' = "pending" /\ bt' = Awake
    BY <2>1, <2>2 DEF Awake
  <2>3. CASE conn' = conn
    BY <2>1, <2>3
  <2> QED
    BY <1>3, <2>2, <2>3 DEF CreateReturns
<1>4. CASE ConnectionFailed
  BY <1>4 DEF ConnectionFailed
<1>5. CASE Connected
  BY <1>5 DEF Connected, threadVars, AvailAfterConnect, Awake
<1>6. CASE Disconnected
  BY <1>6 DEF Disconnected
<1>7. CASE RetryConnect
  <2>1. conn' = conn /\ avail' = avail
    BY <1>7 DEF RetryConnect, linkVars
  <2>2. bt' = Awake \/ conn = "none"
    BY <1>7 DEF RetryConnect, connect, isConnected
  <2> QED
    BY <2>1, <2>2 DEF Awake
<1>8. CASE RetryAdds \/ RetryScans
  <2>1. conn' = conn /\ avail' = avail
    BY <1>8 DEF RetryAdds, RetryScans, linkVars
  <2>2. bt.at \in {"adding", "starting"}
    BY <1>8 DEF RetryAdds, RetryScans, AddressAdded, ScanStarted
  <2> QED
    BY <2>1, <2>2
<1> QED
  BY <1>1, <1>2, <1>3, <1>4, <1>5, <1>6, <1>7, <1>8 DEF Connecting

(* The rest of the stack does not touch the thread, and lets a connection  *)
(* go down at most.                                                        *)
LEMMA RestKeeps ==
  ASSUME ConnectionInv,
         \/ ConnectionEnds
         \/ Discovery
         \/ ReadChunk
         \/ ReadEnds
         \/ Notification
         \/ WriteGoesOn
  PROVE  ConnectionInv'
<1> USE DEF ConnectionInv, CheckedStaysTrue, AvailableUnlessUp
<1>1. UNCHANGED <<bt, avail>>
  BY DEF ConnectionEnds, Discovery, ReadChunk, ReadEnds, Notification,
         WriteGoesOn, ServiceFound, PrimaryDone, CharacteristicFound,
         CharacteristicsDone, NextSearch, DescriptorFound, NoDescriptor,
         DiscoveryDone, threadVars
<1>2. conn' = conn \/ (conn = "up" /\ conn' = "down")
  <2>1. CASE ConnectionEnds
    BY <2>1 DEF ConnectionEnds
  <2>2. CASE Discovery
    BY <2>2 DEF Discovery, ServiceFound, PrimaryDone, CharacteristicFound,
                CharacteristicsDone, NextSearch, DescriptorFound, NoDescriptor,
                DiscoveryDone, linkVars
  <2>3. CASE ReadChunk
    BY <2>3 DEF ReadChunk, linkVars
  <2>4. CASE ReadEnds
    BY <2>4 DEF ReadEnds, linkVars
  <2>5. CASE Notification
    BY <2>5 DEF Notification, ConnAfterLastPart, linkVars
  <2>6. CASE WriteGoesOn
    BY <2>6 DEF WriteGoesOn, linkVars
  <2> QED
    BY <2>1, <2>2, <2>3, <2>4, <2>5, <2>6
<1> QED
  BY <1>1, <1>2

LEMMA ConnectionInvHolds == Spec => []ConnectionInv
<1>1. Init => ConnectionInv
  BY DEF Init, ConnectionInv, CheckedStaysTrue, AvailableUnlessUp, Awake
<1>2. ConnectionInv /\ [Next]_vars => ConnectionInv'
  <2> SUFFICES ASSUME ConnectionInv, [Next]_vars
               PROVE  ConnectionInv'
    OBVIOUS
  <2>1. CASE (\E m \in Message : SendBleMessage(m)) \/ Work
    BY <2>1, SendKeeps DEF ConnectionInv, CheckedStaysTrue, AvailableUnlessUp
  <2>2. CASE Connecting
    BY <2>2, ConnectingKeeps
  <2>3. CASE ConnectionEnds \/ Discovery \/ ReadChunk \/ ReadEnds
               \/ Notification \/ WriteGoesOn
    BY <2>3, RestKeeps
  <2>4. CASE UNCHANGED vars
    BY <2>4 DEF vars, linkVars, threadVars, ConnectionInv, CheckedStaysTrue,
                AvailableUnlessUp
  <2> QED
    BY <2>1, <2>2, <2>3, <2>4 DEF Next, Stack
<1> QED
  BY <1>1, <1>2, PTL DEF Spec

(* When the stack's thread goes on after it waited for the controller      *)
(* there is still no connection, whatever the client sent meanwhile.       *)
THEOREM ChecksHold == Spec => []CheckedStaysTrue
<1>1. ConnectionInv => CheckedStaysTrue
  BY DEF ConnectionInv
<1> QED
  BY <1>1, ConnectionInvHolds, PTL

(* The event of waitAvailable is posted exactly while no connection is up  *)
(* or waiting to be given back.                                            *)
THEOREM EventSafe == Spec => []AvailableUnlessUp
<1>1. ConnectionInv => AvailableUnlessUp
  BY DEF ConnectionInv
<1> QED
  BY <1>1, ConnectionInvHolds, PTL

-----------------------------------------------------------------------------
(* The types. *)

(* Whoever is connected or connected to is a device, and what is under way *)
(* belongs to a message.                                                   *)
PartiesKnown ==
  /\ conn # "none" => peer \in Device
  /\ bt.at \in {"found", "creating"} => bt.dev \in Device
  /\ writing # NoWrite => writing.msg # 0
  /\ Len(writing.data) <= CommandLength
  /\ answer # NoAnswer => answer.msg # 0

TypeInv == TypeOK /\ PartiesKnown

Address == Device \cup {NoDevice}

(* A write under way. *)
Write == [msg : 1 .. MaxMessages, handle : Nat, data : Seq(Unit)]

LEMMA SmallerOfTwo ==
  ASSUME NEW m \in Nat, NEW n \in Nat
  PROVE  /\ Min({m, n}) \in Nat /\ Min({m, n}) <= m /\ Min({m, n}) <= n
         /\ Min({m, n}) \in {m, n}
<1>1. \E x \in {m, n} : \A y \in {m, n} : x <= y
  OBVIOUS
<1> QED
  BY <1>1 DEF Min

LEMMA FaultCounts ==
  ASSUME TypeOK, NEW kind, Fault(kind)
  PROVE  faults' \in 0 .. MaxFaults
BY ConstantsAssumption DEF TypeOK, Fault

LEMMA CommandUnits ==
  ASSUME NEW m \in 1 .. MaxMessages
  PROVE  Command(m) \in Seq(Unit) /\ Len(Command(m)) = CommandLength
<1>1. CommandLength \in Nat
  BY ConstantsAssumption
<1>2. \A k \in 1 .. CommandLength : <<"message", m, k>> \in Unit
  BY <1>1 DEF Unit
<1> QED
  BY <1>1, <1>2 DEF Command

(* The buffer behind a message that was put into it. *)
LEMMA BufferUnits ==
  ASSUME TypeOK, NEW m \in 1 .. MaxMessages
  PROVE  /\ BufAfterWrite(m) \in [1 .. BufferSize -> Unit]
         /\ \A k \in 1 .. CommandLength : BufAfterWrite(m)[k] = Command(m)[k]
<1> DEFINE head == Command(m)
           tail == SubSeq(buf, CommandLength + 1, BufferSize)
<1>1. CommandLength \in Nat /\ BufferSize \in Nat /\ CommandLength <= BufferSize
  BY ConstantsAssumption
<1>2. head \in Seq(Unit) /\ Len(head) = CommandLength
  BY CommandUnits
<1>3. tail \in Seq(Unit) /\ Len(tail) = BufferSize - CommandLength
  <2>1. \A i \in CommandLength + 1 .. BufferSize : buf[i] \in Unit
    BY <1>1 DEF TypeOK
  <2>2. CommandLength + 1 \in Int /\ BufferSize \in Int
    BY <1>1
  <2>3. /\ tail \in Seq(Unit)
        /\ Len(tail) = IF CommandLength + 1 <= BufferSize
                       THEN BufferSize - (CommandLength + 1) + 1 ELSE 0
    BY <2>1, <2>2, SubSeqProperties
  <2> QED
    BY <1>1, <2>3
<1>4. BufAfterWrite(m) = head \o tail
  BY DEF BufAfterWrite
<1> HIDE DEF head, tail
<1>5. /\ head \o tail \in Seq(Unit) /\ Len(head \o tail) = Len(head) + Len(tail)
      /\ \A i \in 1 .. Len(head) + Len(tail) :
           (head \o tail)[i] = IF i <= Len(head) THEN head[i] ELSE tail[i - Len(head)]
  BY <1>2, <1>3, ConcatProperties
<1>6. Len(head \o tail) = BufferSize
  BY <1>1, <1>2, <1>3, <1>5
<1>7. head \o tail \in [1 .. BufferSize -> Unit]
  BY <1>5, <1>6, LenProperties
<1>8. \A k \in 1 .. CommandLength : (head \o tail)[k] = head[k]
  BY <1>1, <1>2, <1>3, <1>5
<1> QED
  BY <1>4, <1>7, <1>8 DEF head

(* The next PDU adds units of the buffer, and never more than a message.   *)
LEMMA PduUnits ==
  ASSUME NEW w \in Write, NEW b \in [1 .. BufferSize -> Unit],
         Len(w.data) <= CommandLength
  PROVE  /\ WithNextPdu(w, b) \in Write
         /\ WithNextPdu(w, b).msg = w.msg /\ WithNextPdu(w, b).handle = w.handle
         /\ Len(WithNextPdu(w, b).data) <= CommandLength
         /\ \A k \in 1 .. Len(WithNextPdu(w, b).data) :
              WithNextPdu(w, b).data[k] = IF k <= Len(w.data) THEN w.data[k] ELSE b[k]
<1> DEFINE old == w.data
           n == Min({Len(old) + PduLength, CommandLength})
           more == SubSeq(b, Len(old) + 1, n)
<1>1. /\ CommandLength \in Nat /\ BufferSize \in Nat /\ CommandLength <= BufferSize
      /\ PduLength \in Nat
  BY ConstantsAssumption
<1>2. old \in Seq(Unit) /\ Len(old) \in Nat
  BY DEF Write
<1>3. /\ n \in Nat /\ n <= CommandLength
      /\ n >= Len(old)
  BY <1>1, <1>2, SmallerOfTwo
<1> HIDE DEF n
<1>4. /\ more \in Seq(Unit) /\ Len(more) = n - Len(old)
      /\ \A i \in 1 .. n - Len(old) : more[i] = b[Len(old) + i]
  <2>1. \A i \in Len(old) + 1 .. n : b[i] \in Unit
    BY <1>1, <1>2, <1>3
  <2>2. Len(old) + 1 \in Int /\ n \in Int
    BY <1>2, <1>3
  <2> HIDE DEF old
  <2>3. /\ more \in Seq(Unit)
        /\ Len(more) = IF Len(old) + 1 <= n THEN n - (Len(old) + 1) + 1 ELSE 0
        /\ \A i \in 1 .. n - (Len(old) + 1) + 1 : more[i] = b[Len(old) + 1 + i - 1]
    BY <2>1, <2>2, SubSeqProperties
  <2>4. Len(old) \in Int
    BY <1>2
  <2>5. n - (Len(old) + 1) + 1 = n - Len(old)
    BY <2>2, <2>4
  <2>6. \A i \in 1 .. n - Len(old) : Len(old) + 1 + i - 1 = Len(old) + i
    BY <2>2, <2>4
  <2>7. \A i \in 1 .. n - Len(old) : more[i] = b[Len(old) + i]
    BY <2>3, <2>5, <2>6
  <2> HIDE DEF more
  <2> QED
    BY <1>2, <1>3, <2>3, <2>7
<1>5. WithNextPdu(w, b) = [w EXCEPT !.data = old \o more]
  BY DEF WithNextPdu, n
<1> HIDE DEF old, more
<1>6. /\ old \o more \in Seq(Unit) /\ Len(old \o more) = Len(old) + Len(more)
      /\ \A i \in 1 .. Len(old) + Len(more) :
           (old \o more)[i] = IF i <= Len(old) THEN old[i] ELSE more[i - Len(old)]
  BY <1>2, <1>4, ConcatProperties
<1>7. Len(old \o more) = n
  BY <1>2, <1>3, <1>4, <1>6
<1>8. ASSUME NEW k \in 1 .. n
      PROVE  (old \o more)[k] = IF k <= Len(old) THEN old[k] ELSE b[k]
  <2>1. k \in 1 .. Len(old) + Len(more)
    BY <1>2, <1>3, <1>4
  <2>2. CASE k <= Len(old)
    BY <1>6, <2>1, <2>2
  <2>3. CASE ~ (k <= Len(old))
    <3>1. k - Len(old) \in 1 .. n - Len(old) /\ Len(old) + (k - Len(old)) = k
      BY <1>2, <1>3, <2>3
    <3> QED
      BY <1>4, <1>6, <2>1, <2>3, <3>1
  <2> QED
    BY <2>2, <2>3
<1>9. /\ WithNextPdu(w, b).data = old \o more
      /\ WithNextPdu(w, b).msg = w.msg /\ WithNextPdu(w, b).handle = w.handle
      /\ WithNextPdu(w, b) \in Write
  BY <1>5, <1>6 DEF Write
<1> QED
  BY <1>3, <1>7, <1>8, <1>9 DEF old

(* A number of the attributes of a device is least. *)
LEMMA LeastExists ==
  ASSUME NEW E, E \subseteq Nat, E # {}
  PROVE  Min(E) \in E /\ \A j \in E : Min(E) <= j
<1> DEFINE Less == OpToRel(<, Nat)
<1>1. IsWellFoundedOn(Less, Nat)
  BY NatLessThanWellFounded
<1>2. PICK n \in E : \A j \in E : ~ (<<j, n>> \in Less)
  BY <1>1, WFMin
<1>3. \A j \in E : ~ (j < n)
  BY <1>2 DEF OpToRel
<1>4. \A j \in E : n <= j
  BY <1>3
<1> QED
  BY <1>4 DEF Min

LEMMA HandlesCount ==
  ASSUME NEW d \in Device
  PROVE  /\ Handles(d) \subseteq Nat \ {0}
         /\ Table[d] \in Seq([type : AttributeType, uuid : Uuid])
<1>1. Table[d] \in Seq([type : AttributeType, uuid : Uuid])
  BY ConstantsAssumption
<1> QED
  BY <1>1 DEF Handles

LEMMA ValueHandleCounts ==
  ASSUME NEW d \in Device, NEW short
  PROVE  ValueHandle(d, short) \in Nat
BY HandlesCount DEF ValueHandle

(* What lies ahead of a search has a least handle. *)
LEMMA AheadCounts ==
  ASSUME TypeOK, conn = "up", PartiesKnown, NEW E, E # {},
         \/ E \subseteq Handles(peer)
  PROVE  Min(E) \in E /\ Min(E) \in Nat \ {0} /\ \A h \in E : Min(E) <= h
<1>1. E \subseteq Nat \ {0}
  BY HandlesCount DEF PartiesKnown
<1> QED
  BY <1>1, LeastExists

(* Where a thread stands in connect. *)
Step == [at : {"idle", "adding", "starting"}, dev : Address]

(* To connect makes out an address, puts it on the list and scans.         *)
LEMMA ConnectTypes ==
  ASSUME TypeOK, NEW addresses, addresses \subseteq Address,
         NEW after, connect(after, addresses)
  PROVE  after \in Step /\ devAddr' \in Address
<1>1. CASE after = Awake /\ UNCHANGED devAddr
  BY <1>1 DEF Awake, Step, Address, TypeOK
<1>2. CASE \E a \in addresses :
             devAddr' = a /\ after = [at |-> "adding", dev |-> a]
  BY <1>2 DEF Step, Address
<1> QED
  BY <1>1, <1>2 DEF connect

LEMMA AddTypes ==
  ASSUME TypeOK, NEW now, now.dev \in Address, NEW after, AddressAdded(now, after)
  PROVE  /\ now.at = "adding" /\ after = [now EXCEPT !.at = "starting"]
         /\ accept' \subseteq Device
BY DEF AddressAdded, AcceptAfter, TypeOK, Address

LEMMA StartTypes ==
  ASSUME TypeOK, NEW now, NEW after, ScanStarted(now, after)
  PROVE  /\ now.at = "starting" /\ after = Awake
         /\ scanning' \in BOOLEAN /\ faults' \in 0 .. MaxFaults
<1>1. now.at = "starting" /\ after = Awake
  BY DEF ScanStarted
<1>2. scanning' \in BOOLEAN
  BY DEF ScanStarted, TypeOK
<1>3. faults' \in 0 .. MaxFaults
  BY FaultCounts DEF ScanStarted, TypeOK
<1> QED
  BY <1>1, <1>2, <1>3

(* What a PDU leaves under way, and what it completes. *)
LEMMA SentTypes ==
  ASSUME TypeInv, conn = "up", NEW w \in Write, Len(w.data) <= CommandLength,
         Sent(w)
  PROVE  /\ writing' \in Write \cup {NoWrite}
         /\ Len(writing'.data) <= CommandLength
         /\ writes' \in Seq([msg : 1 .. MaxMessages, handle : Nat, dev : Device,
                             data : Seq(Unit)])
         /\ answer' \in [msg : 0 .. MaxMessages, len : Nat, sent : Nat]
         /\ answer' # NoAnswer => answer'.msg # 0
<1>1. CommandLength \in Nat
  BY ConstantsAssumption
<1>2. peer \in Device
  BY DEF TypeInv, PartiesKnown
<1>3. writing' \in Write \cup {NoWrite} /\ Len(writing'.data) <= CommandLength
  BY <1>1 DEF Sent, NoWrite
<1>4. writes' \in Seq([msg : 1 .. MaxMessages, handle : Nat, dev : Device,
                       data : Seq(Unit)])
  <2> DEFINE Written == [msg : 1 .. MaxMessages, handle : Nat, dev : Device,
                         data : Seq(Unit)]
             r == [msg |-> w.msg, handle |-> w.handle, dev |-> peer, data |-> w.data]
  <2>1. r \in Written
    BY <1>2 DEF Write
  <2>2. writes' = writes \/ writes' = Append(writes, r)
    BY DEF Sent
  <2>3. writes \in Seq(Written)
    BY DEF TypeInv, TypeOK
  <2> HIDE DEF Written, r
  <2>4. writes' \in Seq(Written)
    BY <2>1, <2>2, <2>3
  <2> QED
    BY <2>4 DEF Written
<1>5. /\ answer' \in [msg : 0 .. MaxMessages, len : Nat, sent : Nat]
      /\ answer' # NoAnswer => answer'.msg # 0
  <2>1. CASE UNCHANGED answer
    BY <2>1 DEF TypeInv, TypeOK, PartiesKnown
  <2>2. CASE \E n \in ResultLengths :
               answer' = [msg |-> w.msg, len |-> n, sent |-> 0]
    <3>1. PICK n \in ResultLengths : answer' = [msg |-> w.msg, len |-> n, sent |-> 0]
      BY <2>2
    <3>2. n \in Nat /\ MaxMessages \in Nat
      BY ConstantsAssumption
    <3> QED
      BY <3>1, <3>2 DEF Write
  <2> QED
    BY <2>1, <2>2 DEF Sent
<1> QED
  BY <1>3, <1>4, <1>5

(* A message for a device that is connected. *)
LEMMA WriteTypes ==
  ASSUME TypeInv, NEW m \in 1 .. MaxMessages, write(m)
  PROVE  /\ buf' \in [1 .. BufferSize -> Unit]
         /\ writing' \in Write \cup {NoWrite}
         /\ Len(writing'.data) <= CommandLength
         /\ writes' \in Seq([msg : 1 .. MaxMessages, handle : Nat, dev : Device,
                             data : Seq(Unit)])
         /\ answer' \in [msg : 0 .. MaxMessages, len : Nat, sent : Nat]
         /\ answer' # NoAnswer => answer'.msg # 0
         /\ faults' \in 0 .. MaxFaults
<1>1. buf' \in [1 .. BufferSize -> Unit]
  BY BufferUnits DEF write, TypeInv, TypeOK
<1>2. writing \in Write \cup {NoWrite} /\ Len(writing.data) <= CommandLength
  BY DEF TypeInv, TypeOK, PartiesKnown, Write
<1>3. CASE UNCHANGED <<writes, deviceVars>> /\ (UNCHANGED faults \/ Fault("write"))
  <2>1. faults' \in 0 .. MaxFaults
    BY <1>3, FaultCounts DEF TypeInv, TypeOK
  <2>2. writes' = writes /\ writing' = writing /\ answer' = answer
    BY <1>3 DEF deviceVars
  <2> QED
    BY <1>1, <1>2, <2>1, <2>2 DEF TypeInv, TypeOK, PartiesKnown
<1>4. CASE /\ conn = "up"
           /\ UNCHANGED faults
           /\ \E w \in Started(m) : Sent(WithNextPdu(w, buf'))
  <2>1. PICK w \in Started(m) : Sent(WithNextPdu(w, buf'))
    BY <1>4
  <2>2. controlHandle \in Nat /\ CommandLength \in Nat
    BY ConstantsAssumption DEF TypeInv, TypeOK
  <2>3. w \in Write /\ Len(w.data) <= CommandLength
    <3>1. writing.data \in Seq(Unit)
      BY DEF TypeInv, TypeOK
    <3>2. /\ w.msg = m /\ w.handle = controlHandle
          /\ w.data = <<>> \/ w.data = writing.data
          /\ w = [msg |-> m, handle |-> controlHandle, data |-> w.data]
      BY DEF Started
    <3>3. w.data \in Seq(Unit) /\ Len(w.data) <= CommandLength
      <4>1. CASE w.data = writing.data
        BY <1>2, <3>1, <4>1, Zenon
      <4>2. CASE w.data = <<>>
        BY <2>2, <4>2
      <4> QED
        BY <3>2, <4>1, <4>2
    <3> QED
      BY <2>2, <3>2, <3>3 DEF Write
  <2>4. /\ WithNextPdu(w, buf') \in Write
        /\ Len(WithNextPdu(w, buf').data) <= CommandLength
    BY <1>1, <2>3, PduUnits
  <2>5. faults' \in 0 .. MaxFaults
    BY <1>4 DEF TypeInv, TypeOK
  <2> QED
    BY <1>1, <1>4, <2>1, <2>4, <2>5, SentTypes
<1> QED
  BY <1>3, <1>4 DEF write

LEMMA AppendKeeps ==
  ASSUME NEW S, NEW s \in Seq(S), NEW e \in S
  PROVE  Append(s, e) \in Seq(S)
OBVIOUS

LEMMA EmptyIsSequence ==
  ASSUME NEW S
  PROVE  <<>> \in Seq(S) /\ Len(<<>>) = 0
OBVIOUS

(* Nothing under way. *)
LEMMA NothingUnderWay ==
  /\ NoWrite \in [msg : 0 .. MaxMessages, handle : Nat, data : Seq(Unit)]
  /\ NoWrite.data = <<>> /\ Len(NoWrite.data) <= CommandLength
  /\ NoAnswer \in [msg : 0 .. MaxMessages, len : Nat, sent : Nat]
<1>1. 0 \in 0 .. MaxMessages /\ <<>> \in Seq(Unit) /\ Len(<<>>) = 0
      /\ CommandLength \in Nat
  BY ConstantsAssumption, EmptyIsSequence
<1>2. NoWrite.data = <<>>
  BY DEF NoWrite
<1>3. NoWrite \in [msg : 0 .. MaxMessages, handle : Nat, data : Seq(Unit)]
  BY <1>1 DEF NoWrite
<1>4. NoAnswer \in [msg : 0 .. MaxMessages, len : Nat, sent : Nat]
  BY <1>1 DEF NoAnswer
<1> QED
  BY <1>1, <1>2, <1>3, <1>4

(* The types by the groups of variables that the operations leave alone.   *)
LinkTypes ==
  /\ conn \in {"none", "pending", "up", "down"}
  /\ peer \in Device \cup {NoDevice}
  /\ reason \in {"local", "device", "loss"}
  /\ conn # "none" => peer \in Device
ScanTypes ==
  scanning \in BOOLEAN /\ devAddr \in Address /\ accept \subseteq Device
ThreadTypes ==
  /\ bt \in [at : {"idle", "found", "creating", "asleep", "adding", "starting"},
             dev : Address]
  /\ bt.at \in {"found", "creating"} => bt.dev \in Device
  /\ work \in Step
SetupTypes ==
  /\ stage \in {"none", "primary", "characteristics", "descriptor",
                "subscribe", "read", "ready", "stalled"}
  /\ {cursor, nextHandle, sessionHandle, controlHandle} \subseteq Nat
  /\ subscription \in [value : Nat, ccc : Nat]
DataTypes == offset \in Nat /\ buf \in [1 .. BufferSize -> Unit] /\ ctr \in Nat
DeviceTypes ==
  /\ writing \in [msg : 0 .. MaxMessages, handle : Nat, data : Seq(Unit)]
  /\ writing # NoWrite => writing.msg # 0
  /\ Len(writing.data) <= CommandLength
  /\ answer \in [msg : 0 .. MaxMessages, len : Nat, sent : Nat]
  /\ answer # NoAnswer => answer.msg # 0
ClientTypes ==
  /\ {behind, workLock} \subseteq BOOLEAN
  /\ messages \in Seq(Message)
  /\ writes \in Seq([msg : 1 .. MaxMessages, handle : Nat, dev : Device,
                     data : Seq(Unit)])
RestTypes ==
  avail \in BOOLEAN /\ handed \in Seq(Seq(Unit)) /\ faults \in 0 .. MaxFaults

LEMMA TypeParts ==
  /\ TypeInv <=> LinkTypes /\ ScanTypes /\ ThreadTypes /\ SetupTypes /\ DataTypes
                 /\ DeviceTypes /\ ClientTypes /\ RestTypes
  /\ TypeInv' <=> LinkTypes' /\ ScanTypes' /\ ThreadTypes' /\ SetupTypes' /\ DataTypes'
                  /\ DeviceTypes' /\ ClientTypes' /\ RestTypes'
<1> USE DEF TypeInv, TypeOK, PartiesKnown, LinkTypes, ScanTypes, ThreadTypes,
            SetupTypes, DataTypes, DeviceTypes, ClientTypes, RestTypes, Address, Step
<1>1. TypeInv <=> LinkTypes /\ ScanTypes /\ ThreadTypes /\ SetupTypes /\ DataTypes
                    /\ DeviceTypes /\ ClientTypes /\ RestTypes
  BY Zenon
<1>2. TypeInv' <=> LinkTypes' /\ ScanTypes' /\ ThreadTypes' /\ SetupTypes' /\ DataTypes'
                     /\ DeviceTypes' /\ ClientTypes' /\ RestTypes'
  BY Zenon
<1> QED
  BY <1>1, <1>2

(* What an operation leaves alone keeps its type.                          *)
LEMMA TypesStay ==
  ASSUME TypeInv
  PROVE  /\ UNCHANGED linkVars => LinkTypes'
         /\ UNCHANGED scanVars => ScanTypes'
         /\ UNCHANGED threadVars => ThreadTypes'
         /\ UNCHANGED setupVars => SetupTypes'
         /\ UNCHANGED dataVars => DataTypes'
         /\ UNCHANGED deviceVars => DeviceTypes'
         /\ UNCHANGED clientVars => ClientTypes'
         /\ UNCHANGED <<avail, handed, faults>> => RestTypes'
<1>1. UNCHANGED linkVars => LinkTypes'
  BY TypeParts DEF linkVars, LinkTypes
<1>2. UNCHANGED scanVars => ScanTypes'
  BY TypeParts DEF scanVars, ScanTypes
<1>3. UNCHANGED threadVars => ThreadTypes'
  BY TypeParts DEF threadVars, ThreadTypes
<1>4. UNCHANGED setupVars => SetupTypes'
  BY TypeParts DEF setupVars, handleVars, SetupTypes
<1>5. UNCHANGED dataVars => DataTypes'
  BY TypeParts DEF dataVars, DataTypes
<1>6. UNCHANGED deviceVars => DeviceTypes'
  BY TypeParts DEF deviceVars, DeviceTypes
<1>7. UNCHANGED clientVars => ClientTypes'
  BY TypeParts DEF clientVars, ClientTypes
<1>8. UNCHANGED <<avail, handed, faults>> => RestTypes'
  BY TypeParts DEF RestTypes
<1> QED
  BY <1>1, <1>2, <1>3, <1>4, <1>5, <1>6, <1>7, <1>8

(* A message that is sent keeps the types. *)
LEMMA SendTypes ==
  ASSUME TypeInv, NEW m \in Message, SendBleMessage(m)
  PROVE  TypeInv'
<1> DEFINE n == Len(messages) + 1
<1>1. n \in 1 .. MaxMessages
  BY ConstantsAssumption DEF SendBleMessage, MaySend, TypeInv, TypeOK
<1>2. UNCHANGED <<linkVars, scanning, accept, bt, avail, setupVars, offset, ctr,
                  handed>>
  BY DEF SendBleMessage
<1>3. messages' \in Seq(Message) /\ workLock' \in BOOLEAN /\ behind' \in BOOLEAN
  <2>1. messages' \in Seq(Message)
    BY DEF SendBleMessage, TypeInv, TypeOK
  <2>2. workLock' \in BOOLEAN
    BY DEF SendBleMessage
  <2>3. behind \in BOOLEAN
    BY DEF TypeInv, TypeOK
  <2>4. BehindAfter(m) \subseteq BOOLEAN
    BY <2>3 DEF BehindAfter
  <2> QED
    BY <2>1, <2>2, <2>4 DEF SendBleMessage
<1>4. /\ work' \in Step
      /\ devAddr' \in Address
      /\ faults' \in 0 .. MaxFaults
      /\ buf' \in [1 .. BufferSize -> Unit]
      /\ writing' \in Write \cup {NoWrite}
      /\ Len(writing'.data) <= CommandLength
      /\ writes' \in Seq([msg : 1 .. MaxMessages, handle : Nat, dev : Device,
                          data : Seq(Unit)])
      /\ answer' \in [msg : 0 .. MaxMessages, len : Nat, sent : Nat]
      /\ answer' # NoAnswer => answer'.msg # 0
  <2>1. writing \in Write \cup {NoWrite} /\ Len(writing.data) <= CommandLength
    BY DEF TypeInv, TypeOK, PartiesKnown, Write
  <2>2. ASSUME UNCHANGED <<buf, writes, deviceVars>>
        PROVE  /\ buf' \in [1 .. BufferSize -> Unit]
               /\ writing' \in Write \cup {NoWrite}
               /\ Len(writing'.data) <= CommandLength
               /\ writes' \in Seq([msg : 1 .. MaxMessages, handle : Nat, dev : Device,
                                   data : Seq(Unit)])
               /\ answer' \in [msg : 0 .. MaxMessages, len : Nat, sent : Nat]
               /\ answer' # NoAnswer => answer'.msg # 0
    <3>1. buf' = buf /\ writes' = writes /\ writing' = writing /\ answer' = answer
      BY <2>2 DEF deviceVars
    <3> QED
      BY <2>1, <3>1 DEF TypeInv, TypeOK, PartiesKnown
  <2>3. CASE /\ ~ isConnected /\ connect(work', AddressIn(m))
             /\ UNCHANGED <<faults, buf, writes, deviceVars>>
    <3>1. AddressIn(m) \subseteq Address
      BY DEF AddressIn, Message, Address, TypeInv, TypeOK
    <3>2. work' \in Step /\ devAddr' \in Address
      BY <2>3, <3>1, ConnectTypes DEF TypeInv
    <3>3. faults' = faults
      BY <2>3
    <3> QED
      BY <2>2, <2>3, <3>2, <3>3 DEF TypeInv, TypeOK
  <2>4. CASE UNCHANGED <<devAddr, work, faults, buf, writes, deviceVars>>
    BY <2>2, <2>4 DEF TypeInv, TypeOK, Address, Step
  <2>5. CASE write(n) /\ UNCHANGED <<devAddr, work>>
    BY <1>1, <2>5, WriteTypes DEF TypeInv, TypeOK, Address, Step
  <2> QED
    BY <2>3, <2>4, <2>5 DEF SendBleMessage
<1>5. /\ UNCHANGED <<scanning, accept, bt, avail, stage, cursor, offset, ctr, handed>>
      /\ UNCHANGED <<nextHandle, sessionHandle, controlHandle, subscription>>
  BY <1>2 DEF setupVars, handleVars
<1>6. DeviceTypes'
  <2>1. CASE writing' = NoWrite
    BY <1>4, <2>1, NothingUnderWay DEF DeviceTypes
  <2>2. CASE writing' \in Write
    BY <1>1, <1>4, <2>2 DEF Write, DeviceTypes
  <2> QED
    BY <1>4, <2>1, <2>2
<1>7. DataTypes' /\ ScanTypes' /\ ClientTypes' /\ RestTypes'
  BY <1>3, <1>4, <1>5, TypeParts DEF DataTypes, ScanTypes, ClientTypes, RestTypes
<1>8. ThreadTypes'
  BY <1>4, <1>5, TypeParts DEF ThreadTypes
<1>9. LinkTypes' /\ SetupTypes'
  BY <1>2, TypesStay
<1> QED
  BY <1>6, <1>7, <1>8, <1>9, TypeParts

(* The stack's callbacks about connections keep the types. *)
LEMMA ConnectingTypes ==
  ASSUME TypeInv, Connecting \/ ConnectionEnds
  PROVE  TypeInv'
<1> USE TypeParts, TypesStay
<1>1. CASE DeviceFound
  <2>1. ScanTypes' /\ ThreadTypes'
    BY <1>1 DEF DeviceFound, ScanTypes, ThreadTypes, Awake
  <2> QED
    BY <1>1, <2>1 DEF DeviceFound
<1>2. CASE CreateConnection
  <2>1. bt.dev \in Device /\ work' = work
    BY <1>2 DEF CreateConnection, ThreadTypes
  <2>2. bt' = [bt EXCEPT !.at = "asleep"] \/ bt' = [bt EXCEPT !.at = "creating"]
    BY <1>2 DEF CreateConnection
  <2>3. ThreadTypes'
    BY <2>1, <2>2 DEF ThreadTypes
  <2> QED
    BY <1>2, <2>3 DEF CreateConnection
<1>3. CASE CreateReturns
  <2>1. bt.dev \in Device /\ work' = work
    BY <1>3 DEF CreateReturns, ThreadTypes
  <2>2. bt' = Awake \/ bt' = [bt EXCEPT !.at = "asleep"]
    BY <1>3 DEF CreateReturns
  <2>3. LinkTypes'
    BY <1>3, <2>1 DEF CreateReturns, LinkTypes
  <2>4. ThreadTypes'
    BY <2>1, <2>2 DEF ThreadTypes, Awake, Address
  <2>5. RestTypes'
    BY <1>3, FaultCounts DEF CreateReturns, RestTypes, TypeInv
  <2> QED
    BY <1>3, <2>3, <2>4, <2>5 DEF CreateReturns
<1>4. CASE ConnectionFailed
  <2>1. LinkTypes' /\ ThreadTypes'
    BY <1>4 DEF ConnectionFailed, LinkTypes, ThreadTypes, Address
  <2>2. RestTypes'
    BY <1>4, FaultCounts DEF ConnectionFailed, RestTypes, TypeInv
  <2> QED
    BY <1>4, <2>1, <2>2 DEF ConnectionFailed
<1>5. CASE Connected
  <2>1. LinkTypes'
    BY <1>5 DEF Connected, LinkTypes
  <2>2. SetupTypes'
    BY <1>5 DEF Connected, SetupTypes, NoSubscription
  <2>3. RestTypes'
    BY <1>5, FaultCounts DEF Connected, RestTypes, TypeInv, AvailAfterConnect
  <2> QED
    BY <1>5, <2>1, <2>2, <2>3 DEF Connected
<1>6. CASE Disconnected
  <2>1. LinkTypes' /\ ScanTypes' /\ RestTypes'
    BY <1>6 DEF Disconnected, LinkTypes, ScanTypes, RestTypes
  <2>2. ThreadTypes'
    BY <1>6 DEF Disconnected, LinkTypes, ThreadTypes, Address, Awake
  <2>3. SetupTypes'
    BY <1>6 DEF Disconnected, SetupTypes, handleVars
  <2>4. DeviceTypes'
    BY <1>6, NothingUnderWay DEF Disconnected, DeviceTypes
  <2> QED
    BY <1>6, <2>1, <2>2, <2>3, <2>4 DEF Disconnected
<1>7. CASE RetryConnect
  <2>1. AddressPrinted(bt.dev) \subseteq Address
    BY DEF AddressPrinted, Address, ThreadTypes, ScanTypes
  <2>2. bt' \in Step /\ devAddr' \in Address
    BY <1>7, <2>1, ConnectTypes DEF RetryConnect, TypeInv
  <2>3. ScanTypes'
    BY <1>7, <2>2 DEF RetryConnect, ScanTypes
  <2>4. ThreadTypes'
    BY <1>7, <2>2 DEF RetryConnect, ThreadTypes, Step
  <2> QED
    BY <1>7, <2>3, <2>4 DEF RetryConnect
<1>8. CASE RetryAdds
  <2>1. /\ bt.at = "adding" /\ bt' = [bt EXCEPT !.at = "starting"] /\ work' = work
        /\ accept' \subseteq Device
    BY <1>8, AddTypes DEF RetryAdds, TypeInv, ThreadTypes
  <2>2. ScanTypes'
    BY <1>8, <2>1 DEF RetryAdds, ScanTypes
  <2>3. ThreadTypes'
    BY <2>1 DEF ThreadTypes
  <2> QED
    BY <1>8, <2>2, <2>3 DEF RetryAdds
<1>9. CASE RetryScans
  <2>1. bt' = Awake /\ scanning' \in BOOLEAN /\ faults' \in 0 .. MaxFaults
    BY <1>9, StartTypes DEF RetryScans, TypeInv
  <2>2. ScanTypes' /\ RestTypes'
    BY <1>9, <2>1 DEF RetryScans, ScanTypes, RestTypes
  <2>3. ThreadTypes'
    BY <1>9, <2>1 DEF RetryScans, ThreadTypes, Awake, Address
  <2> QED
    BY <1>9, <2>2, <2>3 DEF RetryScans
<1>10. CASE ConnectionEnds
  <2>1. LinkTypes'
    BY <1>10 DEF ConnectionEnds, LinkTypes
  <2>2. RestTypes'
    BY <1>10, FaultCounts DEF ConnectionEnds, RestTypes, TypeInv
  <2>3. DeviceTypes'
    BY <1>10, NothingUnderWay DEF ConnectionEnds, DeviceTypes
  <2> QED
    BY <1>10, <2>1, <2>2, <2>3 DEF ConnectionEnds
<1> QED
  BY <1>1, <1>2, <1>3, <1>4, <1>5, <1>6, <1>7, <1>8, <1>9, <1>10 DEF Connecting

(* What the work queue's thread does in connect keeps them. *)
LEMMA WorkTypes ==
  ASSUME TypeInv, Work
  PROVE  TypeInv'
<1> USE TypeParts, TypesStay
<1>1. CASE WorkAdds
  <2>1. /\ work.at = "adding" /\ work' = [work EXCEPT !.at = "starting"]
        /\ accept' \subseteq Device
    BY <1>1, AddTypes DEF WorkAdds, TypeInv, ThreadTypes, Step
  <2>2. ScanTypes'
    BY <1>1, <2>1 DEF WorkAdds, ScanTypes
  <2>3. ThreadTypes'
    BY <1>1, <2>1 DEF WorkAdds, ThreadTypes, Step
  <2> QED
    BY <1>1, <2>2, <2>3 DEF WorkAdds
<1>2. CASE WorkScans
  <2>1. work' = Awake /\ scanning' \in BOOLEAN /\ faults' \in 0 .. MaxFaults
    BY <1>2, StartTypes DEF WorkScans, TypeInv
  <2>2. ScanTypes' /\ RestTypes'
    BY <1>2, <2>1 DEF WorkScans, ScanTypes, RestTypes
  <2>3. ThreadTypes'
    BY <1>2, <2>1 DEF WorkScans, ThreadTypes, Awake, Address, Step
  <2>4. ClientTypes'
    BY <1>2 DEF WorkScans, ClientTypes
  <2> QED
    BY <1>2, <2>2, <2>3, <2>4 DEF WorkScans
<1> QED
  BY <1>1, <1>2 DEF Work

(* The search of the attributes keeps the types. *)
LEMMA DiscoveryTypes ==
  ASSUME TypeInv, Discovery
  PROVE  TypeInv'
<1> USE TypeParts, TypesStay
<1>1. CASE ServiceFound
  <2>1. Min(Ours) \in Nat
    BY <1>1, AheadCounts DEF ServiceFound, Stepping, Ours, Ahead, TypeInv
  <2>2. SetupTypes'
    BY <1>1, <2>1 DEF ServiceFound, SetupTypes
  <2> QED
    BY <1>1, <2>2 DEF ServiceFound
<1>2. ASSUME NEW s \in {"characteristics", "descriptor"}, NextSearch(s)
      PROVE  TypeInv'
  <2>1. SetupTypes'
    BY <1>2 DEF NextSearch, SetupTypes, handleVars
  <2>2. RestTypes'
    BY <1>2, FaultCounts DEF NextSearch, RestTypes, TypeInv
  <2> QED
    BY <1>2, <2>1, <2>2 DEF NextSearch
<1>3. CASE CharacteristicFound
  <2> DEFINE h == Min(Ahead("characteristic"))
             uuid == Table[peer][h].uuid
  <2>1. h \in Nat
    BY <1>3, AheadCounts DEF CharacteristicFound, Stepping, Ahead, TypeInv
  <2> HIDE DEF h
  <2>2. \A short : /\ HandleAfter(sessionHandle, uuid, short, h + 1) \in Nat
                   /\ HandleAfter(controlHandle, uuid, short, h + 1) \in Nat
                   /\ HandleAfter(nextHandle, uuid, short, h + 1) \in Nat
                   /\ HandleAfter(subscription.value, uuid, short, h + 1) \in Nat
    BY <2>1 DEF HandleAfter, SetupTypes
  <2>3. subscription' = [subscription EXCEPT
          !.value = HandleAfter(subscription.value, uuid, RESULT_UUID, h + 1)]
    BY <1>3 DEF CharacteristicFound, h
  <2>4. subscription' \in [value : Nat, ccc : Nat]
    BY <2>2, <2>3 DEF SetupTypes
  <2>5. {cursor', nextHandle', sessionHandle', controlHandle'} \subseteq Nat
    BY <1>3, <2>1, <2>2 DEF CharacteristicFound, h
  <2>6. SetupTypes'
    BY <1>3, <2>4, <2>5 DEF CharacteristicFound, SetupTypes
  <2> QED
    BY <1>3, <2>6 DEF CharacteristicFound
<1>4. CASE DescriptorFound
  <2>1. Min(Ccc) \in Nat
    BY <1>4, AheadCounts DEF DescriptorFound, Stepping, Ccc, Ahead, TypeInv
  <2>2. subscription' \in [value : Nat, ccc : Nat]
    BY <1>4, <2>1 DEF DescriptorFound, SetupTypes
  <2>3. SetupTypes'
    BY <1>4, <2>2 DEF DescriptorFound, SetupTypes
  <2>4. RestTypes'
    BY <1>4, FaultCounts DEF DescriptorFound, RestTypes, TypeInv
  <2> QED
    BY <1>4, <2>3, <2>4 DEF DescriptorFound
<1>5. CASE NoDescriptor
  <2>1. SetupTypes'
    BY <1>5 DEF NoDescriptor, SetupTypes, handleVars
  <2> QED
    BY <1>5, <2>1 DEF NoDescriptor
<1>6. CASE DiscoveryDone
  <2>1. SetupTypes'
    BY <1>6 DEF DiscoveryDone, SetupTypes, handleVars
  <2>2. DataTypes'
    BY <1>6 DEF DiscoveryDone, DataTypes
  <2>3. RestTypes'
    BY <1>6, FaultCounts DEF DiscoveryDone, RestTypes, TypeInv
  <2> QED
    BY <1>6, <2>1, <2>2, <2>3 DEF DiscoveryDone
<1> QED
  BY <1>1, <1>2, <1>3, <1>4, <1>5, <1>6
     DEF Discovery, PrimaryDone, CharacteristicsDone

(* A packet is made of units. *)
LEMMA PacketUnits ==
  ASSUME NEW b \in [1 .. BufferSize -> Unit], NEW n \in Nat
  PROVE  Packet(b, n) \in Seq(Unit) /\ Len(Packet(b, n)) = n
<1>1. BufferSize \in Nat /\ NoUnit \in Unit
  BY ConstantsAssumption DEF Unit
<1> QED
  BY <1>1 DEF Packet

(* Reading, receiving and writing keep the types. *)
LEMMA DataKeepsTypes ==
  ASSUME TypeInv, ReadChunk \/ ReadEnds \/ Notification \/ WriteGoesOn
  PROVE  TypeInv'
<1> USE TypeParts, TypesStay
<1>1. CASE ReadChunk
  <2>1. SetupTypes'
    BY <1>1 DEF ReadChunk, SetupTypes, handleVars
  <2>2. DataTypes'
    <3>1. CASE UNCHANGED dataVars
      BY <3>1
    <3>2. CASE /\ buf' = [buf EXCEPT ![offset + 1] =
                             ValueAt(peer, sessionHandle)[offset + 1]]
               /\ ctr' = ctr + 1
               /\ offset' = offset + 1
      <4>1. peer \in Device
        BY <1>1 DEF ReadChunk, Stepping, LinkTypes
      <4>2. SessionLength[peer] \in Nat
        BY <4>1, ConstantsAssumption
      <4>3. ValueAt(peer, sessionHandle) = Session(peer)
        BY <1>1 DEF ReadChunk, ValueAt, DataTypes
      <4>4. /\ offset + 1 \in 1 .. SessionLength[peer]
            /\ Session(peer)[offset + 1] = <<"session", peer, offset + 1>>
        BY <1>1, <4>2, <4>3 DEF ReadChunk, Session, DataTypes
      <4>5. Session(peer)[offset + 1] \in Unit
        BY <4>1, <4>4 DEF Unit, DataTypes
      <4> DEFINE u == Session(peer)[offset + 1]
      <4>6. buf' = [buf EXCEPT ![offset + 1] = u] /\ u \in Unit
        BY <3>2, <4>3, <4>5
      <4> HIDE DEF u
      <4>7. buf' \in [1 .. BufferSize -> Unit]
        BY <4>6 DEF DataTypes
      <4> QED
        BY <3>2, <4>7 DEF DataTypes
    <3> QED
      BY <1>1, <3>1, <3>2 DEF ReadChunk
  <2> QED
    BY <1>1, <2>1, <2>2 DEF ReadChunk
<1>2. CASE ReadEnds
  <2>1. SetupTypes'
    BY <1>2 DEF ReadEnds, SetupTypes, handleVars
  <2>2. DataTypes'
    BY <1>2 DEF ReadEnds, DataTypes, CtrAfterPacket
  <2>3. faults' \in 0 .. MaxFaults
    BY <1>2, FaultCounts DEF ReadEnds, RestTypes, TypeInv
  <2>4. handed' \in Seq(Seq(Unit))
    BY <1>2, PacketUnits DEF ReadEnds, RestTypes, DataTypes
  <2>5. RestTypes'
    BY <1>2, <2>3, <2>4 DEF ReadEnds, RestTypes
  <2> QED
    BY <1>2, <2>1, <2>2, <2>5 DEF ReadEnds
<1>3. CASE Notification
  <2> DEFINE part == answer.sent + 1
  <2>1. answer.sent \in Nat /\ answer.msg \in 1 .. MaxMessages
    BY <1>3, ConstantsAssumption DEF Notification, DeviceTypes
  <2>2. SetupTypes'
    BY <1>3 DEF Notification, SetupTypes, handleVars
  <2>3. LinkTypes'
    BY <1>3 DEF Notification, LinkTypes, linkVars, ConnAfterLastPart
  <2>4. DeviceTypes'
    <3>1. answer' \in {NoAnswer, [answer EXCEPT !.sent = part]} /\ writing' = writing
      BY <1>3 DEF Notification
    <3>2. NoAnswer \in [msg : 0 .. MaxMessages, len : Nat, sent : Nat]
      BY NothingUnderWay
    <3>3. [answer EXCEPT !.sent = part] \in [msg : 0 .. MaxMessages, len : Nat, sent : Nat]
      BY <2>1 DEF DeviceTypes
    <3>4. [answer EXCEPT !.sent = part].msg # 0
      BY <2>1, <3>3 DEF DeviceTypes
    <3> QED
      BY <3>1, <3>2, <3>3, <3>4 DEF DeviceTypes
  <2>5. <<"result", answer.msg, part>> \in Unit
    BY <2>1 DEF Unit
  <2>6. buf' \in [1 .. BufferSize -> Unit]
    BY <1>3, <2>5 DEF Notification, DataTypes
  <2>7. DataTypes'
    BY <1>3, <2>6 DEF Notification, DataTypes, CtrAfterPacket
  <2>8. handed' \in Seq(Seq(Unit))
    <3>1. handed' = handed \/ handed' = Append(handed, Packet(buf', ctr + 1))
      BY <1>3 DEF Notification
    <3>2. ctr + 1 \in Nat
      BY DEF DataTypes
    <3>3. Packet(buf', ctr + 1) \in Seq(Unit)
      BY <2>6, <3>2, PacketUnits
    <3>4. handed \in Seq(Seq(Unit))
      BY DEF RestTypes
    <3>5. Append(handed, Packet(buf', ctr + 1)) \in Seq(Seq(Unit))
      BY <3>3, <3>4, AppendKeeps
    <3> QED
      BY <3>1, <3>4, <3>5
  <2>9. RestTypes'
    BY <1>3, <2>8 DEF Notification, RestTypes
  <2> QED
    BY <1>3, <2>2, <2>3, <2>4, <2>7, <2>9 DEF Notification
<1>4. CASE WriteGoesOn
  <2>1. writing \in Write /\ Len(writing.data) <= CommandLength /\ conn = "up"
    BY <1>4, ConstantsAssumption DEF WriteGoesOn, DeviceTypes, Write
  <2>2. /\ WithNextPdu(writing, buf) \in Write
        /\ Len(WithNextPdu(writing, buf).data) <= CommandLength
    BY <2>1, PduUnits DEF DataTypes
  <2>3. /\ writing' \in Write \cup {NoWrite}
        /\ Len(writing'.data) <= CommandLength
        /\ writes' \in Seq([msg : 1 .. MaxMessages, handle : Nat, dev : Device,
                            data : Seq(Unit)])
        /\ answer' \in [msg : 0 .. MaxMessages, len : Nat, sent : Nat]
        /\ answer' # NoAnswer => answer'.msg # 0
    BY <1>4, <2>1, <2>2, SentTypes DEF WriteGoesOn
  <2>4. DeviceTypes'
    <3>1. CASE writing' = NoWrite
      BY <2>3, <3>1, NothingUnderWay DEF DeviceTypes
    <3>2. CASE writing' \in Write
      BY <2>3, <3>2 DEF Write, DeviceTypes
    <3> QED
      BY <2>3, <3>1, <3>2
  <2>5. ClientTypes'
    BY <1>4, <2>3 DEF WriteGoesOn, ClientTypes
  <2> QED
    BY <1>4, <2>4, <2>5 DEF WriteGoesOn
<1> QED
  BY <1>1, <1>2, <1>3, <1>4

LEMMA TypeInvStarts ==
  ASSUME Init
  PROVE  TypeInv
<1> USE ConstantsAssumption DEF Init
<1>1. LinkTypes /\ ScanTypes /\ ThreadTypes
  BY DEF LinkTypes, ScanTypes, ThreadTypes, Address, Awake, Step
<1>2. SetupTypes
  BY DEF SetupTypes, NoSubscription
<1>3. DataTypes
  BY DEF DataTypes, Unit
<1>4. DeviceTypes
  BY NothingUnderWay DEF DeviceTypes
<1>5. ClientTypes
  BY EmptyIsSequence DEF ClientTypes
<1>6. RestTypes
  BY EmptyIsSequence DEF RestTypes
<1> QED
  BY <1>1, <1>2, <1>3, <1>4, <1>5, <1>6, TypeParts

LEMMA TypeInvKept ==
  ASSUME TypeInv, [Next]_vars
  PROVE  TypeInv'
<1>1. CASE \E m \in Message : SendBleMessage(m)
  BY <1>1, SendTypes
<1>2. CASE Connecting \/ ConnectionEnds
  BY <1>2, ConnectingTypes
<1>3. CASE Discovery
  BY <1>3, DiscoveryTypes
<1>4. CASE ReadChunk \/ ReadEnds \/ Notification \/ WriteGoesOn
  BY <1>4, DataKeepsTypes
<1>5. CASE Work
  BY <1>5, WorkTypes
<1>6. CASE UNCHANGED vars
  BY <1>6, TypeParts, TypesStay DEF vars
<1> QED
  BY <1>1, <1>2, <1>3, <1>4, <1>5, <1>6 DEF Next, Stack

(* Every variable keeps to its type, whatever a client sends and whatever  *)
(* goes wrong.                                                             *)
THEOREM TypeInvHolds == Spec => []TypeInv
<1>1. Init => TypeInv
  BY TypeInvStarts
<1>2. TypeInv /\ [Next]_vars => TypeInv'
  BY TypeInvKept
<1> QED
  BY <1>1, <1>2, PTL DEF Spec

(* The variables keep to their types, for every client and every fault.    *)
THEOREM TypesSafe == Spec => []TypeOK
<1>1. TypeInv => TypeOK
  BY DEF TypeInv
<1> QED
  BY <1>1, TypeInvHolds, PTL

-----------------------------------------------------------------------------
(* The data.  A client that waits for its answers has a dialogue with the  *)
(* devices through the router, in turns; connections that are set up are   *)
(* not lost, and no read fails, which hands on what was read until then.   *)
(* It ends its addresses, or gives no command that is longer than one.     *)

Steady == {"scan", "create", "connect", "mtu", "discover", "subscribe",
           "startread", "write"}

(* Where a device declares something. *)
Declared(d, type, uuid) ==
  {h \in Handles(d) : Table[d][h].type = type /\ Table[d][h].uuid = uuid}

(* A device with one Crownstone service, one characteristic for the        *)
(* session data and one for control, each with its value behind it.  Where *)
(* they are, and what else there is, differs.                              *)
Regular(d) ==
  \E s \in 1 .. 255 :
    /\ Declared(d, "service", CROWNSTONE_UUID) = {s}
    /\ \A short \in {SESSION_DATA_UUID, CONTROL_UUID} :
         \E c \in s + 1 .. 255 :
           /\ Declared(d, "characteristic", fromBaseUuid(CROWNSTONE_UUID, short)) = {c}
           /\ Declared(d, "value", fromBaseUuid(CROWNSTONE_UUID, short)) = {c + 1}

Conversing ==
  /\ Client # "any"
  /\ Terminated \/ ~ Overhang
  /\ Faults \subseteq Steady
  /\ \A d \in Device : Regular(d)

SetUp == {"primary", "characteristics", "descriptor", "subscribe", "read"}

(* Whose turn it is: the client may ask for a device, or give a command to *)
(* the one that served it; or the router has been asked, or told.          *)
Turn ==
  IF Len(messages) = Len(handed)
  THEN IF Len(messages) % 2 = 1 THEN "served" ELSE "free"
  ELSE IF Len(messages) % 2 = 1 THEN "asked" ELSE "told"

Dialogue ==
  /\ Len(messages) \in {Len(handed), Len(handed) + 1}
  /\ \A i \in 1 .. Len(messages) :
       messages[i].kind = IF i % 2 = 1 THEN "connect" ELSE "command"

(* The device the client asked for, and the only one that is looked for.   *)
Target == messages[Len(messages)].dev
Looking == Turn = "asked" /\ devAddr = Target /\ accept = {Target}

Search ==
  /\ ~ Overhang => ~ behind
  /\ conn \in {"none", "pending"} => stage = "none"
  /\ conn = "down" => stage = "ready" /\ reason = "local"
  /\ work # Awake =>
       /\ Turn = "asked" /\ devAddr = Target
       /\ work.dev = Target /\ work.dev \in Device
       /\ accept = IF work.at = "adding" THEN {} ELSE {Target}
  /\ work # Awake => ~ scanning /\ bt = Awake /\ conn = "none"
  /\ scanning => Looking /\ bt = Awake /\ conn = "none"
  /\ bt # Awake => Looking /\ ~ scanning /\ conn = "none" /\ bt.dev = Target
  /\ conn = "pending" => Looking /\ peer = Target
  /\ stage \in SetUp => Turn = "asked" /\ conn = "up" /\ peer = Target
  /\ conn = "up" => stage # "none"
  /\ Turn = "free" => conn \in {"none", "down"} /\ (conn = "none" => accept = {})
  /\ Turn = "asked" => ~ (conn = "up" /\ stage = "ready")
  /\ Turn = "served" => conn = "up" /\ stage = "ready"
  /\ Turn = "told" => conn = "up" /\ stage \in {"ready", "stalled"}

(* What the search of the attributes has passed it has found.              *)
ServiceAt(d) == CHOOSE s \in 1 .. 255 : Declared(d, "service", CROWNSTONE_UUID) = {s}

Found ==
  /\ stage = "primary" =>
       /\ cursor >= 1
       /\ cursor > ServiceAt(peer) => nextHandle = ServiceAt(peer) + 1
  /\ stage = "characteristics" =>
       /\ cursor >= 1
       /\ cursor >= ValueHandle(peer, SESSION_DATA_UUID)
            => sessionHandle = ValueHandle(peer, SESSION_DATA_UUID)
       /\ cursor >= ValueHandle(peer, CONTROL_UUID)
            => controlHandle = ValueHandle(peer, CONTROL_UUID)
  /\ stage \in {"descriptor", "subscribe", "read", "ready"} =>
       /\ sessionHandle = ValueHandle(peer, SESSION_DATA_UUID)
       /\ controlHandle = ValueHandle(peer, CONTROL_UUID)

(* The one counter and the one buffer, while session data is read, a       *)
(* command written and a result received.                                  *)
Reading ==
  /\ ctr <= BufferSize
  /\ stage = "read" => /\ ctr = offset
                       /\ offset <= SessionLength[peer]
                       /\ \A k \in 1 .. offset : buf[k] = <<"session", peer, k>>

Writing ==
  writing # NoWrite =>
    /\ Turn = "told" /\ stage = "ready"
    /\ answer = NoAnswer
    /\ writing.msg = Len(messages)
    /\ writing.handle = controlHandle
    /\ \A k \in 1 .. Len(writing.data) : writing.data[k] = <<"message", writing.msg, k>>
    /\ \A k \in 1 .. CommandLength : buf[k] = <<"message", writing.msg, k>>

Answering ==
  /\ conn = "up" /\ stage = "ready" => ctr = answer.sent
  /\ answer # NoAnswer =>
       /\ Turn = "told" /\ stage = "ready"
       /\ answer.msg = Len(messages)
       /\ answer.len \in ResultLengths
       /\ answer.sent < answer.len
       /\ \A k \in 1 .. ctr : buf[k] = <<"result", answer.msg, k>>

LEMMA Places ==
  ASSUME Conversing, NEW d \in Device
  PROVE  /\ ServiceAt(d) \in 1 .. 255
         /\ \A h : h \in Handles(d) /\ Table[d][h].type = "service"
                     /\ Table[d][h].uuid = CROWNSTONE_UUID
                   <=> h = ServiceAt(d)
         /\ \A short \in {SESSION_DATA_UUID, CONTROL_UUID} :
              \E c \in ServiceAt(d) + 1 .. 255 :
                /\ ValueHandle(d, short) = c + 1
                /\ \A h : h \in Handles(d) /\ Table[d][h].type = "characteristic"
                            /\ IsCharacteristic(Table[d][h].uuid, short)
                          <=> h = c
<1>1. PICK s \in 1 .. 255 :
        /\ Declared(d, "service", CROWNSTONE_UUID) = {s}
        /\ \A short \in {SESSION_DATA_UUID, CONTROL_UUID} :
             \E c \in s + 1 .. 255 :
               /\ Declared(d, "characteristic", fromBaseUuid(CROWNSTONE_UUID, short)) = {c}
               /\ Declared(d, "value", fromBaseUuid(CROWNSTONE_UUID, short)) = {c + 1}
  BY DEF Conversing, Regular
<1>2. ServiceAt(d) = s
  <2>1. \A t \in 1 .. 255 : Declared(d, "service", CROWNSTONE_UUID) = {t} => t = s
    BY <1>1
  <2> QED
    BY <1>1, <2>1 DEF ServiceAt
<1>3. \A h : h \in Handles(d) /\ Table[d][h].type = "service"
               /\ Table[d][h].uuid = CROWNSTONE_UUID
             <=> h = s
  BY <1>1 DEF Declared
<1>4. ASSUME NEW short \in {SESSION_DATA_UUID, CONTROL_UUID}
      PROVE  \E c \in s + 1 .. 255 :
               /\ ValueHandle(d, short) = c + 1
               /\ \A h : h \in Handles(d) /\ Table[d][h].type = "characteristic"
                           /\ IsCharacteristic(Table[d][h].uuid, short)
                         <=> h = c
  <2> DEFINE uuid == fromBaseUuid(CROWNSTONE_UUID, short)
  <2>1. PICK c \in s + 1 .. 255 : /\ Declared(d, "characteristic", uuid) = {c}
                                  /\ Declared(d, "value", uuid) = {c + 1}
    BY <1>1
  <2>2. uuid = [rest |-> "crownstone", short |-> short]
    BY DEF fromBaseUuid, CROWNSTONE_UUID
  <2>3. {h \in Handles(d) : /\ Table[d][h].type = "value"
                            /\ Table[d][h].uuid = [rest |-> "crownstone", short |-> short]}
          = {c + 1}
    BY <2>1, <2>2 DEF Declared
  <2>4. ValueHandle(d, short) = c + 1
    BY <2>3 DEF ValueHandle
  <2>5. \A h : h \in Handles(d) /\ Table[d][h].type = "characteristic"
                 /\ IsCharacteristic(Table[d][h].uuid, short)
               <=> h = c
    BY <2>1 DEF Declared, IsCharacteristic
  <2> QED
    BY <2>4, <2>5
<1> QED
  BY <1>2, <1>3, <1>4

LEMMA TurnsDiffer == Turn \in {"free", "asked", "served", "told"}
BY DEF Turn

LEMMA TurnStays ==
  ASSUME UNCHANGED <<messages, handed>>
  PROVE  /\ Turn' = Turn /\ Target' = Target /\ Len(messages)' = Len(messages)
         /\ Dialogue => Dialogue'
BY DEF Turn, Target, Dialogue

(* Odd and even numbers take turns.                                        *)
LEMMA OddAndEven ==
  ASSUME NEW n \in Nat
  PROVE  /\ n % 2 \in {0, 1}
         /\ (n + 1) % 2 = 1 - (n % 2)
OBVIOUS

(* A message: the client asks for a device or gives the command.           *)
LEMMA SendTurns ==
  ASSUME TypeInv, Dialogue, Conversing, NEW m \in Message, SendBleMessage(m)
  PROVE  /\ Dialogue'
         /\ Target' = m.dev
         /\ Len(messages') = Len(messages) + 1
         /\ \/ Turn = "free" /\ Turn' = "asked" /\ m.kind = "connect" /\ m.dev \in Device
            \/ Turn = "served" /\ Turn' = "told" /\ m.kind = "command"
<1>1. messages \in Seq(Message) /\ Len(messages) \in Nat /\ Len(handed) \in Nat
  BY DEF TypeInv, TypeOK
<1>2. messages' = Append(messages, m) /\ handed' = handed
  BY DEF SendBleMessage
<1>3. /\ Len(handed) = Len(messages)
      /\ m.kind = IF Len(messages) % 2 = 0 THEN "connect" ELSE "command"
  BY DEF SendBleMessage, MaySend, Conversing
<1>4. Len(messages') = Len(messages) + 1 /\ messages'[Len(messages')] = m
      /\ \A i \in 1 .. Len(messages) : messages'[i] = messages[i]
  BY <1>1, <1>2
<1>5. Len(messages) % 2 \in {0, 1} /\ (Len(messages) + 1) % 2 = 1 - (Len(messages) % 2)
  BY <1>1, OddAndEven
<1>6. Len(messages') # Len(handed') /\ Len(messages') = Len(handed') + 1
  BY <1>1, <1>2, <1>3, <1>4
<1>7. m.kind = IF Len(messages') % 2 = 1 THEN "connect" ELSE "command"
  BY <1>3, <1>4, <1>5
<1>8. Dialogue'
  <2>1. ASSUME NEW i \in 1 .. Len(messages')
        PROVE  messages'[i].kind = IF i % 2 = 1 THEN "connect" ELSE "command"
    <3>1. i = Len(messages') \/ i \in 1 .. Len(messages)
      BY <1>1, <1>4
    <3>2. CASE i = Len(messages')
      BY <1>4, <1>7, <3>2
    <3>3. CASE i \in 1 .. Len(messages)
      BY <1>4, <3>3 DEF Dialogue
    <3> QED
      BY <3>1, <3>2, <3>3
  <2> QED
    BY <1>6, <2>1 DEF Dialogue
<1>9. \/ Turn = "free" /\ Turn' = "asked" /\ m.kind = "connect"
      \/ Turn = "served" /\ Turn' = "told" /\ m.kind = "command"
  BY <1>3, <1>4, <1>5, <1>6 DEF Turn
<1>10. m.kind = "connect" => m.dev \in Device
  BY DEF Message
<1> QED
  BY <1>4, <1>8, <1>9, <1>10 DEF Target

(* A packet is handed on: the client was served what it asked for, or has  *)
(* the result of what it told the device.                                  *)
LEMMA HandTurns ==
  ASSUME TypeInv, Dialogue, Turn \in {"asked", "told"}, NEW p,
         messages' = messages, handed' = Append(handed, p)
  PROVE  /\ Dialogue'
         /\ Target' = Target
         /\ Len(messages) = Len(handed) + 1
         /\ Turn' = IF Turn = "asked" THEN "served" ELSE "free"
         /\ messages[Len(messages)].kind = IF Turn = "asked" THEN "connect" ELSE "command"
<1>1. Len(messages) \in Nat /\ handed \in Seq(Seq(Unit)) /\ Len(handed) \in Nat
  BY DEF TypeInv, TypeOK
<1>2. Len(handed') = Len(handed) + 1
  BY <1>1
<1>3. Len(messages) = Len(handed) + 1
  BY <1>1 DEF Turn, Dialogue
<1>4. Len(messages') = Len(handed') /\ Len(messages) # Len(handed)
  BY <1>1, <1>2, <1>3
<1>5. Turn' = IF Turn = "asked" THEN "served" ELSE "free"
  BY <1>4 DEF Turn
<1>6. Dialogue'
  BY <1>4 DEF Dialogue
<1>7. messages[Len(messages)].kind = IF Turn = "asked" THEN "connect" ELSE "command"
  BY <1>1, <1>3, <1>4 DEF Dialogue, Turn
<1> QED
  BY <1>3, <1>5, <1>6, <1>7 DEF Target

LEMMA NothingLost ==
  ASSUME Conversing
  PROVE  /\ ~ Fault("loss") /\ ~ Fault("leave") /\ ~ Fault("read")
         /\ ~ ConnectionEnds
<1>1. ~ Fault("loss") /\ ~ Fault("leave") /\ ~ Fault("read")
  BY DEF Conversing, Steady, Fault
<1> QED
  BY <1>1 DEF ConnectionEnds

(* A message that asks for a device makes the router look for that device  *)
(* and no other, or is lost while the last connection is given back.       *)
LEMMA SearchSend ==
  ASSUME TypeInv, Dialogue, Conversing, Search,
         NEW m \in Message, SendBleMessage(m)
  PROVE  Search'
<1>1. UNCHANGED <<conn, peer, reason, scanning, accept, bt, stage>>
  BY DEF SendBleMessage, linkVars, setupVars
<1>2. /\ Target' = m.dev
      /\ \/ Turn = "free" /\ Turn' = "asked" /\ m.kind = "connect" /\ m.dev \in Device
         \/ Turn = "served" /\ Turn' = "told" /\ m.kind = "command"
  BY SendTurns
<1>3. ~ scanning /\ bt = Awake /\ conn # "pending" /\ stage \notin SetUp
  BY <1>2 DEF Search, Looking
<1>4. work = Awake
  BY DEF SendBleMessage
<1>5. ~ Overhang => ~ behind'
  <2>1. behind' \in BehindAfter(m) /\ behind \in BOOLEAN
    BY DEF SendBleMessage, TypeInv, TypeOK
  <2>2. ASSUME ~ Overhang PROVE ~ behind'
    <3>1. ~ behind
      BY <2>2 DEF Search
    <3>2. behind' = (behind /\ ~ Terminated) \/ behind' = behind
      BY <2>1, <2>2 DEF BehindAfter
    <3> QED
      BY <3>1, <3>2, Zenon
  <2> QED
    BY <2>2
<1>6. CASE Turn = "free" /\ conn = "none"
  <2>1. Turn' = "asked" /\ accept = {} /\ m.kind = "connect"
    BY <1>2, <1>6 DEF Search
  <2>2. ~ behind'
    <3>1. behind' = (behind /\ ~ Terminated)
      BY <2>1 DEF SendBleMessage, BehindAfter
    <3>2. ~ Terminated => ~ behind
      BY DEF Conversing, Search
    <3> QED
      BY <3>1, <3>2, Zenon
  <2>3. connect(work', AddressIn(m))
    BY <1>6 DEF SendBleMessage, isConnected
  <2>4. AddressIn(m) = {m.dev}
    BY <2>1, <2>2 DEF AddressIn
  <2>5. devAddr' = m.dev /\ work' = [at |-> "adding", dev |-> m.dev]
    BY <1>6, <2>3, <2>4 DEF connect, isConnected
  <2>6. /\ devAddr' = Target' /\ work'.dev = Target' /\ work'.dev \in Device
        /\ work'.at = "adding" /\ accept' = {}
    BY <1>1, <1>2, <1>6, <2>1, <2>5
  <2> QED
    BY <1>1, <1>3, <1>5, <1>6, <2>1, <2>6 DEF Search
<1>7. CASE Turn = "free" /\ conn # "none"
  <2>1. work' = Awake
    BY <1>4, <1>7 DEF SendBleMessage, isConnected
  <2>2. conn = "down" /\ Turn' = "asked"
    BY <1>2, <1>7 DEF Search
  <2> QED
    BY <1>1, <1>3, <1>5, <2>1, <2>2 DEF Search
<1>8. CASE Turn = "served"
  <2>1. conn = "up" /\ stage = "ready" /\ Turn' = "told"
    BY <1>2, <1>8 DEF Search
  <2>2. work' = Awake
    BY <1>4, <2>1 DEF SendBleMessage, isConnected
  <2> QED
    BY <1>1, <1>3, <1>5, <2>1, <2>2 DEF Search, SetUp
<1> QED
  BY <1>2, <1>6, <1>7, <1>8

(* The work queue's thread asks for that device and scans for it.          *)
LEMMA SearchWork ==
  ASSUME TypeInv, Search, Work
  PROVE  Search'
<1>1. UNCHANGED <<conn, peer, reason, bt, stage, devAddr, behind, messages, handed>>
  BY DEF Work, WorkAdds, WorkScans, linkVars, setupVars, clientVars
<1>2. Turn' = Turn /\ Target' = Target
  BY <1>1, TurnStays
<1>3. work.at \in {"adding", "starting"} /\ work # Awake
  BY DEF Work, WorkAdds, WorkScans, AddressAdded, ScanStarted, Awake
<1>4. /\ Turn = "asked" /\ devAddr = Target /\ work.dev = Target
      /\ work.dev \in Device
      /\ accept = (IF work.at = "adding" THEN {} ELSE {Target})
      /\ ~ scanning /\ bt = Awake /\ conn = "none" /\ stage = "none"
  BY <1>3 DEF Search
<1>5. CASE WorkAdds
  <2>1. work.at = "adding" /\ work' = [work EXCEPT !.at = "starting"] /\ scanning' = scanning
    BY <1>5 DEF WorkAdds, AddressAdded
  <2>2. work'.dev = Target' /\ work'.dev \in Device /\ work'.at = "starting"
    BY <1>2, <1>4, <2>1 DEF TypeInv, TypeOK
  <2>3. Target # NoDevice
    BY <1>4, ConstantsAssumption DEF NoDevice
  <2>4. accept' = {Target'}
    BY <1>2, <1>4, <1>5, <2>1, <2>3 DEF WorkAdds, AddressAdded, AcceptAfter
  <2> QED
    BY <1>1, <1>2, <1>4, <2>1, <2>2, <2>4 DEF Search, SetUp
<1>6. CASE WorkScans
  <2>1. work.at = "starting" /\ work' = Awake /\ accept' = accept
    BY <1>6 DEF WorkScans, ScanStarted
  <2>2. Looking'
    BY <1>1, <1>2, <1>4, <2>1 DEF Looking
  <2> QED
    BY <1>1, <1>2, <1>4, <2>1, <2>2 DEF Search, SetUp
<1> QED
  BY <1>5, <1>6 DEF Work

(* To look for the device goes on until it is connected.                   *)
LEMMA SearchConnecting ==
  ASSUME TypeInv, Conversing, Search, Connecting
  PROVE  Search'
<1>1. UNCHANGED <<work, behind, messages, handed>>
  BY DEF Connecting, DeviceFound, CreateConnection, CreateReturns, ConnectionFailed,
         Connected, Disconnected, RetryConnect, RetryAdds, RetryScans, clientVars,
         threadVars
<1>2. Turn' = Turn /\ Target' = Target
  BY <1>1, TurnStays
<1>3. (~ Overhang => ~ behind') /\ work' = work
  BY <1>1 DEF Search
<1>4. work = Awake
  BY DEF Search, Connecting, DeviceFound, CreateConnection, CreateReturns,
         ConnectionFailed, Connected, Disconnected, RetryConnect, RetryAdds,
         RetryScans, AddressAdded, ScanStarted, Awake
<1>5. CASE DeviceFound
  <2>1. Looking /\ conn = "none" /\ scanning
    BY <1>5 DEF DeviceFound, Search
  <2>2. UNCHANGED <<conn, peer, reason, devAddr, accept, stage>>
    BY <1>5 DEF DeviceFound, linkVars, setupVars
  <2>3. Looking'
    BY <1>2, <2>1, <2>2 DEF Looking
  <2>4. scanning' = FALSE /\ bt' = [at |-> "found", dev |-> devAddr]
    BY <1>5 DEF DeviceFound
  <2>5. bt'.dev = Target'
    BY <1>2, <2>1, <2>4 DEF Looking
  <2> QED
    BY <1>2, <1>3, <1>4, <2>1, <2>2, <2>3, <2>4, <2>5 DEF Search
<1>6. CASE CreateConnection
  <2>1. Looking /\ conn = "none" /\ bt.dev = Target /\ ~ scanning
    BY <1>6 DEF CreateConnection, Search, Awake
  <2>2. UNCHANGED <<conn, peer, reason, scanning, devAddr, accept, stage>>
    BY <1>6 DEF CreateConnection, linkVars, scanVars, setupVars
  <2>3. Looking'
    BY <1>2, <2>1, <2>2 DEF Looking
  <2>4. bt'.dev = Target'
    BY <1>2, <1>6, <2>1 DEF CreateConnection, TypeInv, TypeOK
  <2> QED
    BY <1>2, <1>3, <1>4, <2>1, <2>2, <2>3, <2>4 DEF Search, SetUp, Looking
<1>7. CASE CreateReturns
  <2>1. Looking /\ conn = "none" /\ bt.dev = Target /\ ~ scanning
    BY <1>7 DEF CreateReturns, Search, Awake
  <2>2. UNCHANGED <<reason, scanning, devAddr, accept, stage>>
    BY <1>7 DEF CreateReturns, scanVars, setupVars
  <2>3. Looking'
    BY <1>2, <2>1, <2>2 DEF Looking
  <2>4. CASE conn' = "pending" /\ peer' = bt.dev /\ bt' = Awake
    BY <1>2, <1>3, <1>4, <2>1, <2>2, <2>3, <2>4 DEF Search, SetUp, Looking
  <2>5. CASE bt' = [bt EXCEPT !.at = "asleep"] /\ UNCHANGED <<conn, peer>>
    <3>1. bt'.dev = bt.dev
      BY <2>5 DEF TypeInv, TypeOK
    <3> QED
      BY <1>2, <1>3, <1>4, <2>1, <2>2, <2>3, <2>5, <3>1 DEF Search, SetUp, Looking
  <2> QED
    BY <1>7, <2>4, <2>5 DEF CreateReturns
<1>8. CASE ConnectionFailed
  <2>1. Looking /\ peer = Target /\ ~ scanning /\ stage = "none"
    BY <1>8 DEF ConnectionFailed, Search
  <2>2. /\ UNCHANGED <<peer, reason, scanning, devAddr, accept, stage>>
        /\ conn' = "none" /\ bt' = [at |-> "asleep", dev |-> peer]
    BY <1>8 DEF ConnectionFailed, scanVars, setupVars
  <2>3. Looking'
    BY <1>2, <2>1, <2>2 DEF Looking
  <2>4. bt'.dev = Target'
    BY <1>2, <2>1, <2>2
  <2> QED
    BY <1>2, <1>3, <1>4, <2>1, <2>2, <2>3, <2>4 DEF Search, SetUp, Looking
<1>9. CASE Connected
  <2>1. Looking /\ peer = Target /\ ~ scanning /\ bt = Awake
    BY <1>9 DEF Connected, Search
  <2>2. /\ UNCHANGED <<peer, reason, scanning, devAddr, accept, bt>>
        /\ conn' = "up" /\ stage' \in {"primary", "stalled"}
    BY <1>9 DEF Connected, scanVars, threadVars
  <2> QED
    BY <1>2, <1>3, <1>4, <2>1, <2>2 DEF Search, SetUp, Looking
<1>10. CASE Disconnected
  <2>1. reason = "local" /\ bt = Awake /\ ~ scanning /\ Turn \notin {"served", "told"}
    BY <1>10 DEF Disconnected, Search
  <2>2. conn' = "none" /\ stage' = "none" /\ accept' = {} /\ scanning' = scanning
        /\ bt' = bt
    BY <1>10, <2>1 DEF Disconnected, Retry
  <2> QED
    BY <1>2, <1>3, <1>4, <2>1, <2>2 DEF Search, SetUp
<1>11. CASE RetryConnect
  <2>1. Looking /\ conn = "none" /\ bt.dev = Target /\ ~ scanning /\ stage = "none"
    BY <1>11 DEF RetryConnect, Search, Awake
  <2>2. UNCHANGED <<conn, peer, reason, stage, scanning, accept>>
    BY <1>11 DEF RetryConnect, linkVars, setupVars
  <2>3. \E a \in AddressPrinted(bt.dev) :
          devAddr' = a /\ bt' = [at |-> "adding", dev |-> a]
    BY <1>11, <2>1 DEF RetryConnect, connect, isConnected
  <2>4. devAddr' = Target /\ bt' = [at |-> "adding", dev |-> Target]
    BY <2>1, <2>3 DEF AddressPrinted, Looking
  <2>5. Looking'
    BY <1>2, <2>1, <2>2, <2>4 DEF Looking
  <2>6. bt'.dev = Target'
    BY <1>2, <2>4
  <2> QED
    BY <1>2, <1>3, <1>4, <2>1, <2>2, <2>5, <2>6 DEF Search, SetUp, Looking
<1>12. CASE RetryAdds
  <2>1. Looking /\ conn = "none" /\ bt.dev = Target /\ ~ scanning /\ stage = "none"
    BY <1>12 DEF RetryAdds, AddressAdded, Search, Awake
  <2>2. UNCHANGED <<conn, peer, reason, stage, scanning, devAddr>>
    BY <1>12 DEF RetryAdds, linkVars, setupVars
  <2>3. accept' = {Target} /\ bt' = [bt EXCEPT !.at = "starting"]
    BY <1>12, <2>1 DEF RetryAdds, AddressAdded, AcceptAfter, Looking
  <2>4. Looking'
    BY <1>2, <2>1, <2>2, <2>3 DEF Looking
  <2>5. bt'.dev = Target'
    BY <1>2, <2>1, <2>3 DEF TypeInv, TypeOK
  <2> QED
    BY <1>2, <1>3, <1>4, <2>1, <2>2, <2>4, <2>5 DEF Search, SetUp, Looking
<1>13. CASE RetryScans
  <2>1. Looking /\ conn = "none" /\ stage = "none"
    BY <1>13 DEF RetryScans, ScanStarted, Search, Awake
  <2>2. UNCHANGED <<conn, peer, reason, stage, accept, devAddr>> /\ bt' = Awake
    BY <1>13 DEF RetryScans, ScanStarted, linkVars, setupVars
  <2>3. Looking'
    BY <1>2, <2>1, <2>2 DEF Looking
  <2> QED
    BY <1>2, <1>3, <1>4, <2>1, <2>2, <2>3 DEF Search, SetUp, Looking
<1> QED
  BY <1>5, <1>6, <1>7, <1>8, <1>9, <1>10, <1>11, <1>12, <1>13 DEF Connecting

(* What is set up is the connection to that device.                        *)
LEMMA SearchSetUp ==
  ASSUME TypeInv, Search,
         UNCHANGED <<linkVars, scanVars, threadVars, behind, messages, handed>>,
         stage \in SetUp, stage' \in SetUp \cup {"stalled"}
  PROVE  Search'
<1>1. Turn' = Turn /\ Target' = Target
  BY TurnStays
<1>2. UNCHANGED <<conn, peer, reason, scanning, devAddr, accept, bt, work, behind>>
  BY DEF linkVars, scanVars, threadVars
<1>3. Looking' = Looking
  BY <1>1, <1>2 DEF Looking
<1> QED
  BY <1>1, <1>2, <1>3 DEF Search, SetUp

(* Session data and results are handed on when their turn comes.           *)
LEMMA SearchHands ==
  ASSUME TypeInv, Dialogue, Conversing, Search, Answering,
         ReadEnds \/ Notification \/ WriteGoesOn
  PROVE  Search'
<1>1. CASE ReadEnds
  <2>1. Turn = "asked" /\ conn = "up" /\ ~ scanning /\ bt = Awake /\ work = Awake
    BY <1>1 DEF ReadEnds, Search, SetUp
  <2>2. Turn' = "served"
    <3>1. messages' = messages /\ handed' = Append(handed, Packet(buf, ctr))
      BY <1>1 DEF ReadEnds, clientVars
    <3> QED
      BY <2>1, <3>1, HandTurns
  <2>3. stage' = "ready" /\ UNCHANGED <<conn, scanning, bt, work, behind>>
    BY <1>1 DEF ReadEnds, linkVars, scanVars, threadVars, clientVars
  <2> QED
    BY <2>1, <2>2, <2>3 DEF Search, SetUp
<1>2. CASE Notification
  <2>1. /\ Turn = "told" /\ stage = "ready" /\ conn = "up" /\ ~ scanning
        /\ bt = Awake /\ work = Awake
    BY <1>2 DEF Notification, Answering, Search, Looking
  <2>2. UNCHANGED <<scanning, bt, work, behind, messages>>
    BY <1>2 DEF Notification, scanVars, threadVars, clientVars
  <2>3. CASE handed' = handed /\ UNCHANGED linkVars
    <3>1. Turn' = "told" /\ conn' = "up"
      BY <2>1, <2>2, <2>3, TurnStays DEF linkVars
    <3>2. stage' \in {"ready", "stalled"}
      BY <1>2, <2>1 DEF Notification
    <3> QED
      BY <2>1, <2>2, <3>1, <3>2 DEF Search, SetUp
  <2>4. CASE /\ handed' = Append(handed, Packet(buf', ctr + 1))
             /\ conn' = "down" /\ reason' = "local" /\ stage' = stage
    <3>1. Turn' = "free"
      BY <2>1, <2>2, <2>4, HandTurns
    <3> QED
      BY <2>1, <2>2, <2>4, <3>1 DEF Search, SetUp
  <2> QED
    BY <1>2, <2>3, <2>4 DEF Notification, ConnAfterLastPart
<1>3. CASE WriteGoesOn
  <2>1. UNCHANGED <<linkVars, scanVars, threadVars, behind, stage, messages, handed>>
    BY <1>3 DEF WriteGoesOn, setupVars
  <2>2. Turn' = Turn /\ Target' = Target
    BY <2>1, TurnStays
  <2> QED
    BY <2>1, <2>2 DEF Search, Looking, linkVars, scanVars, threadVars
<1> QED
  BY <1>1, <1>2, <1>3

(* The search of the attributes. *)
LEMMA FoundConnecting ==
  ASSUME TypeInv, Conversing, Search, Found, Connecting
  PROVE  Found'
<1>1. CASE Connected
  <2>1. CASE stage' = "stalled"
    BY <2>1 DEF Found
  <2>2. CASE stage' = "primary" /\ cursor' = 1
    <3>1. peer' = peer /\ peer \in Device
      BY <1>1 DEF Connected, TypeInv, PartiesKnown
    <3>2. ServiceAt(peer) \in 1 .. 255
      BY <3>1, Places
    <3> QED
      BY <2>2, <3>1, <3>2 DEF Found
  <2> QED
    BY <1>1, <2>1, <2>2 DEF Connected
<1>2. CASE CreateReturns \/ ConnectionFailed \/ Disconnected
  <2>1. stage' = "none"
    BY <1>2 DEF CreateReturns, ConnectionFailed, Disconnected, Search, Awake,
                setupVars
  <2> QED
    BY <2>1 DEF Found
<1>3. CASE DeviceFound \/ CreateConnection \/ RetryConnect \/ RetryAdds \/ RetryScans
  <2>1. UNCHANGED <<linkVars, setupVars>>
    BY <1>3 DEF DeviceFound, CreateConnection, RetryConnect, RetryAdds, RetryScans
  <2> QED
    BY <2>1 DEF linkVars, setupVars, handleVars, Found
<1> QED
  BY <1>1, <1>2, <1>3 DEF Connecting

(* No attribute the central needs is passed over: each search ends behind  *)
(* what it was for, and starts before it.                                  *)
LEMMA FoundDiscovery ==
  ASSUME TypeInv, Conversing, Found, Discovery
  PROVE  Found'
<1>1. conn = "up" /\ peer \in Device /\ peer' = peer
  BY DEF Discovery, ServiceFound, PrimaryDone, CharacteristicFound,
         CharacteristicsDone, NextSearch, DescriptorFound, NoDescriptor,
         DiscoveryDone, Stepping, linkVars, TypeInv, PartiesKnown
<1>2. cursor \in Nat /\ nextHandle \in Nat
  BY DEF TypeInv, TypeOK
<1> DEFINE s == ServiceAt(peer)
<1>3. /\ s \in 1 .. 255
      /\ \A h : h \in Handles(peer) /\ Table[peer][h].type = "service"
                  /\ Table[peer][h].uuid = CROWNSTONE_UUID
                <=> h = s
  BY <1>1, Places
<1>4. CASE stage' = "stalled"
  BY <1>4 DEF Found
<1>5. CASE ServiceFound
  <2>1. stage = "primary" /\ stage' = stage /\ Ours # {}
    BY <1>5 DEF ServiceFound, Stepping
  <2>2. Ours = {s}
    BY <1>3, <2>1 DEF Ours, Ahead
  <2>3. Min(Ours) = s
    BY <1>3, <2>2, LeastExists
  <2>4. nextHandle' = s + 1 /\ cursor' = s + 1
    BY <1>5, <2>3 DEF ServiceFound
  <2> QED
    BY <1>1, <1>3, <2>1, <2>4 DEF Found
<1>6. CASE PrimaryDone /\ stage' = "characteristics"
  <2>1. stage = "primary" /\ Ours = {} /\ cursor' = nextHandle
    BY <1>6 DEF PrimaryDone, Stepping, NextSearch
  <2>2. cursor >= 1
    BY <2>1 DEF Found
  <2>3. s \notin Ahead("service")
    BY <1>3, <2>1 DEF Ours
  <2>4. ~ (s \in cursor .. 255)
    BY <1>2, <1>3, <2>2, <2>3 DEF Ahead
  <2>5. cursor > s
    BY <1>2, <1>3, <2>4
  <2>6. cursor' = s + 1
    BY <2>1, <2>5 DEF Found
  <2>7. \A short \in {SESSION_DATA_UUID, CONTROL_UUID} :
          ~ (cursor' >= ValueHandle(peer, short))
    <3>1. ASSUME NEW short \in {SESSION_DATA_UUID, CONTROL_UUID}
          PROVE  ~ (cursor' >= ValueHandle(peer, short))
      <4>1. PICK c \in s + 1 .. 255 : ValueHandle(peer, short) = c + 1
        BY <1>1, <3>1, Places
      <4> QED
        BY <1>3, <2>6, <4>1
    <3> QED
      BY <3>1
  <2> HIDE DEF s
  <2>8. cursor' >= 1
    BY <1>3, <2>6
  <2> QED
    BY <1>1, <1>6, <2>7, <2>8 DEF Found
<1>7. CASE CharacteristicFound
  <2> DEFINE h == Min(Ahead("characteristic"))
             uuid == Table[peer][h].uuid
  <2>1. stage = "characteristics" /\ stage' = stage /\ cursor >= 1
    BY <1>7 DEF CharacteristicFound, Stepping, Found
  <2>2. /\ h \in Ahead("characteristic") /\ h \in Nat \ {0}
        /\ \A g \in Ahead("characteristic") : h <= g
    BY <1>1, <1>7, AheadCounts DEF CharacteristicFound, Ahead, TypeInv
  <2>3. /\ cursor' = h + 1
        /\ sessionHandle' = HandleAfter(sessionHandle, uuid, SESSION_DATA_UUID, h + 1)
        /\ controlHandle' = HandleAfter(controlHandle, uuid, CONTROL_UUID, h + 1)
    BY <1>7 DEF CharacteristicFound
  <2> HIDE DEF h
  <2>4. h \in Handles(peer) /\ h \in cursor .. 255 /\ Table[peer][h].type = "characteristic"
    BY <2>2 DEF Ahead
  <2>5. ASSUME NEW short \in {SESSION_DATA_UUID, CONTROL_UUID}, NEW old,
               cursor >= ValueHandle(peer, short) => old = ValueHandle(peer, short),
               cursor' >= ValueHandle(peer, short)
        PROVE  HandleAfter(old, uuid, short, h + 1) = ValueHandle(peer, short)
    <3>1. PICK c \in s + 1 .. 255 :
             /\ ValueHandle(peer, short) = c + 1
             /\ \A g : g \in Handles(peer) /\ Table[peer][g].type = "characteristic"
                         /\ IsCharacteristic(Table[peer][g].uuid, short)
                       <=> g = c
      BY <1>1, <2>5, Places
    <3>2. c \in Int /\ c <= 255
      BY <1>3, <3>1
    <3>3. h >= c
      BY <2>2, <2>3, <2>5, <3>1, <3>2
    <3>4. CASE cursor <= c
      <4>1. c \in Ahead("characteristic")
        BY <1>2, <2>1, <3>1, <3>2, <3>4 DEF Ahead
      <4>2. h = c
        BY <2>2, <3>2, <3>3, <4>1
      <4> QED
        BY <3>1, <4>2 DEF HandleAfter
    <3>5. CASE cursor > c
      <4>1. old = ValueHandle(peer, short)
        BY <1>2, <2>5, <3>1, <3>2, <3>5
      <4>2. h # c
        BY <1>2, <2>4, <3>2, <3>5
      <4>3. ~ IsCharacteristic(uuid, short)
        BY <2>4, <3>1, <4>2
      <4> QED
        BY <4>1, <4>3 DEF HandleAfter
    <3> QED
      BY <1>2, <3>2, <3>4, <3>5
  <2>6. cursor' >= ValueHandle(peer, SESSION_DATA_UUID)
          => sessionHandle' = ValueHandle(peer, SESSION_DATA_UUID)
    BY <2>1, <2>3, <2>5 DEF Found
  <2>7. cursor' >= ValueHandle(peer, CONTROL_UUID)
          => controlHandle' = ValueHandle(peer, CONTROL_UUID)
    BY <2>1, <2>3, <2>5 DEF Found
  <2>8. cursor' >= 1
    BY <2>2, <2>3
  <2> QED
    BY <1>1, <2>1, <2>6, <2>7, <2>8 DEF Found
<1>8. CASE CharacteristicsDone /\ stage' = "descriptor"
  <2>1. stage = "characteristics" /\ Ahead("characteristic") = {} /\ cursor >= 1
        /\ UNCHANGED <<sessionHandle, controlHandle>>
    BY <1>8 DEF CharacteristicsDone, Stepping, NextSearch, Found, handleVars
  <2>2. ASSUME NEW short \in {SESSION_DATA_UUID, CONTROL_UUID}
        PROVE  cursor >= ValueHandle(peer, short)
    <3>1. PICK c \in s + 1 .. 255 :
             /\ ValueHandle(peer, short) = c + 1
             /\ c \in Handles(peer) /\ Table[peer][c].type = "characteristic"
      BY <1>1, <2>2, Places
    <3>2. c \in Int /\ c <= 255
      BY <1>3, <3>1
    <3>3. ~ (c \in cursor .. 255)
      BY <2>1, <3>1 DEF Ahead
    <3> QED
      BY <1>2, <3>1, <3>2, <3>3
  <2> QED
    BY <1>1, <1>8, <2>1, <2>2 DEF Found
<1>9. CASE /\ DescriptorFound \/ NoDescriptor \/ DiscoveryDone
           /\ stage' # "stalled"
  <2>1. /\ stage \in {"descriptor", "subscribe"} /\ stage' \in {"subscribe", "read"}
        /\ UNCHANGED <<sessionHandle, controlHandle>>
    BY <1>9 DEF DescriptorFound, NoDescriptor, DiscoveryDone, Stepping, handleVars
  <2> QED
    BY <1>1, <2>1 DEF Found
<1>10. stage' \in {"characteristics", "stalled"} \/ ~ PrimaryDone
  BY DEF PrimaryDone, NextSearch
<1>11. stage' \in {"descriptor", "stalled"} \/ ~ CharacteristicsDone
  BY DEF CharacteristicsDone, NextSearch
<1> QED
  BY <1>4, <1>5, <1>6, <1>7, <1>8, <1>9, <1>10, <1>11 DEF Discovery

(* What was found stays so while the connection is used.                   *)
LEMMA FoundStays ==
  ASSUME Found,
         \/ \E m \in Message : SendBleMessage(m)
         \/ ReadChunk
         \/ ReadEnds
         \/ Notification
         \/ WriteGoesOn
  PROVE  Found'
<1>1. UNCHANGED <<peer, cursor, nextHandle, sessionHandle, controlHandle>>
  BY DEF SendBleMessage, ReadChunk, ReadEnds, Notification, WriteGoesOn, linkVars,
         setupVars, handleVars
<1>2. \/ stage' = stage \/ stage' = "stalled"
      \/ stage = "read" /\ stage' = "ready"
  BY DEF SendBleMessage, ReadChunk, ReadEnds, Notification, WriteGoesOn, setupVars
<1> QED
  BY <1>1, <1>2 DEF Found

(* Outside its turn the device has nothing to send and gets nothing. *)
LEMMA DeviceWaits ==
  ASSUME Writing, Answering, Turn # "told"
  PROVE  writing = NoWrite /\ answer = NoAnswer
BY DEF Writing, Answering

(* To look for a device and connect leaves the data alone.                 *)
LEMMA ConnectingLeaves ==
  ASSUME Search, Connecting
  PROVE  /\ Turn # "told"
         /\ UNCHANGED <<ctr, answer, messages, handed, writes>>
         /\ writing' \in {writing, NoWrite}
         /\ stage' # "read"
         /\ ~ (conn' = "up" /\ stage' = "ready")
<1>1. CASE DeviceFound \/ RetryConnect \/ RetryAdds \/ RetryScans
  <2>1. scanning \/ bt # Awake
    BY <1>1 DEF DeviceFound, RetryConnect, RetryAdds, RetryScans, AddressAdded,
                ScanStarted, Awake
  <2>2. UNCHANGED <<conn, stage, ctr, answer, writing, messages, handed, writes>>
    BY <1>1 DEF DeviceFound, RetryConnect, RetryAdds, RetryScans, linkVars, setupVars,
                dataVars, deviceVars, clientVars
  <2> QED
    BY <2>1, <2>2 DEF Search, Looking
<1>2. CASE CreateConnection \/ CreateReturns
  <2>1. bt # Awake /\ conn' # "up"
    BY <1>2 DEF CreateConnection, CreateReturns, Awake, Search, linkVars
  <2>2. UNCHANGED <<stage, ctr, answer, writing, messages, handed, writes>>
    BY <1>2 DEF CreateConnection, CreateReturns, setupVars, dataVars, deviceVars,
                clientVars
  <2> QED
    BY <2>1, <2>2 DEF Search, Looking
<1>3. CASE ConnectionFailed \/ Connected
  <2>1. conn = "pending" /\ stage = "none"
    BY <1>3 DEF ConnectionFailed, Connected, Search
  <2>2. /\ UNCHANGED <<ctr, answer, writing, messages, handed, writes>>
        /\ stage' \in {stage, "primary", "stalled"}
    BY <1>3 DEF ConnectionFailed, Connected, setupVars, dataVars, deviceVars, clientVars
  <2> QED
    BY <2>1, <2>2 DEF Search, Looking
<1>4. CASE Disconnected
  BY <1>4 DEF Disconnected, Search, dataVars, clientVars
<1> QED
  BY <1>1, <1>2, <1>3, <1>4 DEF Connecting

(* Setting up a connection leaves the data alone, and starts the reading   *)
(* at the beginning.                                                       *)
LEMMA DataWaits ==
  ASSUME TypeInv, Conversing, Search, Reading, Writing, Answering,
         Connecting \/ Discovery
  PROVE  Reading' /\ Writing' /\ Answering'
<1>1. Turn # "told"
  <2>1. CASE Connecting
    BY <2>1, ConnectingLeaves
  <2>2. CASE Discovery
    <3>1. stage \in SetUp
      BY <2>2 DEF Discovery, ServiceFound, PrimaryDone, CharacteristicFound,
                  CharacteristicsDone, NextSearch, DescriptorFound, NoDescriptor,
                  DiscoveryDone, Stepping, SetUp
    <3> QED
      BY <3>1 DEF Search
  <2> QED
    BY <2>1, <2>2
<1>2. writing = NoWrite /\ answer = NoAnswer
  BY <1>1, DeviceWaits
<1>3. writing' = NoWrite /\ answer' = NoAnswer
  <2>1. CASE Connecting
    BY <1>2, <2>1, ConnectingLeaves
  <2>2. CASE Discovery
    BY <1>2, <2>2 DEF Discovery, ServiceFound, PrimaryDone, CharacteristicFound,
                  CharacteristicsDone, NextSearch, DescriptorFound, NoDescriptor,
                  DiscoveryDone, deviceVars
  <2> QED
    BY <2>1, <2>2
<1>4. ~ (conn' = "up" /\ stage' = "ready")
  <2>1. CASE Connecting
    BY <2>1, ConnectingLeaves
  <2>2. CASE Discovery
    BY <2>2 DEF Discovery, ServiceFound, PrimaryDone, CharacteristicFound,
                CharacteristicsDone, NextSearch, DescriptorFound, NoDescriptor,
                DiscoveryDone, Stepping
  <2> QED
    BY <2>1, <2>2
<1>5. Writing' /\ Answering'
  BY <1>3, <1>4 DEF Writing, Answering
<1>6. Reading'
  <2>1. CASE Connecting
    BY <2>1, ConnectingLeaves DEF Reading
  <2>2. CASE Discovery /\ ~ DiscoveryDone
    <3>1. ctr' = ctr /\ stage' # "read"
      BY <2>2 DEF Discovery, ServiceFound, PrimaryDone, CharacteristicFound,
                  CharacteristicsDone, NextSearch, DescriptorFound, NoDescriptor,
                  Stepping, dataVars
    <3> QED
      BY <3>1 DEF Reading
  <2>3. CASE DiscoveryDone
    <3>1. peer' = peer /\ SessionLength[peer] \in Nat /\ BufferSize \in Nat
      BY <2>3, ConstantsAssumption
         DEF DiscoveryDone, linkVars, Stepping, TypeInv, PartiesKnown
    <3>2. CASE stage' = "stalled" /\ ctr' = ctr
      BY <3>2 DEF Reading
    <3>3. CASE ctr' = 0 /\ offset' = 0
      BY <3>1, <3>3 DEF Reading
    <3> QED
      BY <2>3, <3>2, <3>3 DEF DiscoveryDone
  <2> QED
    BY <2>1, <2>2, <2>3
<1> QED
  BY <1>5, <1>6

(* Session data is read to the buffer from the beginning.                  *)
LEMMA DataRead ==
  ASSUME TypeInv, Conversing, Search, Found, Reading, Writing, Answering, ReadChunk
  PROVE  Reading' /\ Writing' /\ Answering'
<1>1. /\ stage = "read" /\ Turn = "asked" /\ conn = "up" /\ conn' = conn
      /\ stage' \in {"read", "stalled"}
  BY DEF ReadChunk, Stepping, Search, SetUp, linkVars
<1>2. writing' = NoWrite /\ answer' = NoAnswer
  BY <1>1, DeviceWaits DEF ReadChunk, deviceVars
<1>3. Writing' /\ Answering'
  BY <1>1, <1>2 DEF Writing, Answering
<1>4. CASE stage' = "stalled" /\ UNCHANGED dataVars
  BY <1>3, <1>4 DEF Reading, dataVars
<1>5. CASE /\ offset < BufferSize
           /\ buf' = [buf EXCEPT ![offset + 1] =
                        ValueAt(peer, sessionHandle)[offset + 1]]
           /\ ctr' = ctr + 1
           /\ offset' = offset + 1
  <2>1. peer \in Device /\ peer' = peer /\ SessionLength[peer] \in Nat
        /\ BufferSize \in Nat
    BY <1>1, ConstantsAssumption DEF ReadChunk, linkVars, TypeInv, PartiesKnown
  <2>2. offset \in Nat /\ ctr \in Nat /\ buf \in [1 .. BufferSize -> Unit]
    BY DEF TypeInv, TypeOK
  <2>3. ctr = offset /\ \A k \in 1 .. offset : buf[k] = <<"session", peer, k>>
    BY <1>1 DEF Reading
  <2>4. ValueAt(peer, sessionHandle) = Session(peer) /\ offset < SessionLength[peer]
    <3>1. ValueAt(peer, sessionHandle) \in {Session(peer), <<>>}
      BY DEF ValueAt
    <3>2. offset < Len(ValueAt(peer, sessionHandle))
      BY DEF ReadChunk
    <3>3. ValueAt(peer, sessionHandle) # <<>>
      BY <2>2, <3>2, EmptyIsSequence
    <3>4. Len(Session(peer)) = SessionLength[peer]
      BY <2>1 DEF Session
    <3> QED
      BY <3>1, <3>2, <3>3, <3>4
  <2>5. /\ offset + 1 \in 1 .. BufferSize /\ offset + 1 \in 1 .. SessionLength[peer]
        /\ Session(peer)[offset + 1] = <<"session", peer, offset + 1>>
    BY <1>5, <2>1, <2>2, <2>4 DEF Session
  <2>6. \A k \in 1 .. offset + 1 : buf'[k] = <<"session", peer, k>>
    <3>1. buf' = [buf EXCEPT ![offset + 1] = <<"session", peer, offset + 1>>]
      BY <1>5, <2>4, <2>5
    <3>2. ASSUME NEW k \in 1 .. offset + 1
          PROVE  buf'[k] = <<"session", peer, k>>
      <4>1. k \in 1 .. BufferSize /\ (k = offset + 1 \/ k \in 1 .. offset)
        BY <2>1, <2>2, <2>5
      <4>2. CASE k = offset + 1
        BY <2>2, <3>1, <4>1, <4>2
      <4>3. CASE k \in 1 .. offset /\ k # offset + 1
        BY <2>2, <2>3, <3>1, <4>1, <4>3
      <4> QED
        BY <4>1, <4>2, <4>3
    <3> QED
      BY <3>2
  <2>7. ctr' = offset' /\ ctr' <= BufferSize /\ offset' <= SessionLength[peer]
    BY <1>5, <2>1, <2>2, <2>3, <2>5
  <2> QED
    BY <1>3, <1>5, <2>1, <2>6, <2>7 DEF Reading
<1> QED
  BY <1>4, <1>5 DEF ReadChunk

(* When all was read the packet is the session data of the device asked    *)
(* for, and the counter is ready for the results.                          *)
LEMMA DataReadToEnd ==
  ASSUME TypeInv, Dialogue, Conversing, Search, Found, Reading, Writing,
         Answering, ReadEnds
  PROVE  /\ Reading' /\ Writing' /\ Answering'
         /\ Turn = "asked"
         /\ Packet(buf, ctr) = Session(Target)
<1>1. stage = "read" /\ Turn = "asked" /\ conn = "up" /\ peer = Target
  BY DEF ReadEnds, Search, SetUp
<1>2. /\ writing' = NoWrite /\ answer' = NoAnswer
      /\ ctr' = 0 /\ stage' = "ready"
  BY <1>1, DeviceWaits DEF ReadEnds, deviceVars, CtrAfterPacket
<1>3. Writing' /\ Answering'
  BY <1>2 DEF Writing, Answering, NoAnswer
<1>4. BufferSize \in Nat /\ SessionLength[peer] \in Nat /\ peer \in Device
  BY <1>1, ConstantsAssumption DEF TypeInv, PartiesKnown
<1>5. Reading'
  BY <1>2, <1>4 DEF Reading
<1>6. offset = Len(ValueAt(peer, sessionHandle))
  BY <1>1, NothingLost DEF ReadEnds
<1>7. ValueAt(peer, sessionHandle) = Session(peer)
  <2>1. sessionHandle = ValueHandle(peer, SESSION_DATA_UUID)
    BY <1>1 DEF Found
  <2>2. sessionHandle # 0
    <3>1. PICK c \in ServiceAt(peer) + 1 .. 255 :
            ValueHandle(peer, SESSION_DATA_UUID) = c + 1
      BY <1>4, Places
    <3>2. ServiceAt(peer) \in 1 .. 255
      BY <1>4, Places
    <3> QED
      BY <2>1, <3>1, <3>2
  <2> QED
    BY <2>1, <2>2 DEF ValueAt
<1>8. ctr = SessionLength[peer]
  BY <1>1, <1>4, <1>6, <1>7 DEF Reading, Session
<1>9. \A k \in 1 .. ctr : k <= BufferSize /\ buf[k] = <<"session", peer, k>>
  BY <1>1, <1>4, <1>8 DEF Reading
<1>10. Packet(buf, ctr) = Session(peer)
  BY <1>8, <1>9 DEF Packet, Session
<1> QED
  BY <1>1, <1>3, <1>5, <1>10

(* The result of a command comes part by part behind what there is of it,  *)
(* and the last part completes it.                                         *)
LEMMA DataNotified ==
  ASSUME TypeInv, Dialogue, Conversing, Search, Reading, Writing, Answering,
         Notification
  PROVE  /\ Reading' /\ Writing' /\ Answering'
         /\ Turn = "told"
         /\ handed' # handed =>
              /\ handed' = Append(handed, Packet(buf', ctr + 1))
              /\ \E n \in ResultLengths : Packet(buf', ctr + 1) = Result(Len(messages), n)
<1> DEFINE part == answer.sent + 1
<1>1. /\ Turn = "told" /\ stage = "ready" /\ conn = "up"
      /\ answer.msg = Len(messages) /\ answer.len \in ResultLengths
      /\ answer.sent < answer.len
      /\ ctr = answer.sent
      /\ \A k \in 1 .. ctr : buf[k] = <<"result", answer.msg, k>>
  BY DEF Notification, Answering
<1>2. writing = NoWrite /\ writing' = NoWrite
  BY DEF Notification, Writing
<1>3. Writing'
  BY <1>2 DEF Writing
<1>4. /\ BufferSize \in Nat /\ ctr \in Nat /\ answer.sent \in Nat /\ answer.len \in Nat
      /\ buf \in [1 .. BufferSize -> Unit]
  BY ConstantsAssumption DEF TypeInv, TypeOK
<1>5. UNCHANGED <<peer, messages>>
  BY DEF Notification, linkVars, clientVars
<1>6. CASE ~ PartFits
  <2>1. answer' = NoAnswer /\ stage' = "stalled" /\ ctr' = ctr /\ handed' = handed
    BY <1>6 DEF Notification
  <2> QED
    BY <1>1, <1>3, <2>1 DEF Answering, Reading
<1>7. CASE PartFits
  <2>1. ctr + 1 \in 1 .. BufferSize
    BY <1>4, <1>7 DEF PartFits
  <2>2. /\ buf' = [buf EXCEPT ![ctr + 1] = <<"result", answer.msg, part>>]
        /\ stage' = stage
    BY <1>7 DEF Notification
  <2>3. \A k \in 1 .. ctr + 1 : buf'[k] = <<"result", answer.msg, k>>
    <3>1. ASSUME NEW k \in 1 .. ctr + 1
          PROVE  buf'[k] = <<"result", answer.msg, k>>
      <4>1. k \in 1 .. BufferSize /\ (k = ctr + 1 \/ k \in 1 .. ctr)
        BY <1>4, <2>1
      <4>2. CASE k = ctr + 1
        BY <1>1, <1>4, <2>2, <4>1, <4>2
      <4>3. CASE k \in 1 .. ctr /\ k # ctr + 1
        BY <1>1, <1>4, <2>2, <4>1, <4>3
      <4> QED
        BY <4>1, <4>2, <4>3
    <3> QED
      BY <3>1
  <2>4. CASE part < answer.len
    <3>1. /\ answer' = [answer EXCEPT !.sent = part]
          /\ ctr' = ctr + 1
          /\ UNCHANGED <<linkVars, handed>>
      BY <1>7, <2>4 DEF Notification
    <3>2. answer'.msg = answer.msg /\ answer'.len = answer.len /\ answer'.sent = part
      BY <3>1 DEF TypeInv, TypeOK
    <3>3. Turn' = Turn /\ Len(messages)' = Len(messages)
      BY <1>5, <3>1, TurnStays
    <3>4. ctr' = answer'.sent /\ answer'.sent < answer'.len /\ ctr' <= BufferSize
      BY <1>1, <1>4, <2>1, <2>4, <3>1, <3>2
    <3>5. Answering'
      BY <1>1, <2>2, <2>3, <3>1, <3>2, <3>3, <3>4 DEF Answering
    <3>6. Reading'
      BY <1>1, <2>2, <3>4 DEF Reading
    <3> QED
      BY <1>1, <1>3, <3>1, <3>5, <3>6
  <2>5. CASE ~ (part < answer.len)
    <3>1. /\ answer' = NoAnswer
          /\ handed' = Append(handed, Packet(buf', ctr + 1))
          /\ ctr' = 0
          /\ conn' = "down"
      BY <1>7, <2>5 DEF Notification, CtrAfterPacket, ConnAfterLastPart
    <3>2. Answering' /\ Reading'
      BY <1>1, <1>4, <2>2, <3>1 DEF Answering, Reading
    <3>3. ctr + 1 = answer.len
      BY <1>1, <1>4, <2>5
    <3>4. \A k \in 1 .. ctr + 1 : k <= BufferSize
                                  /\ buf'[k] = <<"result", Len(messages), k>>
      BY <1>1, <1>4, <2>1, <2>3
    <3>5. Packet(buf', ctr + 1) = Result(Len(messages), answer.len)
      BY <3>3, <3>4 DEF Packet, Result
    <3> QED
      BY <1>1, <1>3, <3>1, <3>2, <3>5
  <2> QED
    BY <2>4, <2>5
<1> QED
  BY <1>6, <1>7

(* What is still to be sent of a command is in the buffer, and what was    *)
(* sent completely is the command.                                         *)
LEMMA DataSent ==
  ASSUME TypeInv, Conversing, Found, CommandsArrive,
         conn = "up", stage = "ready", answer = NoAnswer,
         NEW w \in Write, Len(w.data) <= CommandLength, w.handle = controlHandle,
         \A k \in 1 .. Len(w.data) : w.data[k] = <<"message", w.msg, k>>,
         Sent(w)
  PROVE  /\ CommandsArrive'
         /\ \/ writing' = w /\ answer' = NoAnswer
            \/ writing' = NoWrite /\ answer' = NoAnswer
            \/ /\ writing' = NoWrite
               /\ \E n \in ResultLengths :
                    answer' = [msg |-> w.msg, len |-> n, sent |-> 0]
<1>1. CASE Len(w.data) < CommandLength
  BY <1>1 DEF Sent, CommandsArrive
<1>2. CASE ~ (Len(w.data) < CommandLength)
  <2> DEFINE r == [msg |-> w.msg, handle |-> w.handle, dev |-> peer, data |-> w.data]
             Written == [msg : 1 .. MaxMessages, handle : Nat, dev : Device,
                         data : Seq(Unit)]
  <2>1. writing' = NoWrite /\ writes' = Append(writes, r)
    BY <1>2 DEF Sent
  <2>2. \/ answer' = NoAnswer
        \/ \E n \in ResultLengths : answer' = [msg |-> w.msg, len |-> n, sent |-> 0]
    BY <1>2 DEF Sent
  <2>3. w.data = Command(w.msg)
    <3>1. CommandLength \in Nat /\ w.data \in Seq(Unit) /\ w.msg \in 1 .. MaxMessages
      BY ConstantsAssumption DEF Write
    <3>2. Len(w.data) = CommandLength
      BY <1>2, <3>1
    <3>3. Command(w.msg) \in Seq(Unit) /\ Len(Command(w.msg)) = CommandLength
      BY <3>1, CommandUnits
    <3>4. \A k \in 1 .. Len(w.data) : w.data[k] = Command(w.msg)[k]
      BY <3>2 DEF Command
    <3> QED
      BY <3>1, <3>2, <3>3, <3>4, SeqEqual
  <2>4. w.handle = ValueHandle(peer, CONTROL_UUID)
    BY DEF Found
  <2>5. \A i \in 1 .. Len(writes') : writes'[i] = r \/ writes'[i] \in Range(writes)
    <3>1. writes \in Seq(Written)
      BY DEF TypeInv, TypeOK
    <3> HIDE DEF r, Written
    <3> QED
      BY <2>1, <3>1 DEF Range
  <2>6. \A x \in Range(writes') : x = r \/ x \in Range(writes)
    <3>1. writes' \in Seq(Written)
      <4>1. r \in Written /\ writes \in Seq(Written)
        BY DEF TypeInv, TypeOK, PartiesKnown, Write
      <4> HIDE DEF r, Written
      <4> QED
        BY <2>1, <4>1, AppendKeeps
    <3> HIDE DEF r, Written
    <3> QED
      BY <2>5, <3>1 DEF Range
  <2>7. CommandsArrive'
    BY <2>3, <2>4, <2>6 DEF CommandsArrive
  <2> QED
    BY <2>1, <2>2, <2>7
<1> QED
  BY <1>1, <1>2

(* While a command is written its next part is taken from the buffer.      *)
LEMMA DataWritten ==
  ASSUME TypeInv, Conversing, Search, Found, Reading, Writing, Answering,
         CommandsArrive, WriteGoesOn
  PROVE  Reading' /\ Writing' /\ Answering' /\ CommandsArrive'
<1>1. /\ Turn = "told" /\ stage = "ready" /\ conn = "up" /\ answer = NoAnswer
      /\ writing.msg = Len(messages)
      /\ writing.handle = controlHandle
      /\ \A k \in 1 .. Len(writing.data) : writing.data[k] = <<"message", writing.msg, k>>
      /\ \A k \in 1 .. CommandLength : buf[k] = <<"message", writing.msg, k>>
      /\ ctr = 0
  BY DEF WriteGoesOn, Writing, Answering, NoAnswer
<1>2. UNCHANGED <<conn, peer, stage, controlHandle, offset, buf, ctr, messages, handed>>
  BY DEF WriteGoesOn, linkVars, setupVars, handleVars, dataVars
<1>3. Turn' = Turn /\ Len(messages)' = Len(messages)
  BY <1>2, TurnStays
<1> DEFINE w == WithNextPdu(writing, buf)
<1>4. writing \in Write /\ Len(writing.data) <= CommandLength
      /\ buf \in [1 .. BufferSize -> Unit] /\ CommandLength \in Nat
  BY ConstantsAssumption, TypeParts DEF WriteGoesOn, DeviceTypes, DataTypes, Write
<1>5. /\ w \in Write /\ w.msg = writing.msg /\ w.handle = writing.handle
      /\ Len(w.data) <= CommandLength
      /\ \A k \in 1 .. Len(w.data) :
           w.data[k] = IF k <= Len(writing.data) THEN writing.data[k] ELSE buf[k]
  BY <1>4, PduUnits
<1>6. Sent(w)
  BY DEF WriteGoesOn
<1> HIDE DEF w
<1>7. \A k \in 1 .. Len(w.data) : w.data[k] = <<"message", w.msg, k>>
  <2>1. Len(w.data) \in Nat /\ Len(writing.data) \in Nat
    BY <1>4, <1>5 DEF Write
  <2>2. ASSUME NEW k \in 1 .. Len(w.data)
        PROVE  w.data[k] = <<"message", w.msg, k>>
    <3>1. k \in 1 .. CommandLength
      BY <1>4, <1>5, <2>1
    <3>2. CASE k <= Len(writing.data)
      <4>1. k \in 1 .. Len(writing.data)
        BY <2>1, <3>2
      <4> QED
        BY <1>1, <1>5, <3>2, <4>1
    <3>3. CASE ~ (k <= Len(writing.data))
      BY <1>1, <1>5, <3>1, <3>3
    <3> QED
      BY <3>2, <3>3
  <2> QED
    BY <2>2
<1>8. /\ CommandsArrive'
      /\ \/ writing' = w /\ answer' = NoAnswer
         \/ writing' = NoWrite /\ answer' = NoAnswer
         \/ /\ writing' = NoWrite
            /\ \E n \in ResultLengths :
                 answer' = [msg |-> w.msg, len |-> n, sent |-> 0]
  BY <1>1, <1>5, <1>6, <1>7, DataSent
<1>9. Reading'
  BY <1>1, <1>2 DEF Reading
<1>10. Writing'
  BY <1>1, <1>2, <1>3, <1>5, <1>7, <1>8 DEF Writing
<1>11. Answering'
  <2>1. CASE answer' = NoAnswer
    BY <1>1, <1>2, <2>1 DEF Answering, NoAnswer
  <2>2. CASE \E n \in ResultLengths : answer' = [msg |-> w.msg, len |-> n, sent |-> 0]
    <3>1. PICK n \in ResultLengths : answer' = [msg |-> w.msg, len |-> n, sent |-> 0]
      BY <2>2
    <3>2. n \in Nat \ {0}
      BY ConstantsAssumption
    <3> QED
      BY <1>1, <1>2, <1>3, <1>5, <3>1, <3>2 DEF Answering
  <2> QED
    BY <1>8, <2>1, <2>2
<1> QED
  BY <1>8, <1>9, <1>10, <1>11

(* A command that is given to the device is in the buffer while it is      *)
(* written; no other message touches what is under way.                    *)
LEMMA DataGiven ==
  ASSUME TypeInv, Dialogue, Conversing, Search, Found, Reading, Writing,
         Answering, CommandsArrive, NEW m \in Message, SendBleMessage(m)
  PROVE  Reading' /\ Writing' /\ Answering' /\ CommandsArrive'
<1>1. /\ Len(messages') = Len(messages) + 1
      /\ \/ Turn = "free" /\ Turn' = "asked"
         \/ Turn = "served" /\ Turn' = "told"
  BY SendTurns
<1>2. writing = NoWrite /\ answer = NoAnswer
  BY <1>1, DeviceWaits
<1>3. UNCHANGED <<conn, peer, stage, controlHandle, offset, ctr>>
  BY DEF SendBleMessage, linkVars, setupVars, handleVars
<1>4. stage # "read"
  BY <1>1 DEF Search, SetUp
<1>5. Reading'
  BY <1>3, <1>4 DEF Reading
<1>6. conn = "up" /\ stage = "ready" => ctr = 0
  BY <1>2 DEF Answering, NoAnswer
<1>7. CASE UNCHANGED <<writes, deviceVars>>
  <2>1. writing' = NoWrite /\ answer' = NoAnswer /\ writes' = writes
    BY <1>2, <1>7 DEF deviceVars
  <2> QED
    BY <1>3, <1>5, <1>6, <2>1 DEF Writing, Answering, CommandsArrive, NoAnswer
<1>8. CASE ~ UNCHANGED <<writes, deviceVars>>
  <2> DEFINE n == Len(messages) + 1
             new == [msg |-> n, handle |-> controlHandle, data |-> <<>>]
             w == WithNextPdu(new, buf')
  <2>1. write(n)
    BY <1>8 DEF SendBleMessage
  <2>2. conn = "up" /\ buf' = BufAfterWrite(n) /\ Sent(w)
    BY <1>2, <1>8, <2>1 DEF write, Started
  <2>3. Turn = "served" /\ Turn' = "told" /\ stage = "ready"
    BY <1>1, <2>2 DEF Search
  <2>4. n \in 1 .. MaxMessages
    <3>1. Len(messages) < MaxMessages
      BY DEF SendBleMessage, MaySend
    <3>2. Len(messages) \in Nat /\ MaxMessages \in Nat
      BY ConstantsAssumption DEF TypeInv, TypeOK
    <3> QED
      BY <3>1, <3>2
  <2>5. /\ buf' \in [1 .. BufferSize -> Unit]
        /\ \A k \in 1 .. CommandLength : buf'[k] = <<"message", n, k>>
    <3>1. /\ BufAfterWrite(n) \in [1 .. BufferSize -> Unit]
          /\ \A k \in 1 .. CommandLength : BufAfterWrite(n)[k] = Command(n)[k]
      BY <2>4, BufferUnits DEF TypeInv
    <3> QED
      BY <2>2, <3>1 DEF Command
  <2>6. new \in Write /\ Len(new.data) = 0 /\ CommandLength \in Nat
    BY <2>4, ConstantsAssumption, EmptyIsSequence DEF Write, TypeInv, TypeOK
  <2>7. /\ w \in Write /\ w.msg = n /\ w.handle = controlHandle
        /\ Len(w.data) <= CommandLength
        /\ \A k \in 1 .. Len(w.data) :
             w.data[k] = IF k <= Len(new.data) THEN new.data[k] ELSE buf'[k]
    <3>1. new.msg = n /\ new.handle = controlHandle
      OBVIOUS
    <3> HIDE DEF new
    <3>2. Len(new.data) <= CommandLength
      BY <2>6
    <3> QED
      BY <2>5, <2>6, <3>1, <3>2, PduUnits
  <2> HIDE DEF w, new, n
  <2>8. \A k \in 1 .. Len(w.data) : w.data[k] = <<"message", w.msg, k>>
    <3>1. Len(w.data) \in Nat
      BY <2>7 DEF Write
    <3>2. ASSUME NEW k \in 1 .. Len(w.data)
          PROVE  w.data[k] = <<"message", w.msg, k>>
      <4>1. k \in 1 .. CommandLength /\ ~ (k <= Len(new.data))
        BY <2>6, <2>7, <3>1
      <4> QED
        BY <2>5, <2>7, <4>1
    <3> QED
      BY <3>2
  <2>9. /\ CommandsArrive'
        /\ \/ writing' = w /\ answer' = NoAnswer
           \/ writing' = NoWrite /\ answer' = NoAnswer
           \/ /\ writing' = NoWrite
              /\ \E k \in ResultLengths :
                   answer' = [msg |-> w.msg, len |-> k, sent |-> 0]
    BY <1>2, <2>2, <2>3, <2>7, <2>8, DataSent
  <2>10. Len(messages') = n
    BY <1>1 DEF n
  <2>11. Writing'
    BY <1>3, <2>3, <2>5, <2>7, <2>8, <2>9, <2>10 DEF Writing
  <2>12. Answering'
    <3>1. ctr' = 0
      BY <1>3, <1>6, <2>2, <2>3
    <3>2. CASE answer' = NoAnswer
      BY <3>1, <3>2 DEF Answering, NoAnswer
    <3>3. CASE \E k \in ResultLengths : answer' = [msg |-> w.msg, len |-> k, sent |-> 0]
      <4>1. PICK k \in ResultLengths : answer' = [msg |-> w.msg, len |-> k, sent |-> 0]
        BY <3>3
      <4>2. k \in Nat \ {0}
        BY ConstantsAssumption
      <4> QED
        BY <1>3, <2>3, <2>7, <2>10, <3>1, <4>1, <4>2 DEF Answering
    <3> QED
      BY <2>9, <3>2, <3>3
  <2> QED
    BY <1>5, <2>9, <2>11, <2>12
<1> QED
  BY <1>7, <1>8

(* What was handed on stays in order. *)
LEMMA OrderSent ==
  ASSUME TypeInv, Dialogue, AnswersInOrder, Conversing,
         NEW m \in Message, SendBleMessage(m)
  PROVE  AnswersInOrder'
<1>1. /\ messages' = Append(messages, m) /\ handed' = handed
      /\ messages \in Seq(Message) /\ Len(handed) = Len(messages)
  BY DEF SendBleMessage, MaySend, Conversing, TypeInv, TypeOK
<1>2. \A i \in 1 .. Len(handed) : messages'[i] = messages[i]
  BY <1>1
<1> QED
  BY <1>1, <1>2 DEF AnswersInOrder

LEMMA OrderHanded ==
  ASSUME TypeInv, Dialogue, AnswersInOrder, Turn \in {"asked", "told"}, NEW p,
         messages' = messages, handed' = Append(handed, p),
         Turn = "asked" => p = Session(Target),
         Turn = "told" => \E n \in ResultLengths : p = Result(Len(messages), n)
  PROVE  AnswersInOrder'
<1>1. /\ Len(messages) = Len(handed) + 1
      /\ messages[Len(messages)].kind = IF Turn = "asked" THEN "connect" ELSE "command"
  BY HandTurns
<1>2. handed \in Seq(Seq(Unit)) /\ Len(handed) \in Nat
  BY DEF TypeInv, TypeOK
<1>3. /\ Len(handed') = Len(messages) /\ handed'[Len(messages)] = p
      /\ \A i \in 1 .. Len(handed) : handed'[i] = handed[i]
  BY <1>1, <1>2
<1>4. ASSUME NEW i \in 1 .. Len(handed')
      PROVE  \/ messages'[i].kind = "connect" /\ handed'[i] = Session(messages'[i].dev)
             \/ /\ messages'[i].kind = "command"
                /\ \E n \in ResultLengths : handed'[i] = Result(i, n)
  <2>1. i = Len(messages) \/ i \in 1 .. Len(handed)
    BY <1>1, <1>2, <1>3
  <2>2. CASE i = Len(messages)
    BY <1>1, <1>3, <2>2 DEF Target
  <2>3. CASE i \in 1 .. Len(handed)
    BY <1>3, <2>3 DEF AnswersInOrder
  <2> QED
    BY <2>1, <2>2, <2>3
<1> QED
  BY <1>4 DEF AnswersInOrder

-----------------------------------------------------------------------------
(* The dialogue as a whole. *)
DialogueInv ==
  /\ TypeInv /\ Dialogue /\ Search /\ Found
  /\ Reading /\ Writing /\ Answering
  /\ AnswersInOrder /\ CommandsArrive

LEMMA DialogueStep ==
  ASSUME Conversing, DialogueInv, [Next]_vars
  PROVE  DialogueInv'
<1> USE DEF DialogueInv
<1>1. TypeInv'
  BY TypeInvKept
<1>2. CASE \E m \in Message : SendBleMessage(m)
  <2>1. PICK m \in Message : SendBleMessage(m)
    BY <1>2
  <2>2. Dialogue' /\ Search' /\ Found'
    BY <2>1, SendTurns, SearchSend, FoundStays
  <2>3. Reading' /\ Writing' /\ Answering' /\ CommandsArrive'
    BY <2>1, DataGiven
  <2>4. AnswersInOrder'
    BY <2>1, OrderSent
  <2> QED
    BY <1>1, <2>2, <2>3, <2>4
<1>3. CASE Connecting \/ Discovery \/ ReadChunk
  <2>1. UNCHANGED <<messages, handed, writes>>
    <3>1. CASE Connecting
      BY <3>1, ConnectingLeaves
    <3>2. CASE Discovery \/ ReadChunk
      BY <3>2 DEF Discovery, ServiceFound, PrimaryDone, CharacteristicFound,
                  CharacteristicsDone, NextSearch, DescriptorFound, NoDescriptor,
                  DiscoveryDone, ReadChunk, clientVars
    <3> QED
      BY <1>3, <3>1, <3>2
  <2>2. Dialogue' /\ AnswersInOrder' /\ CommandsArrive'
    BY <2>1, TurnStays DEF AnswersInOrder, CommandsArrive
  <2>3. Search'
    <3>1. CASE Connecting
      BY <3>1, SearchConnecting
    <3>2. CASE Discovery \/ ReadChunk
      <4>1. /\ UNCHANGED <<linkVars, scanVars, threadVars, behind>>
            /\ stage \in SetUp /\ stage' \in SetUp \cup {"stalled"}
        BY <3>2 DEF Discovery, ServiceFound, PrimaryDone, CharacteristicFound,
                    CharacteristicsDone, NextSearch, DescriptorFound, NoDescriptor,
                    DiscoveryDone, ReadChunk, Stepping, SetUp, clientVars
      <4> QED
        BY <2>1, <4>1, SearchSetUp
    <3> QED
      BY <1>3, <3>1, <3>2
  <2>4. Found'
    BY <1>3, FoundConnecting, FoundDiscovery, FoundStays
  <2>5. Reading' /\ Writing' /\ Answering'
    BY <1>3, DataWaits, DataRead
  <2> QED
    BY <1>1, <2>2, <2>3, <2>4, <2>5
<1>4. CASE ReadEnds
  <2>1. /\ Reading' /\ Writing' /\ Answering'
        /\ Turn = "asked" /\ Packet(buf, ctr) = Session(Target)
    BY <1>4, DataReadToEnd
  <2>2. /\ messages' = messages /\ writes' = writes
        /\ handed' = Append(handed, Packet(buf, ctr))
    BY <1>4 DEF ReadEnds, clientVars
  <2>3. Dialogue' /\ AnswersInOrder'
    BY <2>1, <2>2, HandTurns, OrderHanded
  <2>4. Search' /\ Found'
    BY <1>4, SearchHands, FoundStays
  <2>5. CommandsArrive'
    BY <2>2 DEF CommandsArrive
  <2> QED
    BY <1>1, <2>1, <2>3, <2>4, <2>5
<1>5. CASE Notification
  <2>1. /\ Reading' /\ Writing' /\ Answering'
        /\ Turn = "told"
        /\ handed' # handed =>
             /\ handed' = Append(handed, Packet(buf', ctr + 1))
             /\ \E n \in ResultLengths : Packet(buf', ctr + 1) = Result(Len(messages), n)
    BY <1>5, DataNotified
  <2>2. messages' = messages /\ writes' = writes
    BY <1>5 DEF Notification, clientVars
  <2>3. Dialogue' /\ AnswersInOrder'
    <3>1. CASE handed' = handed
      BY <2>2, <3>1, TurnStays DEF AnswersInOrder
    <3>2. CASE handed' # handed
      BY <2>1, <2>2, <3>2, HandTurns, OrderHanded
    <3> QED
      BY <3>1, <3>2
  <2>4. Search' /\ Found'
    BY <1>5, SearchHands, FoundStays
  <2>5. CommandsArrive'
    BY <2>2 DEF CommandsArrive
  <2> QED
    BY <1>1, <2>1, <2>3, <2>4, <2>5
<1>6. CASE WriteGoesOn
  <2>1. Reading' /\ Writing' /\ Answering' /\ CommandsArrive'
    BY <1>6, DataWritten
  <2>2. UNCHANGED <<messages, handed>>
    BY <1>6 DEF WriteGoesOn
  <2>3. Dialogue' /\ AnswersInOrder'
    BY <2>2, TurnStays DEF AnswersInOrder
  <2>4. Search' /\ Found'
    BY <1>6, SearchHands, FoundStays
  <2> QED
    BY <1>1, <2>1, <2>3, <2>4
<1>7. CASE Work
  <2>1. UNCHANGED <<conn, peer, stage, cursor, nextHandle, sessionHandle, controlHandle,
                    offset, buf, ctr, writing, answer, messages, writes, handed>>
    BY <1>7 DEF Work, WorkAdds, WorkScans, linkVars, setupVars, handleVars, dataVars,
                deviceVars, clientVars
  <2>2. Turn' = Turn /\ Target' = Target /\ Dialogue'
    BY <2>1, TurnStays
  <2>3. Search' /\ Found'
    BY <1>7, <2>1, SearchWork DEF Found
  <2>4. Reading' /\ Writing' /\ Answering'
    BY <2>1, <2>2 DEF Reading, Writing, Answering
  <2>5. AnswersInOrder' /\ CommandsArrive'
    BY <2>1 DEF AnswersInOrder, CommandsArrive
  <2> QED
    BY <1>1, <2>2, <2>3, <2>4, <2>5
<1>8. CASE UNCHANGED vars
  <2>1. UNCHANGED <<conn, peer, reason, scanning, devAddr, accept, bt, work, stage,
                    cursor, nextHandle, sessionHandle, controlHandle, offset, buf, ctr,
                    writing, answer, behind, messages, writes, handed>>
    BY <1>8 DEF vars, linkVars, scanVars, threadVars, setupVars, handleVars, dataVars,
                deviceVars, clientVars
  <2>2. Turn' = Turn /\ Target' = Target /\ Dialogue'
    BY <2>1, TurnStays
  <2>3. Search' /\ Found'
    BY <2>1, <2>2 DEF Search, Looking, Found
  <2>4. Reading' /\ Writing' /\ Answering'
    BY <2>1, <2>2 DEF Reading, Writing, Answering
  <2>5. AnswersInOrder' /\ CommandsArrive'
    BY <2>1 DEF AnswersInOrder, CommandsArrive
  <2> QED
    BY <1>1, <2>2, <2>3, <2>4, <2>5
<1> QED
  BY <1>2, <1>3, <1>4, <1>5, <1>6, <1>7, <1>8, NothingLost DEF Next, Stack

LEMMA DialogueInvHolds ==
  ASSUME Conversing
  PROVE  Spec => []DialogueInv
<1>1. Init => DialogueInv
  <2> SUFFICES ASSUME Init PROVE DialogueInv
    OBVIOUS
  <2>1. TypeInv
    BY TypeInvStarts
  <2>2. Len(messages) = 0 /\ Len(handed) = 0 /\ messages = <<>> /\ handed = <<>>
        /\ writes = <<>>
    BY EmptyIsSequence DEF Init
  <2>3. Turn = "free"
    BY <2>2 DEF Turn
  <2>4. Dialogue /\ AnswersInOrder
    BY <2>2 DEF Dialogue, AnswersInOrder
  <2>5. Search /\ Found
    BY <2>3 DEF Init, Search, Found, SetUp
  <2>6. Reading /\ Writing /\ Answering
    BY ConstantsAssumption DEF Init, Reading, Writing, Answering
  <2>7. CommandsArrive
    BY <2>2 DEF CommandsArrive, Range
  <2> QED
    BY <2>1, <2>4, <2>5, <2>6, <2>7 DEF DialogueInv
<1>2. DialogueInv /\ [Next]_vars => DialogueInv'
  BY DialogueStep
<1> QED
  BY <1>1, <1>2, PTL DEF Spec

(* A client that waits for its answers gets, in this order, the session    *)
(* data of the device it asked for and the result of the command it gave,  *)
(* each whole and with nothing else in it.                                 *)
THEOREM DialogueAnswered ==
  ASSUME Conversing
  PROVE  Spec => []AnswersInOrder
<1>1. DialogueInv => AnswersInOrder
  BY DEF DialogueInv
<1> QED
  BY <1>1, DialogueInvHolds, PTL

(* What is written is a command as it was given, to the control            *)
(* characteristic of the device that is connected.                         *)
THEOREM DialogueWritten ==
  ASSUME Conversing
  PROVE  Spec => []CommandsArrive
<1>1. DialogueInv => CommandsArrive
  BY DEF DialogueInv
<1> QED
  BY <1>1, DialogueInvHolds, PTL

(* While the router scans for the device it was last asked for, the scan   *)
(* can see that device.                                                    *)
THEOREM DialogueFindsDevice ==
  ASSUME Conversing
  PROVE  Spec => []ScanSeesDevice
<1>1. DialogueInv => ScanSeesDevice
  BY DEF DialogueInv, Search, Looking, ScanSeesDevice
<1> QED
  BY <1>1, DialogueInvHolds, PTL

(* The counter that reading and receiving share stays within the buffer.   *)
THEOREM DialogueFits ==
  ASSUME Conversing
  PROVE  Spec => []BufferFits
<1>1. DialogueInv => BufferFits
  BY DEF DialogueInv, Reading, BufferFits
<1> QED
  BY <1>1, DialogueInvHolds, PTL

==============================================================================
