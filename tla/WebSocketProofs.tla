-------------------------- MODULE WebSocketProofs --------------------------
(***************************************************************************)
(* What the websocket does to messages and answers, for any number of      *)
(* them, of any size and content, arriving in any pieces.                  *)
(***************************************************************************)
EXTENDS WebSocket, PacketCodecProofs

(* The messages the application sends, as bytes.                           *)
LEMMA FrameFacts ==
  /\ Frames \in Seq(Seq(Byte))
  /\ Len(Frames) = Len(Commands)
  /\ \A k \in 1 .. Len(Commands) :
       /\ Frames[k] = GenericPacket(CS_PACKET_TYPE_CONTROL,
                                    ControlPacket(Commands[k]))
       /\ Frames[k] \in Seq(Byte)
       /\ Len(Frames[k]) = 11 + Len(Commands[k].payload)
       /\ Len(ControlPacket(Commands[k])) = 7 + Len(Commands[k].payload)
       /\ ControlPacket(Commands[k]) \in Seq(Byte)
<1>1. ASSUME NEW k \in 1 .. Len(Commands)
      PROVE  /\ GenericPacket(CS_PACKET_TYPE_CONTROL, ControlPacket(Commands[k]))
                  \in Seq(Byte)
             /\ Len(GenericPacket(CS_PACKET_TYPE_CONTROL,
                                  ControlPacket(Commands[k])))
                  = 11 + Len(Commands[k].payload)
             /\ Len(ControlPacket(Commands[k])) = 7 + Len(Commands[k].payload)
             /\ ControlPacket(Commands[k]) \in Seq(Byte)
  <2> DEFINE c == Commands[k]
  <2>1. c \in Request
    BY ConstantsAssumption
  <2>2. /\ c.command_type \in Byte /\ c.src_id \in Byte /\ c.dest_id \in Byte
        /\ c.request_id \in Nat /\ c.payload \in Seq(Byte)
    BY <2>1, WordIsNat DEF Request
  <2> HIDE DEF c
  <2>3. PutLe16(c.request_id) \in Seq(Byte) /\ Len(PutLe16(c.request_id)) = 2
    BY <2>2, TwoBytes
  <2>4. Len(c.payload) \in Nat /\ PutLe16(Len(c.payload)) \in Seq(Byte)
        /\ Len(PutLe16(Len(c.payload))) = 2
    BY <2>2, TwoBytes
  <2>5. <<c.command_type, c.src_id, c.dest_id>> \in Seq(Byte)
        /\ Len(<<c.command_type, c.src_id, c.dest_id>>) = 3
    BY <2>2
  <2>6. ControlPacket(c) \in Seq(Byte)
        /\ Len(ControlPacket(c)) = 7 + Len(c.payload)
    <3> DEFINE head == <<c.command_type, c.src_id, c.dest_id>>
               id == PutLe16(c.request_id)
               length == PutLe16(Len(c.payload))
               front == head \o id \o length
    <3>1. ControlPacket(c) = front \o c.payload
      BY DEF ControlPacket
    <3>2. head \in Seq(Byte) /\ Len(head) = 3
      BY <2>5
    <3>3. front \in Seq(Byte) /\ Len(front) = 7
      <4> HIDE DEF head, id, length
      <4>1. /\ id \in Seq(Byte) /\ Len(id) = 2
            /\ length \in Seq(Byte) /\ Len(length) = 2
        BY <2>3, <2>4 DEF id, length
      <4>2. front \in Seq(Byte) /\ Len(front) = Len(head) + Len(id) + Len(length)
        BY <3>2, <4>1, Joined
      <4> QED
        BY <3>2, <4>1, <4>2
    <3> HIDE DEF front
    <3> DEFINE payload == c.payload
    <3>4. payload \in Seq(Byte)
      BY <2>2
    <3>5. ControlPacket(c) = front \o payload
      BY <3>1
    <3> HIDE DEF payload
    <3>6. front \o payload \in Seq(Byte)
          /\ Len(front \o payload) = 7 + Len(payload)
      <4> HIDE DEF head, id, length
      <4>1. front \o payload \in Seq(Byte)
            /\ Len(front \o payload) = Len(front) + Len(payload)
        BY <3>3, <3>4, Split
      <4> QED
        BY <3>3, <4>1
    <3> QED
      BY <3>5, <3>6 DEF payload
  <2>7. PutLe16(Len(ControlPacket(c))) \in Seq(Byte)
        /\ Len(PutLe16(Len(ControlPacket(c)))) = 2
    BY <2>6, TwoBytes
  <2>8. <<CS_PROTOCOL_VERSION, CS_PACKET_TYPE_CONTROL>> \in Seq(Byte)
    BY DEF CS_PROTOCOL_VERSION, CS_PACKET_TYPE_CONTROL, Byte
  <2>9. /\ GenericPacket(CS_PACKET_TYPE_CONTROL, ControlPacket(c)) \in Seq(Byte)
        /\ Len(GenericPacket(CS_PACKET_TYPE_CONTROL, ControlPacket(c)))
             = 11 + Len(c.payload)
    <3> DEFINE head == <<CS_PROTOCOL_VERSION, CS_PACKET_TYPE_CONTROL>>
               packet == ControlPacket(c)
               length == PutLe16(Len(packet))
    <3>1. head \in Seq(Byte) /\ Len(head) = 2
      BY <2>8
    <3>2. GenericPacket(CS_PACKET_TYPE_CONTROL, packet) = head \o length \o packet
      BY DEF GenericPacket
    <3>3. /\ length \in Seq(Byte) /\ Len(length) = 2
          /\ packet \in Seq(Byte) /\ Len(packet) = 7 + Len(c.payload)
      BY <2>6, <2>7
    <3> HIDE DEF head, packet, length
    <3>4. head \o length \o packet \in Seq(Byte)
          /\ Len(head \o length \o packet) = Len(head) + Len(length) + Len(packet)
      BY <3>1, <3>3, Joined
    <3>5. /\ head \o length \o packet \in Seq(Byte)
          /\ Len(head \o length \o packet) = 11 + Len(c.payload)
      BY <2>4, <3>1, <3>3, <3>4
    <3> QED
      BY <3>2, <3>5 DEF packet
  <2> QED
    BY <2>6, <2>9 DEF c
<1>2. Len(Commands) \in Nat
  BY ConstantsAssumption
<1>3. Frames \in [1 .. Len(Commands) -> Seq(Byte)]
  BY <1>1 DEF Frames
<1>4. Frames \in Seq(Seq(Byte)) /\ Len(Frames) = Len(Commands)
  BY <1>2, <1>3
<1>5. \A k \in 1 .. Len(Commands) :
        Frames[k] = GenericPacket(CS_PACKET_TYPE_CONTROL,
                                  ControlPacket(Commands[k]))
  BY DEF Frames
<1> QED
  BY <1>1, <1>4, <1>5

-----------------------------------------------------------------------------
(* No more of a message arrives than there is of it, and the receive       *)
(* thread is there once main has connected.                                *)
ArrivedWithin ==
  \A k \in 1 .. Len(Commands) : arrived[k] <= Len(Frames[k])

ThreadWhenConnected == thread # "none" => main = "connected"

Typed == TypeOK /\ ArrivedWithin /\ ThreadWhenConnected

LEMMA TypedInit == Init => Typed
<1> SUFFICES ASSUME Init PROVE Typed
  OBVIOUS
<1>1. Len(Commands) \in Nat /\ Len(Answers) \in Nat
  BY ConstantsAssumption
<1>2. TypeOK
  <2>1. {initialized, addressed, sockId, websockId, more, queued} \subseteq BOOLEAN
    BY Zenon DEF Init
  <2>2. arrived \in [1 .. Len(Commands) -> Nat]
    BY DEF Init
  <2>3. /\ recvBuf \in Seq(Byte) /\ slot \in Seq(Byte)
        /\ dispatched \in Seq(Seq(Byte))
        /\ toCloud \in Seq([answer : 0 .. Len(Answers), message : Seq(Byte)])
    BY DEF Init
  <2>4. frame \in 1 .. Len(Commands) + 1 /\ taken \in Nat
        /\ answer \in 0 .. Len(Answers)
    BY <1>1 DEF Init
  <2> QED
    BY <2>1, <2>2, <2>3, <2>4 DEF Init, TypeOK
<1>3. ArrivedWithin
  BY FrameFacts DEF Init, ArrivedWithin
<1> QED
  BY <1>2, <1>3 DEF Init, Typed, ThreadWhenConnected

(* What a receive takes is a part of the message.                          *)
LEMMA Piece ==
  ASSUME Typed, NEW n \in 1 .. Available
  PROVE  /\ frame \in 1 .. Len(Commands)
         /\ taken + n <= Len(Frames[frame])
         /\ taken + n <= arrived[frame]
         /\ SubSeq(Frames[frame], taken + 1, taken + n) \in Seq(Byte)
         /\ Len(SubSeq(Frames[frame], taken + 1, taken + n)) = n
         /\ n \in Nat /\ taken \in Nat
         /\ n >= 1 /\ Available \in Nat \ {0}
<1>1. Len(Commands) \in Nat /\ frame \in 1 .. Len(Commands) + 1 /\ taken \in Nat
  BY ConstantsAssumption DEF Typed, TypeOK
<1>2. frame \in 1 .. Len(Commands) /\ n \in 1 .. arrived[frame] - taken
  BY <1>1, FrameFacts DEF Available
<1>3. arrived[frame] \in Nat /\ arrived[frame] <= Len(Frames[frame])
      /\ Frames[frame] \in Seq(Byte)
  BY <1>2, FrameFacts DEF Typed, TypeOK, ArrivedWithin
<1>4. taken + n <= Len(Frames[frame]) /\ taken + n <= arrived[frame]
      /\ n \in Nat /\ n >= 1 /\ arrived[frame] - taken \in Nat \ {0}
  BY <1>1, <1>2, <1>3
<1>5. Available = arrived[frame] - taken
  BY <1>1, <1>2, FrameFacts DEF Available
<1> QED
  BY <1>1, <1>2, <1>3, <1>4, <1>5

LEMMA TypedNext == Typed /\ [Next]_vars => Typed'
<1> SUFFICES ASSUME Typed, [Next]_vars PROVE Typed'
  OBVIOUS
<1> USE DEF Typed
<1>1. CASE Setup
  <2> USE <1>1 DEF Setup, setupVars, receiveVars, sendVars
  <2>1. TypeOK'
    BY Zenon DEF TypeOK, SocketInit, NotInitialized, SocketConnect,
           HandshakeFails, HandshakeDone, EventAfterHandshake, StartThread
  <2>2. ArrivedWithin'
    BY DEF ArrivedWithin, SocketInit, NotInitialized, SocketConnect,
           HandshakeFails, HandshakeDone, StartThread
  <2>3. ThreadWhenConnected'
    BY DEF ThreadWhenConnected, SocketInit, NotInitialized, SocketConnect,
           HandshakeFails, HandshakeDone, StartThread
  <2> QED
    BY <2>1, <2>2, <2>3
<1>2. CASE BytesArrive
  <2> USE <1>2 DEF setupVars, receiveVars, sendVars
  <2>1. PICK k \in 1 .. Len(Frames) :
          \E n \in arrived[k] + 1 .. Len(Frames[k]) :
            arrived' = [arrived EXCEPT ![k] = n]
    BY DEF BytesArrive
  <2>2. PICK n \in arrived[k] + 1 .. Len(Frames[k]) :
          arrived' = [arrived EXCEPT ![k] = n]
    BY <2>1
  <2>3. k \in 1 .. Len(Commands) /\ Len(Frames[k]) \in Nat /\ arrived[k] \in Nat
    <3>1. k \in 1 .. Len(Commands) /\ Frames[k] \in Seq(Byte)
      BY FrameFacts
    <3>2. arrived \in [1 .. Len(Commands) -> Nat]
      BY Zenon DEF TypeOK
    <3> QED
      BY <3>1, <3>2
  <2>4. n \in Nat /\ n <= Len(Frames[k])
    BY <2>3
  <2>5. arrived' \in [1 .. Len(Commands) -> Nat]
    BY <2>2, <2>3, <2>4 DEF TypeOK
  <2>6. ArrivedWithin'
    BY <2>2, <2>3, <2>4 DEF ArrivedWithin, TypeOK
  <2>7. TypeOK'
    BY <2>5 DEF TypeOK, BytesArrive
  <2> QED
    BY <2>6, <2>7 DEF BytesArrive, ThreadWhenConnected
<1>3. CASE ServerCloses
  BY <1>3 DEF ServerCloses, setupVars, receiveVars, sendVars, TypeOK,
              ArrivedWithin, ThreadWhenConnected
<1>4. CASE ReceiveThread
  <2> USE DEF setupVars, receiveVars, sendVars
  <2>1. CASE ThreadStarts \/ NothingThere \/ Wake
    BY <2>1 DEF ThreadStarts, NothingThere, AfterNothing, Wake, TypeOK,
                ArrivedWithin, ThreadWhenConnected
  <2>2. CASE Receive
    <3>1. PICK n \in 1 .. Available :
            /\ recvBuf' = RecvBufAfter(SubSeq(Frames[frame], taken + 1, taken + n))
            /\ IF taken + n = Len(Frames[frame])
               THEN more' = FALSE /\ frame' = frame + 1 /\ taken' = 0
               ELSE more' = TRUE /\ frame' = frame /\ taken' = taken + n
      BY <2>2 DEF Receive
    <3>2. /\ frame \in 1 .. Len(Commands) /\ n \in Nat /\ taken \in Nat
          /\ SubSeq(Frames[frame], taken + 1, taken + n) \in Seq(Byte)
      BY Piece
    <3>3. recvBuf' \in Seq(Byte)
      BY <3>1, <3>2 DEF RecvBufAfter, TypeOK
    <3>4. frame' \in 1 .. Len(Commands) + 1 /\ taken' \in Nat
      BY <3>1, <3>2, ConstantsAssumption
    <3>5. more' \in BOOLEAN
      BY <3>1
    <3>6. TypeOK'
      BY <2>2, <3>3, <3>4, <3>5 DEF TypeOK, Receive
    <3> QED
      BY <2>2, <3>6 DEF Receive, ArrivedWithin, ThreadWhenConnected
  <2>3. CASE Dispatch
    <3>1. dispatched' \in Seq(Seq(Byte)) /\ recvBuf' \in Seq(Byte)
      BY <2>3 DEF Dispatch, TypeOK
    <3>2. more' \in BOOLEAN
      BY <2>3 DEF Dispatch, MoreForNext, TypeOK
    <3>3. thread' \in {"none", "waiting", "reading", "asleep", "ended"}
      BY <2>3 DEF Dispatch
    <3>4. TypeOK'
      BY <2>3, <3>1, <3>2, <3>3 DEF Dispatch, TypeOK
    <3> QED
      BY <2>3, <3>4 DEF Dispatch, ArrivedWithin, ThreadWhenConnected
  <2> QED
    BY <1>4, <2>1, <2>2, <2>3 DEF ReceiveThread
<1>5. CASE FillSlot
  <2> USE <1>5 DEF setupVars, receiveVars
  <2>1. answer \in Nat /\ answer + 1 \in 1 .. Len(Answers)
    BY ConstantsAssumption DEF FillSlot, TypeOK
  <2> DEFINE a == Answers[answer + 1]
  <2>2. a \in Answer
    BY <2>1, ConstantsAssumption
  <2>3. /\ a.src_id \in Byte /\ a.result_code \in Byte /\ a.payload \in Seq(Byte)
        /\ a.request.type \in Byte /\ a.request.id \in Word
    BY <2>2 DEF Answer
  <2>4. slot' = Outgoing(a, a.request, FALSE)
    BY DEF FillSlot
  <2> HIDE DEF a
  <2>5. slot' \in Seq(Byte)
    BY <2>3, <2>4, OutgoingLength
  <2>6. answer' \in 0 .. Len(Answers)
    BY <2>1, ConstantsAssumption DEF FillSlot
  <2>7. TypeOK'
    BY <2>5, <2>6 DEF TypeOK, FillSlot, QueuedAfterSubmit
  <2> QED
    BY <2>7 DEF FillSlot, ArrivedWithin, ThreadWhenConnected
<1>6. CASE Callback
  <2> USE <1>6 DEF Callback, setupVars, receiveVars
  <2>1. toCloud' \in Seq([answer : 0 .. Len(Answers), message : Seq(Byte)])
    <3> DEFINE Sent == [answer : 0 .. Len(Answers), message : Seq(Byte)]
               m == [answer |-> answer, message |-> slot]
    <3>1. CASE toCloud' = Append(toCloud, m)
      <4>1. m \in Sent /\ toCloud \in Seq(Sent)
        BY DEF TypeOK
      <4> QED
        BY <3>1, <4>1
    <3>2. CASE toCloud' = toCloud
      BY <3>2 DEF TypeOK
    <3>3. toCloud' = toCloud \/ toCloud' = Append(toCloud, m)
      BY DEF SendRefused, SendWaits, SendMessage, SendReturns
    <3> QED
      BY <3>1, <3>2, <3>3
  <2>2. TypeOK'
    BY <2>1 DEF TypeOK, SendRefused, SendWaits, SendMessage, SendReturns
  <2> QED
    BY <2>2 DEF SendRefused, SendWaits, SendMessage, SendReturns, ArrivedWithin,
                ThreadWhenConnected
<1>7. CASE UNCHANGED vars
  BY <1>7 DEF vars, setupVars, receiveVars, sendVars, TypeOK, ArrivedWithin,
              ThreadWhenConnected
<1> QED
  BY <1>1, <1>2, <1>3, <1>4, <1>5, <1>6, <1>7 DEF Next

(* The variables of the websocket have their types, whatever is sent and   *)
(* answered and wherever the set-up fails.                                 *)
THEOREM TypesHold == Spec => []TypeOK
<1>1. Typed => TypeOK
  BY DEF Typed
<1> QED
  BY <1>1, TypedInit, TypedNext, PTL DEF Spec

-----------------------------------------------------------------------------
(* How far the receive thread is.  Either the whole of a message is in the *)
(* buffer and about to be dispatched, *)
Complete ==
  /\ ~ more
  /\ frame \in 2 .. Len(Commands) + 1
  /\ taken = 0
  /\ Len(dispatched) = frame - 2
  /\ recvBuf = Frames[frame - 1]

(* or what has been received of the next one, *)
Reading ==
  /\ more
  /\ Len(dispatched) = frame - 1
  /\ IF frame <= Len(Commands)
     THEN taken < Len(Frames[frame]) /\ recvBuf = SubSeq(Frames[frame], 1, taken)
     ELSE recvBuf = <<>>

(* or it dispatches what is left of a closed connection, *)
Lost ==
  /\ main = "connected"
  /\ server = "closed"
  /\ more
  /\ Available <= 0
  /\ Len(dispatched) >= frame

(* or it has met a message that does not fit in the buffer.                *)
Unfit ==
  \E k \in 1 .. Len(Commands) : ~ Fits(k) /\ k <= frame /\ Len(dispatched) >= k - 1

Phase == thread # "ended" => Complete \/ Reading \/ Lost \/ Unfit

Received == Typed /\ MessagesWhole /\ Phase

LEMMA ReceivedInit == Init => Received
<1> SUFFICES ASSUME Init PROVE Received
  OBVIOUS
<1>1. Typed
  BY TypedInit
<1>2. MessagesWhole
  BY DEF Init, MessagesWhole
<1>3. Reading
  <2>1. Len(Commands) \in Nat /\ frame = 1 /\ taken = 0 /\ recvBuf = <<>>
        /\ more /\ Len(dispatched) = 0
    BY ConstantsAssumption DEF Init
  <2>2. CASE 1 <= Len(Commands)
    <3>1. Commands[1] \in Request
      BY <2>1, <2>2, ConstantsAssumption
    <3>2. Len(Commands[1].payload) \in Nat
      BY <3>1 DEF Request
    <3>3. Frames[1] \in Seq(Byte) /\ Len(Frames[1]) = 11 + Len(Commands[1].payload)
      BY <2>1, <2>2, FrameFacts
    <3>4. Len(Frames[1]) > 0 /\ SubSeq(Frames[1], 1, 0) = <<>>
      BY <3>2, <3>3
    <3> QED
      BY <2>1, <2>2, <3>4 DEF Reading
  <2>3. CASE ~ (1 <= Len(Commands))
    BY <2>1, <2>3 DEF Reading
  <2> QED
    BY <2>2, <2>3
<1> QED
  BY <1>1, <1>2, <1>3 DEF Received, Phase

(* A message is never empty, and nothing of one that was not begun is in   *)
(* the buffer.                                                             *)
LEMMA NeverEmpty ==
  \A k \in 1 .. Len(Commands) :
    Len(Frames[k]) > 0 /\ SubSeq(Frames[k], 1, 0) = <<>>
<1> TAKE k \in 1 .. Len(Commands)
<1>1. Commands[k] \in Request
  BY ConstantsAssumption
<1>2. Len(Commands[k].payload) \in Nat
  BY <1>1 DEF Request
<1>3. Frames[k] \in Seq(Byte) /\ Len(Frames[k]) = 11 + Len(Commands[k].payload)
  BY FrameFacts
<1> QED
  BY <1>2, <1>3

(* The steps that leave the receive thread's data alone.                   *)
LEMMA PhaseKept ==
  ASSUME Received, Typed',
         UNCHANGED <<more, recvBuf, frame, taken, dispatched>>,
         thread = "ended" => thread' = "ended",
         \/ UNCHANGED <<arrived, main, server>>
         \/ main \in {"opened", "connected"} /\ server = "up"
         \/ main \notin {"connected"}
  PROVE  MessagesWhole' /\ Phase'
<1>1. MessagesWhole'
  BY DEF Received, MessagesWhole, Fits
<1>2. ASSUME Complete PROVE Complete'
  BY <1>2 DEF Complete
<1>3. ASSUME Reading PROVE Reading'
  BY <1>3 DEF Reading
<1>4. ASSUME Lost PROVE Lost'
  BY <1>4 DEF Lost, Available
<1>5. ASSUME Unfit PROVE Unfit'
  BY <1>5 DEF Unfit, Fits
<1> QED
  BY <1>1, <1>2, <1>3, <1>4, <1>5 DEF Received, Phase

(* Receiving a piece adds it to the pieces of the same message.            *)
LEMMA ReceiveStep ==
  ASSUME Received, Typed', Receive
  PROVE  MessagesWhole' /\ Phase'
<1>1. PICK n \in 1 .. Available :
        /\ n <= Room
        /\ recvBuf' = RecvBufAfter(SubSeq(Frames[frame], taken + 1, taken + n))
        /\ IF taken + n = Len(Frames[frame])
           THEN more' = FALSE /\ frame' = frame + 1 /\ taken' = 0
           ELSE more' = TRUE /\ frame' = frame /\ taken' = taken + n
  BY DEF Receive
<1>2. /\ frame \in 1 .. Len(Commands) /\ n \in Nat /\ taken \in Nat
      /\ n >= 1 /\ taken + n <= Len(Frames[frame])
      /\ Frames[frame] \in Seq(Byte) /\ Len(Frames[frame]) \in Nat
      /\ Available \in Nat \ {0}
  <2>1. Typed
    BY DEF Received
  <2>2. /\ frame \in 1 .. Len(Commands) /\ n \in Nat /\ taken \in Nat
        /\ n >= 1 /\ taken + n <= Len(Frames[frame])
        /\ Available \in Nat \ {0}
    BY <2>1, Piece
  <2> QED
    BY <2>2, FrameFacts
<1>3. thread # "ended" /\ more /\ dispatched' = dispatched
      /\ Len(dispatched) \in Nat
  BY DEF Receive, Received, Typed, TypeOK
<1>4. Len(Commands) \in Nat
  BY ConstantsAssumption
<1>5. CASE Reading
  <2>1. /\ Len(dispatched) = frame - 1
        /\ recvBuf = SubSeq(Frames[frame], 1, taken)
    BY <1>2, <1>5 DEF Reading
  <2>2. recvBuf' = SubSeq(Frames[frame], 1, taken)
                     \o SubSeq(Frames[frame], taken + 1, taken + n)
    BY <1>1, <2>1 DEF RecvBufAfter
  <2>3. recvBuf' = SubSeq(Frames[frame], 1, taken + n)
    <3> DEFINE f == Frames[frame]
               t == taken
    <3>1. f \in Seq(Byte) /\ t \in Nat /\ n \in Nat /\ t + n <= Len(f)
      BY <1>2
    <3> HIDE DEF f, t
    <3>2. SubSeq(f, 1, t) \o SubSeq(f, t + 1, t + n) = SubSeq(f, 1, t + n)
      BY <3>1
    <3> QED
      BY <2>2, <3>2 DEF f, t
  <2>4. MessagesWhole'
    <3> SUFFICES ASSUME NEW k \in 1 .. Len(dispatched), k < frame',
                        \A j \in 1 .. k : Fits(j)
                 PROVE  dispatched[k] = Frames[k]
      BY <1>3 DEF MessagesWhole, Fits
    <3>1. k < frame
      BY <1>2, <1>3, <2>1
    <3> QED
      BY <3>1 DEF Received, MessagesWhole
  <2>5. CASE taken + n = Len(Frames[frame])
    <3>1. recvBuf' = Frames[frame]
      BY <1>2, <2>3, <2>5
    <3>2. ~ more' /\ frame' = frame + 1 /\ taken' = 0
      BY <1>1, <2>5
    <3>3. Complete'
      BY <1>2, <1>3, <1>4, <2>1, <3>1, <3>2 DEF Complete
    <3> QED
      BY <2>4, <3>3 DEF Phase
  <2>6. CASE taken + n # Len(Frames[frame])
    <3>1. more' /\ frame' = frame /\ taken' = taken + n
      BY <1>1, <2>6
    <3>2. taken' < Len(Frames[frame])
      BY <1>2, <2>6, <3>1
    <3>3. Reading'
      BY <1>2, <1>3, <2>1, <2>3, <3>1, <3>2 DEF Reading
    <3> QED
      BY <2>4, <3>3 DEF Phase
  <2> QED
    BY <2>5, <2>6
<1>6. CASE Unfit
  <2>1. PICK u \in 1 .. Len(Commands) :
          ~ Fits(u) /\ u <= frame /\ Len(dispatched) >= u - 1
    BY <1>6 DEF Unfit
  <2>2. frame' \in Nat /\ frame' >= frame
    BY <1>1, <1>2
  <2>3. Unfit'
    BY <1>2, <1>3, <1>4, <2>1, <2>2 DEF Unfit, Fits
  <2>4. MessagesWhole'
    <3> SUFFICES ASSUME NEW k \in 1 .. Len(dispatched), k < frame',
                        \A j \in 1 .. k : Fits(j)
                 PROVE  dispatched[k] = Frames[k]
      BY <1>3 DEF MessagesWhole, Fits
    <3>1. k < u
      BY <1>3, <1>4, <2>1
    <3>2. k < frame
      BY <1>2, <1>3, <1>4, <2>1, <3>1
    <3> QED
      BY <3>2 DEF Received, MessagesWhole
  <2> QED
    BY <2>3, <2>4 DEF Phase
<1>7. ~ Complete
  BY <1>3 DEF Complete
<1>8. ~ Lost
  BY <1>2 DEF Lost
<1> QED
  BY <1>3, <1>5, <1>6, <1>7, <1>8 DEF Received, Phase

(* Dispatching a whole message makes room for the next, and what else is   *)
(* dispatched is beyond the messages that were received.                   *)
LEMMA DispatchStep ==
  ASSUME Received, Typed', Dispatch
  PROVE  MessagesWhole' /\ Phase'
<1>1. /\ dispatched' = Append(dispatched, recvBuf)
      /\ recvBuf' = <<>>
      /\ thread # "ended" /\ main = "connected"
      /\ thread' = "reading" => more'
      /\ UNCHANGED <<main, frame, taken, arrived, server>>
      /\ MessageEnds
  BY DEF Dispatch, MoreForNext, setupVars, Received, Typed, ThreadWhenConnected
<1>2. /\ dispatched \in Seq(Seq(Byte)) /\ recvBuf \in Seq(Byte)
      /\ frame \in 1 .. Len(Commands) + 1 /\ frame \in Nat /\ taken \in Nat
      /\ more \in BOOLEAN
  BY ConstantsAssumption DEF Received, Typed, TypeOK
<1>3. /\ Len(dispatched) \in Nat /\ Len(dispatched') = Len(dispatched) + 1
      /\ \A k \in 1 .. Len(dispatched) : dispatched'[k] = dispatched[k]
      /\ dispatched'[Len(dispatched) + 1] = recvBuf
  BY <1>1, <1>2
<1>4. Len(Commands) \in Nat
  BY ConstantsAssumption
<1>5. ASSUME Len(dispatched) + 1 < frame
                /\ (\A j \in 1 .. Len(dispatched) + 1 : Fits(j))
              => recvBuf = Frames[Len(dispatched) + 1]
      PROVE  MessagesWhole'
  <2> SUFFICES ASSUME NEW k \in 1 .. Len(dispatched) + 1, k < frame,
                      \A j \in 1 .. k : Fits(j)
               PROVE  dispatched'[k] = Frames[k]
    BY <1>1, <1>3 DEF MessagesWhole, Fits
  <2>1. CASE k \in 1 .. Len(dispatched)
    BY <1>3, <2>1 DEF Received, MessagesWhole
  <2>2. CASE k = Len(dispatched) + 1
    BY <1>3, <1>5, <2>2
  <2> QED
    BY <1>3, <2>1, <2>2
<1>6. CASE Complete
  <2>1. Len(dispatched) = frame - 2 /\ recvBuf = Frames[frame - 1] /\ taken = 0
        /\ frame \in 2 .. Len(Commands) + 1
    BY <1>6 DEF Complete
  <2>2. recvBuf = Frames[Len(dispatched) + 1]
    BY <1>2, <1>3, <2>1
  <2>3. MessagesWhole'
    BY <1>5, <2>2
  <2>4. ASSUME thread' = "reading" PROVE Reading'
    <3>1. more' /\ Len(dispatched') = frame' - 1 /\ frame' = frame /\ taken' = 0
      BY <1>1, <1>2, <1>3, <2>1, <2>4
    <3>2. frame <= Len(Commands) =>
            0 < Len(Frames[frame]) /\ <<>> = SubSeq(Frames[frame], 1, 0)
      BY <1>2, <1>4, NeverEmpty
    <3> QED
      BY <1>1, <3>1, <3>2 DEF Reading
  <2> QED
    BY <2>3, <2>4 DEF Phase, Dispatch
<1>7. CASE Reading
  <2>1. more /\ Len(dispatched) = frame - 1
    BY <1>7 DEF Reading
  <2>2. MessagesWhole'
    BY <1>2, <1>3, <1>5, <2>1
  <2>3. CASE Available = 0 /\ server = "closed"
    <3>1. thread' = "reading" => Lost'
      BY <1>1, <1>2, <1>3, <2>1, <2>3 DEF Lost, Available
    <3> QED
      BY <2>2, <3>1 DEF Phase, Dispatch
  <2>4. CASE Available > 0 /\ Room = 0
    <3>1. frame \in 1 .. Len(Commands)
      BY <1>2, <1>4, <2>4, FrameFacts DEF Available
    <3>2. /\ taken < Len(Frames[frame]) /\ recvBuf = SubSeq(Frames[frame], 1, taken)
          /\ Frames[frame] \in Seq(Byte)
      BY <1>7, <3>1, FrameFacts DEF Reading
    <3>3. Len(recvBuf) = taken /\ Len(Frames[frame]) \in Nat
      BY <1>2, <3>2
    <3>4. BufferSize \in Nat /\ BufferSize - taken = 0
      BY <2>4, <3>3, ConstantsAssumption DEF Room
    <3>5. ~ Fits(frame)
      BY <1>2, <3>2, <3>3, <3>4 DEF Fits
    <3>6. Unfit'
      BY <1>1, <1>2, <1>3, <2>1, <3>1, <3>5 DEF Unfit, Fits
    <3> QED
      BY <2>2, <3>6 DEF Phase
  <2> QED
    BY <1>1, <2>1, <2>3, <2>4 DEF MessageEnds
<1>8. CASE Lost
  <2>1. Len(dispatched) >= frame /\ more /\ server = "closed" /\ Available <= 0
    BY <1>8 DEF Lost
  <2>2. MessagesWhole'
    BY <1>2, <1>3, <1>5, <2>1
  <2>3. thread' = "reading" => Lost'
    BY <1>1, <1>2, <1>3, <2>1 DEF Lost, Available
  <2> QED
    BY <2>2, <2>3 DEF Phase, Dispatch
<1>9. CASE Unfit
  <2>1. PICK u \in 1 .. Len(Commands) :
          ~ Fits(u) /\ u <= frame /\ Len(dispatched) >= u - 1
    BY <1>9 DEF Unfit
  <2>2. ~ \A j \in 1 .. Len(dispatched) + 1 : Fits(j)
    BY <1>3, <1>4, <2>1
  <2>3. MessagesWhole'
    BY <1>5, <2>2
  <2>4. Unfit'
    BY <1>1, <1>3, <1>4, <2>1 DEF Unfit, Fits
  <2> QED
    BY <2>3, <2>4 DEF Phase
<1> QED
  BY <1>1, <1>6, <1>7, <1>8, <1>9 DEF Received, Phase

LEMMA ReceivedNext == Received /\ [Next]_vars => Received'
<1> SUFFICES ASSUME Received, [Next]_vars PROVE Received'
  OBVIOUS
<1>1. Typed'
  BY TypedNext DEF Received
<1> USE DEF vars, setupVars, receiveVars, sendVars
<1>2. CASE Setup
  <2>1. /\ UNCHANGED <<more, recvBuf, frame, taken, dispatched>>
        /\ main \notin {"connected"}
    BY <1>2 DEF Setup, SocketInit, NotInitialized, SocketConnect,
                HandshakeFails, HandshakeDone, StartThread
  <2>2. thread = "ended" => thread' = "ended"
    BY <1>2 DEF Setup, SocketInit, NotInitialized, SocketConnect,
                HandshakeFails, HandshakeDone, StartThread, Received, Typed,
                ThreadWhenConnected
  <2> QED
    BY <1>1, <2>1, <2>2, PhaseKept DEF Received
<1>3. CASE BytesArrive \/ ServerCloses
  <2>1. /\ UNCHANGED <<more, recvBuf, frame, taken, dispatched, thread>>
        /\ main \in {"opened", "connected"} /\ server = "up"
    BY <1>3 DEF BytesArrive, ServerCloses
  <2> QED
    BY <1>1, <2>1, PhaseKept DEF Received
<1>4. CASE ThreadStarts \/ NothingThere \/ Wake
  <2>1. /\ UNCHANGED <<more, recvBuf, frame, taken, dispatched>>
        /\ UNCHANGED <<arrived, main, server>>
        /\ thread # "ended"
    BY <1>4 DEF ThreadStarts, NothingThere, Wake
  <2> QED
    BY <1>1, <2>1, PhaseKept DEF Received
<1>5. CASE Receive
  BY <1>1, <1>5, ReceiveStep DEF Received
<1>6. CASE Dispatch
  BY <1>1, <1>6, DispatchStep DEF Received
<1>7. CASE FillSlot \/ Callback \/ UNCHANGED vars
  <2>1. /\ UNCHANGED <<more, recvBuf, frame, taken, dispatched, thread>>
        /\ UNCHANGED <<arrived, main, server>>
    BY <1>7 DEF FillSlot, Callback, SendRefused, SendWaits, SendMessage,
                SendReturns
  <2> QED
    BY <1>1, <2>1, PhaseKept DEF Received
<1> QED
  BY <1>2, <1>3, <1>4, <1>5, <1>6, <1>7 DEF Next, ReceiveThread

(* Messages that fit in the buffer are dispatched whole and in order,      *)
(* however many there are and in whatever pieces they are received.        *)
THEOREM MessagesHold == Spec => []MessagesWhole
<1>1. Received => MessagesWhole
  BY DEF Received
<1> QED
  BY <1>1, ReceivedInit, ReceivedNext, PTL DEF Spec

-----------------------------------------------------------------------------
(* The packet thread reads in a message what the application wrote.        *)
LEMMA CommandRead ==
  ASSUME NEW k \in 1 .. Len(Commands), Len(Frames[k]) \in Word
  PROVE  /\ Generic(Frames[k], FALSE).type = CS_PACKET_TYPE_CONTROL
         /\ Command(Frames[k], FALSE)
              = [dest_id |-> Commands[k].dest_id,
                 command_type |-> Commands[k].command_type,
                 request_id |-> Commands[k].request_id,
                 payload |-> Commands[k].payload]
<1> DEFINE c == Commands[k]
           packet == ControlPacket(c)
           loaded == loadGenericPacket(Frames[k])
           control == loadControlPacket(packet)
<1>1. c \in Request
  BY ConstantsAssumption
<1>2. /\ c.command_type \in Byte /\ c.src_id \in Byte /\ c.dest_id \in Byte
      /\ c.request_id \in Word /\ c.payload \in Seq(Byte)
      /\ Len(c.payload) \in Nat
  BY <1>1 DEF Request
<1>3. /\ packet \in Seq(Byte) /\ Len(packet) = 7 + Len(c.payload)
      /\ Len(Frames[k]) = 11 + Len(c.payload)
      /\ Frames[k] = GenericPacket(CS_PACKET_TYPE_CONTROL, packet)
  BY FrameFacts
<1> HIDE DEF c
<1>4. packet \in Payloads /\ c.payload \in Payloads
  <2> HIDE DEF packet
  <2>1. Len(packet) \in Word /\ Len(c.payload) \in Word
    BY <1>2, <1>3, WordDown
  <2> QED
    BY <1>2, <1>3, <2>1 DEF Payloads
<1>5. Frames[k] = wrapGenericPacket(CS_PACKET_TYPE_CONTROL, packet).bytes
  BY <1>3 DEF GenericPacket, wrapGenericPacket
<1>6. loaded.type = CS_PACKET_TYPE_CONTROL /\ loaded.payload = packet
  <2> HIDE DEF packet
  <2>1. CS_PACKET_TYPE_CONTROL \in Byte
    BY DEF CS_PACKET_TYPE_CONTROL, Byte
  <2> QED
    BY <1>4, <1>5, <2>1, GenericIntact
<1>7. Generic(Frames[k], FALSE) = loaded
  BY DEF Generic
<1>8. /\ control.command_type = c.command_type /\ control.dest_id = c.dest_id
      /\ control.request_id = c.request_id
      /\ control.length = Len(c.payload) /\ control.payload = c.payload
  BY <1>2, <1>4, ControlIntact DEF ControlPacket
<1>9. Command(Frames[k], FALSE)
        = [dest_id |-> control.dest_id, command_type |-> control.command_type,
           request_id |-> control.request_id,
           payload |-> [p \in 1 .. control.length |-> At(control.payload, p)]]
  <2> HIDE DEF packet, loaded
  <2> QED
    BY <1>6, <1>7 DEF Command
<1>10. [p \in 1 .. Len(c.payload) |-> At(c.payload, p)] = c.payload
  <2> DEFINE b == c.payload
  <2>1. b \in Seq(Byte)
    BY <1>2
  <2> HIDE DEF b
  <2>2. [p \in 1 .. Len(b) |-> At(b, p)] = b
    BY <2>1 DEF At
  <2> QED
    BY <2>2 DEF b
<1>11. Generic(Frames[k], FALSE).type = CS_PACKET_TYPE_CONTROL
  BY <1>6, <1>7
<1> HIDE DEF control, loaded, packet
<1>12. Command(Frames[k], FALSE)
         = [dest_id |-> c.dest_id, command_type |-> c.command_type,
            request_id |-> c.request_id, payload |-> c.payload]
  BY <1>8, <1>9, <1>10
<1> QED
  BY <1>11, <1>12 DEF c

(* Every command that fits in the buffer gets to the packet thread as the  *)
(* application sent it.  The buffer is not longer than a length can say.   *)
THEOREM CommandsHold ==
  ASSUME BufferSize \in Word
  PROVE  Spec => []CommandsIntact
<1>1. Received => CommandsIntact
  <2> SUFFICES ASSUME Received, NEW k \in 1 .. Len(dispatched), k < frame,
                      \A j \in 1 .. k : Fits(j)
               PROVE  /\ Generic(dispatched[k], FALSE).type
                            = CS_PACKET_TYPE_CONTROL
                      /\ Command(dispatched[k], FALSE)
                            = [dest_id |-> Commands[k].dest_id,
                               command_type |-> Commands[k].command_type,
                               request_id |-> Commands[k].request_id,
                               payload |-> Commands[k].payload]
    BY DEF CommandsIntact
  <2>1. dispatched[k] = Frames[k]
    BY DEF Received, MessagesWhole
  <2>2. k \in 1 .. Len(Commands)
    <3>1. Len(Commands) \in Nat /\ frame \in 1 .. Len(Commands) + 1
          /\ Len(dispatched) \in Nat
      BY ConstantsAssumption DEF Received, Typed, TypeOK
    <3> QED
      BY <3>1
  <2>3. Len(Frames[k]) \in Word
    <3>1. Len(Frames[k]) <= BufferSize /\ Len(Frames[k]) \in Nat
      <4>1. Fits(k)
        BY <2>2
      <4> QED
        BY <2>2, <4>1, FrameFacts DEF Fits
    <3> QED
      BY <3>1, WordDown
  <2> QED
    BY <2>1, <2>2, <2>3, CommandRead
<1> QED
  BY <1>1, ReceivedInit, ReceivedNext, PTL DEF Spec

-----------------------------------------------------------------------------
(* The packet with the k-th answer. *)
Answered(k) == Outgoing(Answers[k], Answers[k].request, FALSE)

(* The slot holds the newest answer. *)
SlotAnswers == IF answer = 0 THEN slot = <<>> ELSE slot = Answered(answer)

Filled == Typed /\ SlotAnswers

LEMMA FilledInit == Init => Filled
BY TypedInit DEF Init, Filled, SlotAnswers

LEMMA FilledNext == Filled /\ [Next]_vars => Filled'
<1> SUFFICES ASSUME Filled, [Next]_vars PROVE SlotAnswers'
  BY TypedNext DEF Filled
<1>1. answer \in Nat
  BY ConstantsAssumption DEF Filled, Typed, TypeOK
<1>2. CASE FillSlot
  <2>1. answer' = answer + 1 /\ slot' = Answered(answer + 1)
    BY <1>2 DEF FillSlot, Answered
  <2>2. answer' # 0 /\ slot' = Answered(answer')
    BY <1>1, <2>1
  <2> QED
    BY <2>2, Zenon DEF SlotAnswers, Answered
<1>3. CASE ~ FillSlot
  <2>1. slot' = slot /\ answer' = answer
    BY <1>3 DEF Next, Setup, SocketInit, NotInitialized, SocketConnect,
                HandshakeFails, HandshakeDone, StartThread, BytesArrive,
                ServerCloses, ReceiveThread, ThreadStarts, Receive,
                NothingThere, Wake, Dispatch, Callback, SendRefused,
                SendWaits, SendMessage, SendReturns, vars, sendVars
  <2> QED
    BY <2>1 DEF Filled, SlotAnswers, Answered
<1> QED
  BY <1>2, <1>3

(* The length of the packet with an answer. *)
LEMMA AnsweredLength ==
  ASSUME NEW k \in 1 .. Len(Answers)
  PROVE  /\ Len(Answered(k)) = GenericSize + Len(Answers[k].payload)
              + (IF Answers[k].request.id > 0 THEN ResultSize ELSE DataSize)
         /\ Len(Answers[k].payload) \in Nat
<1> DEFINE a == Answers[k]
<1>1. a \in Answer
  BY ConstantsAssumption
<1>2. /\ a.src_id \in Byte /\ a.result_code \in Byte /\ a.payload \in Seq(Byte)
      /\ a.request.type \in Byte /\ a.request.id \in Word
  BY <1>1 DEF Answer
<1> HIDE DEF a
<1>3. Len(Outgoing(a, a.request, FALSE)) = GenericSize + Len(a.payload)
        + (IF a.request.id > 0 THEN ResultSize ELSE DataSize)
  BY <1>2, OutgoingLength
<1>4. Len(a.payload) \in Nat
  BY <1>2
<1> QED
  BY <1>3, <1>4, Zenon DEF a, Answered

(* The slot is overrun by exactly those answers whose payload does not     *)
(* leave room for the headers, whenever they come and whatever the         *)
(* callback does: nothing else can overrun it, and nothing stops these.    *)
THEOREM OverrunsExactly ==
  Spec => [](BufferHolds <=> (answer = 0 \/ AnswerFits(answer)))
<1>1. Filled => (BufferHolds <=> (answer = 0 \/ AnswerFits(answer)))
  <2> SUFFICES ASSUME Filled
               PROVE  BufferHolds <=> (answer = 0 \/ AnswerFits(answer))
    OBVIOUS
  <2>1. answer \in 0 .. Len(Answers) /\ Len(Answers) \in Nat /\ BufferSize \in Nat
    BY ConstantsAssumption DEF Filled, Typed, TypeOK
  <2>2. CASE answer = 0
    <3>1. Len(slot) = 0
      BY <2>2 DEF Filled, SlotAnswers
    <3> QED
      BY <2>1, <2>2, <3>1 DEF BufferHolds
  <2>3. CASE answer # 0
    <3>1. answer \in 1 .. Len(Answers) /\ slot = Answered(answer)
      BY <2>1, <2>3 DEF Filled, SlotAnswers
    <3> QED
      BY <2>3, <3>1, AnsweredLength DEF BufferHolds, AnswerFits
  <2> QED
    BY <2>2, <2>3
<1> QED
  BY <1>1, FilledInit, FilledNext, PTL DEF Spec

(* A peripheral may give the packet handler as many bytes as a packet      *)
(* buffer has.  They always overrun the slot.                              *)
THEOREM FullPayloadOverruns ==
  ASSUME NEW k \in 1 .. Len(Answers), Len(Answers[k].payload) = BufferSize
  PROVE  Spec => [](answer = k => ~ BufferHolds)
<1>1. ~ AnswerFits(k)
  <2>1. BufferSize \in Nat
    BY ConstantsAssumption
  <2>2. ~ (GenericSize + BufferSize
             + (IF Answers[k].request.id > 0 THEN ResultSize ELSE DataSize)
             <= BufferSize)
    BY <2>1 DEF GenericSize, ResultSize, DataSize
  <2> QED
    BY <2>2 DEF AnswerFits
<1>2. k # 0
  OBVIOUS
<1>3. (BufferHolds <=> (answer = 0 \/ AnswerFits(answer)))
        => (answer = k => ~ BufferHolds)
  BY <1>1, <1>2
<1> QED
  BY <1>3, OverrunsExactly, PTL

-----------------------------------------------------------------------------
(* The lengths of an answer that fits do so in the fields they are written *)
(* in.                                                                     *)
LEMMA AnswersFound ==
  ASSUME BufferSize \in Word, NEW k \in 1 .. Len(Answers), AnswerFits(k)
  PROVE  IF Answers[k].request.id > 0
         THEN FoundResult(Answered(k), Answers[k], Answers[k].request)
         ELSE FoundData(Answered(k), Answers[k])
<1> DEFINE a == Answers[k]
           n == Len(a.payload)
<1>1. a \in Answer
  BY ConstantsAssumption
<1>2. /\ a.src_id \in Byte /\ a.result_code \in Byte /\ a.payload \in Seq(Byte)
      /\ a.request.type \in Byte /\ a.request.id \in Word
  BY <1>1 DEF Answer
<1>3. GenericSize + n + (IF a.request.id > 0 THEN ResultSize ELSE DataSize)
        <= BufferSize
  BY DEF AnswerFits
<1>4. n \in Nat /\ BufferSize \in Nat
  BY <1>2, ConstantsAssumption
<1> HIDE DEF n
<1>5. n + ResultSize \in Nat /\ n + ResultSize <= BufferSize
  BY <1>3, <1>4 DEF GenericSize, ResultSize, DataSize
<1>6. n + ResultSize \in Word
  BY <1>5, WordDown
<1> HIDE DEF a
<1>7. IF a.request.id > 0
      THEN FoundResult(Outgoing(a, a.request, FALSE), a, a.request)
      ELSE FoundData(Outgoing(a, a.request, FALSE), a)
  BY <1>2, <1>6, OutgoingIntact DEF n
<1> QED
  BY <1>7 DEF a, Answered

(* Nothing is answered before main has connected,                          *)
NotBefore ==
  main \in {"init", "connect", "handshake", "opened"}
    => answer = 0 /\ ~ queued /\ work = "idle"

(* the socket, the event and the websocket are there when main has, and a  *)
(* callback that waits for the event waits for ever,                       *)
ConnectedSocket ==
  /\ main \in {"handshake", "opened", "connected"} => initialized
  /\ event = "posted" <=> main \in {"opened", "connected"}
  /\ main = "connected" => websockId
  /\ main # "connected" => toCloud = <<>>
  /\ work = "waiting" => main = "failed"

(* what was sent are answers in their order, and the newest of them        *)
(* unless it is about to be,                                               *)
InOrder ==
  /\ queued => answer >= 1
  /\ \A k \in 1 .. Len(toCloud) :
       /\ toCloud[k].answer \in 1 .. answer
       /\ toCloud[k].message = Answered(toCloud[k].answer)
       /\ queued => toCloud[k].answer < answer
  /\ \A k \in 2 .. Len(toCloud) : toCloud[k - 1].answer < toCloud[k].answer

(* while the connection is open.                                           *)
NewestSent ==
  main = "connected" /\ server = "up" /\ ~ queued /\ answer > 0
    => toCloud # <<>> /\ toCloud[Len(toCloud)].answer = answer

Answering == Filled /\ NotBefore /\ ConnectedSocket /\ InOrder /\ NewestSent

LEMMA AnsweringInit == Init => Answering
BY FilledInit DEF Init, Answering, NotBefore, ConnectedSocket, InOrder, NewestSent

LEMMA AnsweringNext ==
  ASSUME EarlyAnswers = FALSE, Answering, [Next]_vars
  PROVE  Answering'
<1>1. Filled'
  BY FilledNext DEF Answering
<1>2. /\ answer \in Nat /\ answer \in 0 .. Len(Answers) /\ Len(Answers) \in Nat
      /\ toCloud \in Seq([answer : 0 .. Len(Answers), message : Seq(Byte)])
      /\ Len(toCloud) \in Nat /\ work \in {"idle", "waiting", "sending"}
      /\ queued \in BOOLEAN
  BY ConstantsAssumption DEF Answering, Filled, Typed, TypeOK
<1> USE DEF Answering
<1>3. CASE Setup
  <2>1. UNCHANGED <<answer, slot, queued, work, toCloud>>
    BY <1>3 DEF Setup, SocketInit, NotInitialized, SocketConnect,
                HandshakeFails, HandshakeDone, StartThread, sendVars
  <2>2. NotBefore /\ main \in {"init", "connect", "handshake", "opened"}
    BY <1>3 DEF Setup, SocketInit, NotInitialized, SocketConnect,
                HandshakeFails, HandshakeDone, StartThread
  <2>3. answer = 0 /\ work = "idle" /\ ~ queued /\ toCloud = <<>>
    BY <2>2 DEF NotBefore, ConnectedSocket
  <2>4. ConnectedSocket'
    BY <1>3, <2>1, <2>3 DEF ConnectedSocket, Setup, SocketInit, NotInitialized,
                SocketConnect, HandshakeFails, HandshakeDone, StartThread,
                EventAfterHandshake
  <2> QED
    BY <1>1, <2>1, <2>3, <2>4 DEF NotBefore, InOrder, NewestSent
<1>4. CASE BytesArrive \/ ServerCloses \/ ReceiveThread \/ UNCHANGED vars
  <2>1. /\ UNCHANGED <<answer, queued, work, toCloud>>
        /\ UNCHANGED <<main, initialized, websockId, event>>
        /\ server' = "up" => server = "up"
    BY <1>4 DEF BytesArrive, ServerCloses, ReceiveThread, ThreadStarts, Receive,
                NothingThere, Wake, Dispatch, vars, setupVars, sendVars
  <2> QED
    BY <1>1, <2>1 DEF NotBefore, ConnectedSocket, InOrder, NewestSent, Answered
<1>5. CASE FillSlot
  <2>1. /\ main \in {"connected", "failed"}
        /\ answer' = answer + 1 /\ queued'
        /\ UNCHANGED <<main, initialized, websockId, event, server, work, toCloud>>
    BY <1>5 DEF FillSlot, QueuedAfterSubmit, setupVars
  <2>2. InOrder'
    <3>1. \A k \in 1 .. Len(toCloud) :
            toCloud[k].answer \in 1 .. answer + 1 /\ toCloud[k].answer < answer + 1
      BY <1>2 DEF InOrder
    <3>2. /\ queued' => answer' >= 1
          /\ \A k \in 1 .. Len(toCloud') :
               /\ toCloud'[k].answer \in 1 .. answer'
               /\ toCloud'[k].message = Answered(toCloud'[k].answer)
               /\ queued' => toCloud'[k].answer < answer'
          /\ \A k \in 2 .. Len(toCloud') :
               toCloud'[k - 1].answer < toCloud'[k].answer
      BY <1>2, <2>1, <3>1 DEF InOrder
    <3> QED
      BY <3>2, Zenon DEF InOrder, Answered
  <2> QED
    BY <1>1, <2>1, <2>2 DEF NotBefore, ConnectedSocket, NewestSent
<1>6. CASE SendRefused \/ SendWaits
  <2>1. /\ queued /\ queued' = FALSE /\ work' \in {work, "waiting"}
        /\ ~ initialized \/ event # "posted"
        /\ UNCHANGED <<main, initialized, websockId, event, server, answer, toCloud>>
    BY <1>6 DEF SendRefused, SendWaits, Starts, setupVars
  <2>2. main = "failed"
    BY <2>1 DEF ConnectedSocket, NotBefore, Filled, Typed, TypeOK
  <2> QED
    BY <1>1, <2>1, <2>2 DEF NotBefore, ConnectedSocket, InOrder, NewestSent,
                            Answered
<1>7. CASE SendMessage
  <2> DEFINE m == [answer |-> answer, message |-> slot]
  <2>1. /\ event = "posted" /\ work' = "sending"
        /\ queued \/ work = "waiting"
        /\ queued' = (queued /\ work = "waiting")
        /\ toCloud' = IF websockId /\ server = "up" THEN Append(toCloud, m)
                      ELSE toCloud
        /\ UNCHANGED <<main, initialized, websockId, event, server, answer>>
    BY <1>7 DEF SendMessage, Starts, setupVars
  <2>2. main \in {"opened", "connected"}
    BY <2>1 DEF ConnectedSocket
  <2>3. work # "waiting" /\ queued /\ main = "connected"
    BY <2>1, <2>2 DEF ConnectedSocket, NotBefore
  <2>4. ~ queued' /\ answer >= 1 /\ slot = Answered(answer)
    <3>1. ~ queued'
      BY <2>1, <2>3, Zenon
    <3>2. answer >= 1
      BY <2>3 DEF InOrder
    <3>3. slot = Answered(answer)
      BY <1>2, <3>2 DEF Filled, SlotAnswers
    <3> QED
      BY <3>1, <3>2, <3>3
  <2>5. NotBefore' /\ ConnectedSocket'
    BY <2>1, <2>3 DEF NotBefore, ConnectedSocket
  <2>6. CASE server = "up"
    <3>1. toCloud' = Append(toCloud, m)
      BY <2>1, <2>3, <2>6 DEF ConnectedSocket
    <3> DEFINE n == Len(toCloud)
    <3>2. /\ Len(toCloud') = n + 1 /\ toCloud'[n + 1] = m
          /\ \A k \in 1 .. n : toCloud'[k] = toCloud[k]
      BY <1>2, <3>1
    <3>3. m.answer = answer /\ m.message = slot
      OBVIOUS
    <3>4. \A k \in 1 .. n : /\ toCloud[k].answer \in 1 .. answer
                            /\ toCloud[k].message = Answered(toCloud[k].answer)
                            /\ toCloud[k].answer < answer
      BY <2>3 DEF InOrder
    <3>5. \A k \in 2 .. n : toCloud[k - 1].answer < toCloud[k].answer
      BY DEF InOrder
    <3> HIDE DEF m
    <3>6. \A k \in 1 .. n + 1 :
            /\ toCloud'[k].answer \in 1 .. answer
            /\ toCloud'[k].message = Answered(toCloud'[k].answer)
      <4> SUFFICES ASSUME NEW k \in 1 .. n + 1
                   PROVE  /\ toCloud'[k].answer \in 1 .. answer
                          /\ toCloud'[k].message = Answered(toCloud'[k].answer)
        OBVIOUS
      <4>1. CASE k = n + 1
        <5>1. toCloud'[k].answer = answer /\ toCloud'[k].message = Answered(answer)
          BY <2>4, <3>2, <3>3, <4>1
        <5> QED
          BY <1>2, <2>4, <5>1
      <4>2. CASE k # n + 1
        <5>1. k \in 1 .. n
          BY <1>2, <4>2
        <5> QED
          BY <3>2, <3>4, <5>1
      <4> QED
        BY <4>1, <4>2
    <3>7. \A k \in 2 .. n + 1 : toCloud'[k - 1].answer < toCloud'[k].answer
      <4> SUFFICES ASSUME NEW k \in 2 .. n + 1
                   PROVE  toCloud'[k - 1].answer < toCloud'[k].answer
        OBVIOUS
      <4>1. CASE k = n + 1
        <5>1. k - 1 \in 1 .. n
          BY <1>2, <4>1
        <5> QED
          BY <3>2, <3>3, <3>4, <4>1, <5>1
      <4>2. CASE k # n + 1
        <5>1. k \in 2 .. n /\ k \in 1 .. n /\ k - 1 \in 1 .. n
          BY <1>2, <4>2
        <5> QED
          BY <3>2, <3>5, <5>1
      <4> QED
        BY <4>1, <4>2
    <3>8. InOrder'
      BY <2>1, <2>4, <3>2, <3>6, <3>7 DEF InOrder, Answered
    <3>9. NewestSent'
      BY <1>2, <2>1, <3>2, <3>3 DEF NewestSent
    <3> QED
      BY <1>1, <2>5, <3>8, <3>9
  <2>7. CASE server # "up"
    <3>1. toCloud' = toCloud
      BY <2>1, <2>7
    <3> QED
      BY <1>1, <2>1, <2>4, <2>5, <2>7, <3>1 DEF InOrder, NewestSent, Answered
  <2> QED
    BY <2>6, <2>7
<1>8. CASE SendReturns
  BY <1>1, <1>8 DEF SendReturns, setupVars, NotBefore, ConnectedSocket,
                    InOrder, NewestSent, Answered
<1> QED
  BY <1>3, <1>4, <1>5, <1>6, <1>7, <1>8 DEF Next, Callback

(* What the cloud gets are answers in their order, none twice, with what   *)
(* they say intact, and the newest gets there while the connection is      *)
(* open, however often the slot is filled under the callback.  The slot is *)
(* not filled before main has connected, and the buffer is not longer than *)
(* a length can say.                                                       *)
THEOREM AnswersHold ==
  ASSUME EarlyAnswers = FALSE, BufferSize \in Word
  PROVE  Spec => []AnswersIntact
<1>1. Answering => AnswersIntact
  <2> SUFFICES ASSUME Answering, \A j \in 1 .. answer : AnswerFits(j)
               PROVE  /\ \A k \in 1 .. Len(toCloud) :
                           Says(toCloud[k].message, Answers[toCloud[k].answer])
                      /\ \A k \in 2 .. Len(toCloud) :
                           toCloud[k - 1].answer < toCloud[k].answer
                      /\ server = "up" /\ main = "connected" /\ ~ queued
                         /\ answer > 0
                           => toCloud # <<>>
                              /\ toCloud[Len(toCloud)].answer = answer
    BY Zenon DEF AnswersIntact
  <2>1. ASSUME NEW k \in 1 .. Len(toCloud)
        PROVE  Says(toCloud[k].message, Answers[toCloud[k].answer])
    <3> DEFINE j == toCloud[k].answer
    <3>1. /\ Len(Answers) \in Nat /\ answer \in 0 .. Len(Answers)
          /\ Len(toCloud) \in Nat
      BY ConstantsAssumption DEF Answering, Filled, Typed, TypeOK
    <3>2. j \in 1 .. answer /\ toCloud[k].message = Answered(j)
      BY DEF Answering, InOrder
    <3> HIDE DEF j
    <3>3. j \in 1 .. Len(Answers) /\ AnswerFits(j)
      BY <3>1, <3>2
    <3>4. Answers[j] \in Answer
      BY <3>3, ConstantsAssumption
    <3>5. Answers[j].request.id > 0 \/ Answers[j].request.id = 0
      BY <3>4, WordIsNat DEF Answer
    <3>6. IF Answers[j].request.id > 0
          THEN FoundResult(Answered(j), Answers[j], Answers[j].request)
          ELSE FoundData(Answered(j), Answers[j])
      BY <3>3, AnswersFound
    <3>7. Says(Answered(j), Answers[j])
      BY <3>5, <3>6 DEF Says, FoundResult, FoundData
    <3> QED
      BY <3>2, <3>7 DEF j
  <2> QED
    BY <2>1 DEF Answering, InOrder, NewestSent
<1>2. Answering /\ [Next]_vars => Answering'
  BY AnsweringNext
<1> QED
  BY <1>1, <1>2, AnsweringInit, PTL DEF Spec
==============================================================================
