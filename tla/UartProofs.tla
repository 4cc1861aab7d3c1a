------------------------------ MODULE UartProofs ------------------------------
(***************************************************************************)
(* The buffer that reception and transmission share is never overrun, for  *)
(* buffers, messages and streams of any length and whoever speaks when.    *)
(* When router and peer take turns, or the router has nothing to send, the *)
(* one counter serves both: what the peer says is taken up in order and    *)
(* lines that fit are taken up whole, and the wire carries whole messages. *)
(***************************************************************************)
EXTENDS Uart, FiniteSetTheorems, SequenceTheorems, TLAPS

Packet == [type : {"incoming", "outgoing"}, data : Seq(Byte)]

(* A set of numbers that is not empty has a least one.                     *)
Less == {s \in Nat \X Nat : s[1] < s[2]}

LEMMA LeastExists ==
  ASSUME NEW E, E \subseteq Nat, E # {}
  PROVE  \E n \in E : \A j \in E : n <= j
<1>1. IsWellFoundedOn(Less, Nat)
  BY NatLessThanWellFounded DEF OpToRel, Less
<1>2. PICK n \in E : \A j \in E : ~ (<<j, n>> \in Less)
  BY <1>1, WFMin
<1>3. \A j \in E : ~ (j < n)
  BY <1>2 DEF Less
<1> QED
  BY <1>3

(* A prefix of a sequence of bytes is one.                                 *)
LEMMA Prefix ==
  ASSUME NEW s \in Seq(Byte), NEW n \in 0 .. Len(s)
  PROVE  SubSeq(s, 1, n) \in Seq(Byte) /\ Len(SubSeq(s, 1, n)) = n
OBVIOUS

LEMMA SmallerOfTwo ==
  ASSUME NEW m \in Nat, NEW n \in Nat
  PROVE  Min({m, n}) \in Nat /\ Min({m, n}) <= m /\ Min({m, n}) <= n
<1>1. \E x \in {m, n} : \A y \in {m, n} : x <= y
  OBVIOUS
<1> QED
  BY <1>1 DEF Min

(* The thread makes packets of bytes. *)
LEMMA PacketBytes ==
  ASSUME ConstantsAssumption, NEW line \in Seq(Byte)
  PROVE  PacketOf(line) \in Packet
<1> DEFINE s == line \o <<NoByte>>
           zeros == {p \in 1 .. Len(s) : s[p] = NoByte \/ KindOf(s[p]) = "nul"}
           n == SelectInSeq(s, LAMBDA b : b = NoByte \/ KindOf(b) = "nul")
<1>1. NoByte \in Byte
  BY DEF Byte
<1>2. Len(line) \in Nat /\ Len(s) = Len(line) + 1 /\ s[Len(s)] = NoByte
  OBVIOUS
<1>3. zeros # {} /\ n = Min(zeros)
  <2>1. Len(s) \in zeros
    BY <1>2
  <2> QED
    BY <2>1 DEF SelectInSeq
<1>4. n \in 1 .. Len(line) + 1
  <2> HIDE DEF zeros, n
  <2>1. zeros \subseteq 1 .. Len(line) + 1
    BY <1>2 DEF zeros
  <2>2. \E x \in zeros : \A y \in zeros : x <= y
    <3>1. zeros \subseteq Nat
      BY <1>2, <2>1
    <3> QED
      BY <1>3, <3>1, LeastExists
  <2> QED
    BY <1>3, <2>1, <2>2 DEF Min
<1> DEFINE text == Text(line)
<1>5. text = SubSeq(line, 1, n - 1)
  BY Zenon DEF Text
<1>6. text \in Seq(Byte) /\ Len(text) \in Nat
  <2> HIDE DEF n
  <2>1. n - 1 \in 0 .. Len(line)
    BY <1>2, <1>4
  <2>2. SubSeq(line, 1, n - 1) \in Seq(Byte)
    BY <2>1, Prefix
  <2> HIDE DEF text
  <2> QED
    BY <1>5, <2>2
<1> HIDE DEF text, n, s, zeros
<1>7. Cut(text) \in Seq(Byte)
  <2> DEFINE m == Min({Len(text), PacketSize})
  <2>1. PacketSize \in Nat
    BY ConstantsAssumption
  <2>2. m \in Nat /\ m <= Len(text)
    BY <1>6, <2>1, SmallerOfTwo
  <2> HIDE DEF m
  <2>3. SubSeq(text, 1, m) \in Seq(Byte)
    BY <1>6, <2>2, Prefix
  <2> QED
    BY <2>3 DEF Cut, m
<1>8. PacketOf(line)
        = [type |-> IF KindOf(line[1]) = "start" THEN "incoming" ELSE "outgoing",
           data |-> Cut(text)]
  BY Zenon DEF PacketOf, text
<1> QED
  BY <1>7, <1>8 DEF Packet

-----------------------------------------------------------------------------
LEMMA TypeInit == Init => TypeOK
<1> SUFFICES ASSUME Init PROVE TypeOK
  OBVIOUS
<1>1. traffic \in Traffic /\ BufferSize \in Nat /\ BufferSize - 1 \in Nat
  BY ConstantsAssumption DEF Init
<1>2. Stream \in Seq(Kind) /\ MessageLengths \in Seq(0 .. PacketSize)
  BY <1>1 DEF Traffic, Stream, MessageLengths
<1>3. Len(Stream) \in Nat /\ Len(MessageLengths) \in Nat
  BY <1>2
<1>4. NoByte \in Byte
  BY DEF Byte
<1>5. buf \in [0 .. BufferSize - 1 -> Byte]
  BY <1>4 DEF Init
<1>6. /\ rxFifo \in Seq(Byte) /\ txFifo \in Seq(Byte) /\ wire \in Seq(Byte)
      /\ uartq \in Seq(Seq(Byte))
      /\ handled \in Seq([type : {"incoming", "outgoing"}, data : Seq(Byte)])
  BY DEF Init
<1>7. /\ heard \in 0 .. Len(Stream) /\ given \in 0 .. Len(MessageLengths)
      /\ ctr \in 0 .. BufferSize - 1 /\ ptr \in Nat
  BY <1>1, <1>3 DEF Init
<1> QED
  BY <1>1, <1>5, <1>6, <1>7, Zenon DEF Init, TypeOK

(* The bytes of the messages and of the peer. *)
LEMMA BytesOfBoth ==
  ASSUME TypeOK
  PROVE  /\ \A k \in 1 .. Len(Stream) : <<"peer", k, 0>> \in Byte
         /\ \A m \in 1 .. Len(MessageLengths) :
              /\ MessageLengths[m] \in 0 .. PacketSize
              /\ \A p \in 1 .. MessageLengths[m] : Message(m)[p] \in Byte
<1>1. MessageLengths \in Seq(0 .. PacketSize)
  BY DEF TypeOK, Traffic, MessageLengths
<1>2. PacketSize \in Nat
  BY ConstantsAssumption
<1>3. ASSUME NEW m \in 1 .. Len(MessageLengths)
      PROVE  /\ MessageLengths[m] \in 0 .. PacketSize
             /\ \A p \in 1 .. MessageLengths[m] : Message(m)[p] \in Byte
  <2>1. MessageLengths[m] \in 0 .. PacketSize
    <3> DEFINE S == 0 .. PacketSize
    <3>1. MessageLengths \in Seq(S)
      BY <1>1
    <3> HIDE DEF S
    <3>2. MessageLengths[m] \in S
      BY <3>1
    <3> QED
      BY <3>2 DEF S
  <2>2. \A p \in 1 .. MessageLengths[m] : p \in 1 .. PacketSize
    BY <1>2, <2>1
  <2> QED
    BY <2>1, <2>2 DEF Message, Byte
<1> QED
  BY <1>3 DEF Byte

(* The traffic is fixed, and so are the bytes there can be.                *)
LEMMA SameBytes ==
  ASSUME UNCHANGED traffic
  PROVE  Byte' = Byte /\ Stream' = Stream /\ MessageLengths' = MessageLengths
BY DEF Byte, Stream, MessageLengths

(* The buffer and what the transmit part takes from it hold bytes.         *)
LEMMA BytesOfBuffer ==
  ASSUME TypeOK
  PROVE  /\ BufAfterRx \in [0 .. BufferSize - 1 -> Byte]
         /\ \A n \in Nat : Bytes(ptr, n) \in Seq(Byte) /\ Len(Bytes(ptr, n)) = n
<1>1. /\ BufferSize \in Nat /\ ptr \in Nat /\ rxFifo \in Seq(Byte)
      /\ buf \in [0 .. BufferSize - 1 -> Byte]
  BY ConstantsAssumption DEF TypeOK
<1>2. BufAfterRx \in [0 .. BufferSize - 1 -> Byte]
  <2>1. RxStores => Head(rxFifo) \in Byte
    BY <1>1 DEF RxStores, RxReady
  <2> QED
    BY <1>1, <2>1 DEF BufAfterRx
<1>3. ASSUME NEW n \in Nat
      PROVE  Bytes(ptr, n) \in Seq(Byte) /\ Len(Bytes(ptr, n)) = n
  <2>1. NoByte \in Byte
    BY DEF Byte
  <2>2. \A j \in 1 .. n :
          ptr + j - 1 < BufferSize => BufAfterRx[ptr + j - 1] \in Byte
    BY <1>1, <1>2
  <2>3. Bytes(ptr, n) \in [1 .. n -> Byte]
    BY <2>1, <2>2 DEF Bytes
  <2> QED
    BY <2>3
<1> QED
  BY <1>2, <1>3

(* The interrupt handler writes within the buffer, and the counter stays   *)
(* within it, whatever the callback has put there.                         *)
LEMMA InterruptKeeps ==
  ASSUME TypeOK, Interrupt, UNCHANGED traffic
  PROVE  TypeOK'
<1>0. Byte' = Byte /\ Stream' = Stream /\ MessageLengths' = MessageLengths
  BY SameBytes
<1>1. /\ BufferSize \in Nat /\ TxFifoSize \in Nat /\ BufferSize >= 2
  BY ConstantsAssumption
<1>2. /\ ctr \in Nat /\ ctr <= BufferSize - 1 /\ ptr \in Nat
      /\ rxFifo \in Seq(Byte) /\ txFifo \in Seq(Byte) /\ wire \in Seq(Byte)
      /\ buf \in [0 .. BufferSize - 1 -> Byte]
      /\ uartq \in Seq(Seq(Byte))
  BY <1>1 DEF TypeOK
<1>3. CtrAfterRx \in Nat /\ CtrAfterRx <= BufferSize - 1
  BY <1>1, <1>2 DEF CtrAfterRx, RxStores, RxEnds, Full
<1>4. BufAfterRx \in [0 .. BufferSize - 1 -> Byte]
  BY BytesOfBuffer
<1>5. rxFifo' \in Seq(Byte)
  BY <1>2 DEF Interrupt, Receive, RxReady
<1>6. uartq' \in Seq(Seq(Byte))
  <2>1. Line \in Seq(Byte)
    <3>1. \A p \in 1 .. ctr : buf[p - 1] \in Byte
      BY <1>1, <1>2
    <3>2. Line \in [1 .. ctr -> Byte]
      BY <3>1 DEF Line
    <3> QED
      BY <1>2, <3>2
  <2>2. \A q \in Seq(Seq(Byte)) : Append(q, Line) \in Seq(Seq(Byte))
    BY <2>1
  <2>3. QueueAfterLine \in Seq(Seq(Byte))
    BY <1>2, <2>2 DEF QueueAfterLine
  <2> QED
    BY <1>2, <2>3, Zenon DEF Interrupt, Receive
<1>7. /\ txFifo' \in Seq(Byte) /\ ctr' \in Nat /\ ctr' <= BufferSize - 1
      /\ ptr' \in Nat
  <2>1. CASE ~ TxReady
    BY <1>2, <1>3, <2>1 DEF Interrupt, Transmit
  <2>2. CASE TxReady
    <3> DEFINE room == TxFifoSize - Len(txFifo)
               n == IF CtrAfterRx < room THEN CtrAfterRx ELSE room
    <3>1. room \in Nat
      BY <1>1, <1>2, <2>2 DEF TxReady
    <3>2. n \in Nat /\ n <= CtrAfterRx
      BY <1>3, <3>1
    <3>3. txFifo' = txFifo \o Bytes(ptr, n) /\ ctr' = CtrAfterRx - n
          /\ ptr' = PointerAfter(n)
      BY <2>2, Zenon DEF Interrupt, Transmit
    <3> HIDE DEF n
    <3>4. Bytes(ptr, n) \in Seq(Byte)
      BY <3>2, BytesOfBuffer
    <3>5. txFifo' \in Seq(Byte)
      BY <1>2, <3>3, <3>4
    <3>6. ctr' \in Nat /\ ctr' <= BufferSize - 1 /\ ptr' \in Nat
      BY <1>1, <1>2, <1>3, <3>2, <3>3 DEF PointerAfter
    <3> QED
      BY <3>5, <3>6
  <2> QED
    BY <2>1, <2>2
<1>8. ctr' \in 0 .. BufferSize - 1
  BY <1>1, <1>7
<1>9. rxIrq' \in BOOLEAN /\ txIrq' \in BOOLEAN
  BY Zenon DEF Interrupt, Transmit, ReceiverAfterTx, TypeOK
<1>10. buf' \in [0 .. BufferSize - 1 -> Byte]
  BY <1>4 DEF Interrupt, Receive
<1> QED
  BY <1>0, <1>5, <1>6, <1>7, <1>8, <1>9, <1>10, Zenon
  DEF TypeOK, Interrupt, threadVars, sendVars

(* A message fits in the buffer with room for the terminator.              *)
LEMMA SendKeeps ==
  ASSUME TypeOK, Send, UNCHANGED traffic
  PROVE  TypeOK'
<1>0. Byte' = Byte /\ Stream' = Stream /\ MessageLengths' = MessageLengths
  BY SameBytes
<1>1. CASE SendCopy
  <2>1. /\ BufferSize \in Nat /\ PacketSize \in Nat
        /\ PacketSize <= BufferSize - 1
    BY ConstantsAssumption
  <2>2. Len(MessageLengths) \in Nat
    <3>1. MessageLengths \in Seq(0 .. PacketSize)
      BY DEF TypeOK, Traffic, MessageLengths
    <3> QED
      BY <3>1
  <2>3. /\ given + 1 \in 1 .. Len(MessageLengths)
        /\ given' \in 0 .. Len(MessageLengths)
    BY <1>1, <2>2 DEF SendCopy, TypeOK
  <2>4. MessageLengths[given + 1] \in 0 .. PacketSize
        /\ \A p \in 1 .. MessageLengths[given + 1] : Message(given + 1)[p] \in Byte
    BY <2>3, BytesOfBoth
  <2>5. ctr' \in 0 .. BufferSize - 1
    BY <1>1, <2>1, <2>4 DEF SendCopy
  <2>6. buf' \in [0 .. BufferSize - 1 -> Byte]
    <3>1. \A p \in 0 .. BufferSize - 1 :
            /\ p < MessageLengths[given + 1] => Message(given + 1)[p + 1] \in Byte
            /\ buf[p] \in Byte
      BY <2>1, <2>4 DEF TypeOK
    <3>2. buf' = [p \in 0 .. BufferSize - 1 |->
                    IF p < MessageLengths[given + 1] THEN Message(given + 1)[p + 1]
                    ELSE buf[p]]
      BY <1>1 DEF SendCopy
    <3> QED
      BY <3>1, <3>2
  <2>7. ptr' \in Nat
    BY <1>1 DEF SendCopy
  <2> QED
    BY <1>0, <1>1, <2>3, <2>5, <2>6, <2>7, Zenon DEF SendCopy, TypeOK, threadVars
<1>2. CASE SendDisableRx \/ SendEnableTx
  BY <1>0, <1>2, Zenon
  DEF SendDisableRx, SendEnableTx, TypeOK, bufferVars, threadVars
<1> QED
  BY <1>1, <1>2 DEF Send

LEMMA RestKeeps ==
  ASSUME TypeOK, PeerByte \/ ShiftOut \/ HandleUartMessages, UNCHANGED traffic
  PROVE  TypeOK'
<1>0. Byte' = Byte /\ Stream' = Stream /\ MessageLengths' = MessageLengths
  BY SameBytes
<1> USE DEF bufferVars, threadVars, sendVars
<1>1. CASE PeerByte
  <2>1. Len(Stream) \in Nat
    <3>1. Stream \in Seq(Kind)
      BY DEF TypeOK, Traffic, Stream
    <3> QED
      BY <3>1
  <2>2. heard' \in 0 .. Len(Stream) /\ heard + 1 \in 1 .. Len(Stream)
    BY <1>1, <2>1 DEF PeerByte, TypeOK
  <2>3. <<"peer", heard + 1, 0>> \in Byte /\ rxFifo \in Seq(Byte)
    BY <2>2, BytesOfBoth DEF TypeOK
  <2>4. rxFifo' \in Seq(Byte)
    BY <1>1, <2>3 DEF PeerByte
  <2> QED
    BY <1>0, <1>1, <2>2, <2>4, Zenon DEF PeerByte, TypeOK
<1>2. CASE ShiftOut
  <2>1. txFifo \in Seq(Byte) /\ wire \in Seq(Byte) /\ txFifo # <<>>
    BY <1>2 DEF ShiftOut, TypeOK
  <2>2. txFifo' \in Seq(Byte) /\ wire' \in Seq(Byte)
    BY <1>2, <2>1 DEF ShiftOut
  <2> QED
    BY <1>0, <1>2, <2>2, Zenon DEF ShiftOut, TypeOK
<1>3. CASE HandleUartMessages
  <2>1. uartq \in Seq(Seq(Byte)) /\ uartq # <<>> /\ handled \in Seq(Packet)
    BY <1>3 DEF HandleUartMessages, TypeOK, Packet
  <2>2. Head(uartq) \in Seq(Byte) /\ uartq' \in Seq(Seq(Byte))
    BY <1>3, <2>1 DEF HandleUartMessages
  <2>3. PacketOf(Head(uartq)) \in Packet
    BY <2>2, ConstantsAssumption, PacketBytes
  <2>4. handled' \in Seq(Packet)
    BY <1>3, <2>1, <2>3 DEF HandleUartMessages
  <2>5. Packet' = Packet
    BY <1>0 DEF Packet
  <2>6. alive' \in BOOLEAN
    BY <1>3, Zenon DEF HandleUartMessages, TypeOK
  <2> QED
    BY <1>0, <1>3, <2>2, <2>4, <2>5, <2>6, Zenon
    DEF HandleUartMessages, TypeOK, Packet
<1> QED
  BY <1>1, <1>2, <1>3

(* The counter stays within the buffer and the terminator has its place,   *)
(* also when the peer speaks while a message is sent.                      *)
THEOREM TypesHold == Spec => []TypeOK
<1>1. TypeOK /\ [Next]_vars => TypeOK'
  <2> SUFFICES ASSUME TypeOK, [Next]_vars PROVE TypeOK'
    OBVIOUS
  <2>1. CASE Next
    BY <2>1, InterruptKeeps, SendKeeps, RestKeeps DEF Next, Step
  <2>2. CASE UNCHANGED vars
    <3>1. Byte' = Byte /\ Stream' = Stream /\ MessageLengths' = MessageLengths
      BY <2>2, SameBytes DEF vars
    <3> QED
      BY <2>2, <3>1, Zenon
      DEF vars, bufferVars, threadVars, sendVars, TypeOK
  <2> QED
    BY <2>1, <2>2
<1> QED
  BY <1>1, TypeInit, PTL DEF Spec

-----------------------------------------------------------------------------
(* What is received, when nothing is sent meanwhile. *)

(* n bytes of the peer, from its f-th on.                                  *)
Peer(f, n) == [p \in 1 .. n |-> <<"peer", f + p - 1, 0>>]

(* Byte k of stream s finds a full buffer: so many bytes, k the last, that *)
(* are no line end.                                                        *)
Overfull(s, k) ==
  /\ BufferSize <= k /\ k <= Len(s)
  /\ \A l \in k - BufferSize + 1 .. k : s[l] # "eol"

(* Where the handler begins to collect, *)
Begins(s, f) == f = 1 \/ s[f - 1] = "eol" \/ Overfull(s, f - 1)

(* and n bytes from there on that it puts into the queue: a whole line, or *)
(* a part of one that does not fit into the buffer.                        *)
Collects(s, f, n) ==
  /\ f + n <= Len(s)
  /\ \A l \in f .. f + n - 1 : s[l] # "eol"
  /\ Begins(s, f)
  /\ s[f + n] = "eol" \/ Overfull(s, f + n)

(* The thread keeps k of them: all, if they fit and none is zero.          *)
Keeps(s, f, n, k) ==
  /\ k <= n
  /\ n <= PacketSize /\ (\A l \in f .. f + n - 1 : s[l] # "nul") => k = n

(* All bytes of x were sent before those of y.                             *)
Before(x, y) == x # <<>> /\ y # <<>> => x[Len(x)][2] < y[1][2]

(* The lines in q were collected from the bytes up to the last one,        *)
QueueUpTo(s, q, last) ==
  \A c \in 1 .. Len(q) :
    \E f, n \in 1 .. Len(s) :
      Collects(s, f, n) /\ f + n - 1 <= last /\ q[c] = Peer(f, n)

(* the packets in h made of such lines,                                    *)
HandledUpTo(s, h, last) ==
  \A a \in 1 .. Len(h) :
    \E f, n \in 1 .. Len(s), k \in 0 .. Len(s) :
      /\ Collects(s, f, n) /\ f + n - 1 <= last
      /\ Keeps(s, f, n, k) /\ h[a].data = Peer(f, k)

(* and nothing overtakes.                                                  *)
Ordered(h, q) ==
  /\ \A a, b \in 1 .. Len(h) : a < b => Before(h[a].data, h[b].data)
  /\ \A a \in 1 .. Len(h), c \in 1 .. Len(q) : Before(h[a].data, q[c])
  /\ \A c, d \in 1 .. Len(q) : c < d => Before(q[c], q[d])

FromPeer == {"peer"} \X Nat \X {0}

LEMMA PeerFacts ==
  ASSUME NEW f \in Nat \ {0}, NEW n \in Nat
  PROVE  /\ Peer(f, n) \in Seq(FromPeer) /\ Len(Peer(f, n)) = n
         /\ \A p \in 1 .. n : /\ Peer(f, n)[p] = <<"peer", f + p - 1, 0>>
                              /\ Peer(f, n)[p][1] = "peer"
                              /\ Peer(f, n)[p][2] = f + p - 1
         /\ Peer(f, n) = <<>> <=> n = 0
<1>1. \A p \in 1 .. n : <<"peer", f + p - 1, 0>> \in FromPeer
  BY DEF FromPeer
<1>2. Peer(f, n) \in Seq(FromPeer) /\ Len(Peer(f, n)) = n
  BY <1>1 DEF Peer
<1>3. \A p \in 1 .. n : Peer(f, n)[p] = <<"peer", f + p - 1, 0>>
  BY DEF Peer
<1> QED
  BY <1>2, <1>3

LEMMA PeerPrefix ==
  ASSUME NEW f \in Nat \ {0}, NEW n \in Nat, NEW k \in 0 .. n
  PROVE  SubSeq(Peer(f, n), 1, k) = Peer(f, k)
<1>1. k \in Nat /\ k <= n
  OBVIOUS
<1>2. /\ Peer(f, n) \in Seq(FromPeer) /\ Len(Peer(f, n)) = n
      /\ Peer(f, k) \in Seq(FromPeer) /\ Len(Peer(f, k)) = k
      /\ \A p \in 1 .. k : Peer(f, n)[p] = Peer(f, k)[p]
  <2>1. \A p \in 1 .. k : p \in 1 .. n
    BY <1>1
  <2> QED
    BY <1>1, <2>1, PeerFacts DEF Peer
<1> DEFINE x == Peer(f, n)
           y == Peer(f, k)
<1> HIDE DEF x, y
<1>3. SubSeq(x, 1, k) = y
  BY <1>1, <1>2 DEF x, y
<1> QED
  BY <1>3 DEF x, y

(* Bytes of the peer are in order when their places are.                   *)
LEMMA PeerBefore ==
  ASSUME NEW f \in Nat \ {0}, NEW n \in Nat, NEW g \in Nat \ {0}, NEW m \in Nat
  PROVE  Before(Peer(f, n), Peer(g, m)) <=> n = 0 \/ m = 0 \/ f + n - 1 < g
<1>1. ASSUME n # 0 PROVE Peer(f, n)[Len(Peer(f, n))][2] = f + n - 1
  <2>1. Len(Peer(f, n)) = n /\ n \in 1 .. n
    BY <1>1, PeerFacts
  <2>2. Peer(f, n)[n][2] = f + n - 1
    BY <2>1, PeerFacts
  <2> QED
    BY <2>1, <2>2
<1>3. ASSUME m # 0 PROVE Peer(g, m)[1][2] = g
  <2>1. 1 \in 1 .. m /\ g + 1 - 1 = g
    BY <1>3
  <2> QED
    BY <2>1, PeerFacts
<1>2. (Peer(f, n) = <<>> <=> n = 0) /\ (Peer(g, m) = <<>> <=> m = 0)
  BY PeerFacts
<1> QED
  BY <1>1, <1>2, <1>3 DEF Before


(* What was collected from the bytes up to one was from those up to a      *)
(* later one.                                                              *)
LEMMA UpToLater ==
  ASSUME NEW s, Len(s) \in Nat, NEW q, NEW h, NEW last \in Int, NEW later \in Int,
         last <= later, QueueUpTo(s, q, last), HandledUpTo(s, h, last)
  PROVE  QueueUpTo(s, q, later) /\ HandledUpTo(s, h, later)
<1>1. \A f, n \in 1 .. Len(s) : f + n - 1 <= last => f + n - 1 <= later
  OBVIOUS
<1>2. QueueUpTo(s, q, later)
  BY <1>1, Zenon DEF QueueUpTo
<1>3. HandledUpTo(s, h, later)
  BY <1>1, Zenon DEF HandledUpTo
<1> QED
  BY <1>2, <1>3

(* Nothing is out of order in an empty queue.                              *)
LEMMA QueueEmpty ==
  ASSUME NEW s, NEW q, NEW h, NEW last, Ordered(h, q)
  PROVE  QueueUpTo(s, <<>>, last) /\ Ordered(h, <<>>)
BY DEF QueueUpTo, Ordered

(* What is collected next goes behind all that was collected before.       *)
LEMMA QueueLine ==
  ASSUME NEW s, Len(s) \in Nat, NEW S, NEW q \in Seq(S), NEW h,
         NEW f \in 1 .. Len(s), NEW n \in 1 .. Len(s), Collects(s, f, n),
         Peer(f, n) \in S,
         QueueUpTo(s, q, f - 1), HandledUpTo(s, h, f - 1), Ordered(h, q)
  PROVE  /\ QueueUpTo(s, Append(q, Peer(f, n)), f + n - 1)
         /\ HandledUpTo(s, h, f + n - 1)
         /\ Ordered(h, Append(q, Peer(f, n)))
<1> DEFINE x == Peer(f, n)
           r == Append(q, x)
<1>1. /\ Len(q) \in Nat /\ Len(r) = Len(q) + 1 /\ r[Len(q) + 1] = x
      /\ \A c \in 1 .. Len(q) : r[c] = q[c]
  OBVIOUS
<1>2. QueueUpTo(s, q, f + n - 1) /\ HandledUpTo(s, h, f + n - 1)
  BY UpToLater
<1>3. \A c \in 1 .. Len(q) : Before(q[c], x)
  <2> SUFFICES ASSUME NEW c \in 1 .. Len(q) PROVE Before(q[c], x)
    OBVIOUS
  <2>1. PICK g, m \in 1 .. Len(s) : g + m - 1 <= f - 1 /\ q[c] = Peer(g, m)
    BY DEF QueueUpTo
  <2>2. g + m - 1 < f /\ g \in Nat \ {0} /\ m \in Nat
        /\ f \in Nat \ {0} /\ n \in Nat
    BY <2>1
  <2> QED
    BY <2>1, <2>2, PeerBefore
<1>4. \A a \in 1 .. Len(h) : Before(h[a].data, x)
  <2> SUFFICES ASSUME NEW a \in 1 .. Len(h) PROVE Before(h[a].data, x)
    OBVIOUS
  <2>1. PICK g, m \in 1 .. Len(s), k \in 0 .. Len(s) :
          g + m - 1 <= f - 1 /\ Keeps(s, g, m, k) /\ h[a].data = Peer(g, k)
    BY DEF HandledUpTo
  <2>2. k <= m
    BY <2>1 DEF Keeps
  <2>3. g + k - 1 < f /\ g \in Nat \ {0} /\ k \in Nat
        /\ f \in Nat \ {0} /\ n \in Nat
    BY <2>1, <2>2
  <2> QED
    BY <2>1, <2>3, PeerBefore
<1> HIDE DEF x, r
<1>5. QueueUpTo(s, r, f + n - 1)
  <2> SUFFICES ASSUME NEW c \in 1 .. Len(r)
               PROVE  \E g, m \in 1 .. Len(s) :
                        Collects(s, g, m) /\ g + m - 1 <= f + n - 1
                          /\ r[c] = Peer(g, m)
    BY DEF QueueUpTo
  <2>1. CASE c \in 1 .. Len(q)
    BY <1>1, <1>2, <2>1 DEF QueueUpTo
  <2>2. CASE c = Len(q) + 1
    <3>1. r[c] = Peer(f, n) /\ f + n - 1 <= f + n - 1
      BY <1>1, <2>2 DEF x
    <3> QED
      BY <3>1
  <2> QED
    BY <1>1, <2>1, <2>2
<1>6. Ordered(h, r)
  <2>1. ASSUME NEW a \in 1 .. Len(h), NEW c \in 1 .. Len(r)
        PROVE  Before(h[a].data, r[c])
    <3>1. CASE c \in 1 .. Len(q)
      BY <1>1, <3>1 DEF Ordered
    <3>2. CASE c = Len(q) + 1
      BY <1>1, <1>4, <3>2
    <3> QED
      BY <1>1, <3>1, <3>2
  <2>2. ASSUME NEW c \in 1 .. Len(r), NEW d \in 1 .. Len(r), c < d
        PROVE  Before(r[c], r[d])
    <3>1. c \in 1 .. Len(q)
      BY <1>1, <2>2
    <3>2. CASE d \in 1 .. Len(q)
      BY <1>1, <2>2, <3>1, <3>2 DEF Ordered
    <3>3. CASE d = Len(q) + 1
      BY <1>1, <1>3, <3>1, <3>3
    <3> QED
      BY <1>1, <3>2, <3>3
  <2> QED
    BY <2>1, <2>2 DEF Ordered
<1> QED
  BY <1>2, <1>5, <1>6 DEF r, x

(* A packet made of the line in front goes behind the packets before.      *)
LEMMA HandleLine ==
  ASSUME NEW s, Len(s) \in Nat, NEW S, NEW q \in Seq(S), q # <<>>,
         NEW T, NEW h \in Seq(T), NEW last \in Int,
         QueueUpTo(s, q, last), HandledUpTo(s, h, last), Ordered(h, q),
         NEW packet \in T,
         \A f, n \in 1 .. Len(s) :
           Collects(s, f, n) /\ Head(q) = Peer(f, n)
             => \E k \in 0 .. n : Keeps(s, f, n, k) /\ packet.data = Peer(f, k)
  PROVE  /\ QueueUpTo(s, Tail(q), last)
         /\ HandledUpTo(s, Append(h, packet), last)
         /\ Ordered(Append(h, packet), Tail(q))
<1> DEFINE r == Tail(q)
           g == Append(h, packet)
<1>1. /\ Len(q) \in Nat /\ Len(q) >= 1 /\ Len(r) = Len(q) - 1 /\ Head(q) = q[1]
      /\ \A c \in 1 .. Len(r) : r[c] = q[c + 1] /\ c + 1 \in 1 .. Len(q)
  OBVIOUS
<1>2. /\ Len(h) \in Nat /\ Len(g) = Len(h) + 1 /\ g[Len(h) + 1] = packet
      /\ \A a \in 1 .. Len(h) : g[a] = h[a]
  OBVIOUS
<1> HIDE DEF r, g
<1>3. PICK f, n \in 1 .. Len(s) :
        Collects(s, f, n) /\ f + n - 1 <= last /\ q[1] = Peer(f, n)
  BY <1>1 DEF QueueUpTo
<1>4. PICK k \in 0 .. n : Keeps(s, f, n, k) /\ packet.data = Peer(f, k)
  BY <1>1, <1>3
<1>5. /\ k \in Nat /\ k <= n /\ k \in 0 .. Len(s)
      /\ f \in Nat \ {0} /\ n \in Nat \ {0}
  BY <1>3, <1>4
<1>6. QueueUpTo(s, r, last)
  <2> SUFFICES ASSUME NEW c \in 1 .. Len(r)
               PROVE  \E u, v \in 1 .. Len(s) :
                        Collects(s, u, v) /\ u + v - 1 <= last /\ r[c] = Peer(u, v)
    BY DEF QueueUpTo
  <2>1. r[c] = q[c + 1] /\ c + 1 \in 1 .. Len(q)
    BY <1>1
  <2>2. PICK u, v \in 1 .. Len(s) :
          Collects(s, u, v) /\ u + v - 1 <= last /\ q[c + 1] = Peer(u, v)
    BY <2>1 DEF QueueUpTo
  <2> QED
    BY <2>1, <2>2
<1>7. HandledUpTo(s, g, last)
  <2> SUFFICES ASSUME NEW a \in 1 .. Len(g)
               PROVE  \E u, v \in 1 .. Len(s), w \in 0 .. Len(s) :
                        /\ Collects(s, u, v) /\ u + v - 1 <= last
                        /\ Keeps(s, u, v, w) /\ g[a].data = Peer(u, w)
    BY DEF HandledUpTo
  <2>1. CASE a \in 1 .. Len(h)
    <3>1. g[a] = h[a]
      BY <1>2, <2>1
    <3> QED
      BY <2>1, <3>1, Zenon DEF HandledUpTo
  <2>2. CASE a = Len(h) + 1
    BY <1>2, <1>3, <1>4, <1>5, <2>2
  <2> QED
    BY <1>2, <2>1, <2>2
<1>8. ASSUME NEW x \in 1 .. Len(h) PROVE Before(h[x].data, packet.data)
  <2>1. PICK u, v \in 1 .. Len(s), w \in 0 .. Len(s) : h[x].data = Peer(u, w)
    BY DEF HandledUpTo
  <2>2. Before(Peer(u, w), Peer(f, n))
    BY <1>1, <1>3, <2>1 DEF Ordered
  <2>3. u \in Nat \ {0} /\ w \in Nat
    BY <2>1
  <2>4. w = 0 \/ u + w - 1 < f
    BY <1>5, <2>2, <2>3, PeerBefore
  <2>5. Before(Peer(u, w), Peer(f, k))
    BY <1>5, <2>3, <2>4, PeerBefore
  <2> QED
    BY <1>4, <2>1, <2>5
<1>9. ASSUME NEW c \in 1 .. Len(r) PROVE Before(packet.data, r[c])
  <2>1. r[c] = q[c + 1] /\ c + 1 \in 1 .. Len(q) /\ 1 < c + 1 /\ 1 \in 1 .. Len(q)
    BY <1>1
  <2>2. PICK u, v \in 1 .. Len(s) : q[c + 1] = Peer(u, v)
    BY <2>1 DEF QueueUpTo
  <2>3. Before(Peer(f, n), Peer(u, v))
    BY <1>3, <2>1, <2>2 DEF Ordered
  <2>4. u \in Nat \ {0} /\ v \in Nat
    BY <2>2
  <2>5. v = 0 \/ f + n - 1 < u
    BY <1>5, <2>3, <2>4, PeerBefore
  <2>6. v = 0 \/ f + k - 1 < u
    BY <1>5, <2>4, <2>5
  <2>7. Before(Peer(f, k), Peer(u, v))
    BY <1>5, <2>4, <2>6, PeerBefore
  <2> QED
    BY <1>4, <2>1, <2>2, <2>7
<1>10. Ordered(g, r)
  <2>1. ASSUME NEW a \in 1 .. Len(g), NEW b \in 1 .. Len(g), a < b
        PROVE  Before(g[a].data, g[b].data)
    <3>1. a \in 1 .. Len(h)
      BY <1>2, <2>1
    <3>2. CASE b \in 1 .. Len(h)
      BY <1>2, <2>1, <3>1, <3>2 DEF Ordered
    <3>3. CASE b = Len(h) + 1
      BY <1>2, <1>8, <3>1, <3>3
    <3> QED
      BY <1>2, <3>2, <3>3
  <2>2. ASSUME NEW a \in 1 .. Len(g), NEW c \in 1 .. Len(r)
        PROVE  Before(g[a].data, r[c])
    <3>1. CASE a \in 1 .. Len(h)
      BY <1>1, <1>2, <3>1 DEF Ordered
    <3>2. CASE a = Len(h) + 1
      BY <1>2, <1>9, <3>2
    <3> QED
      BY <1>2, <3>1, <3>2
  <2>3. ASSUME NEW c \in 1 .. Len(r), NEW d \in 1 .. Len(r), c < d
        PROVE  Before(r[c], r[d])
    <3>1. c + 1 < d + 1
      BY <2>3
    <3> QED
      BY <1>1, <3>1 DEF Ordered
  <2> QED
    BY <2>1, <2>2, <2>3 DEF Ordered
<1> QED
  BY <1>6, <1>7, <1>10 DEF r, g


-----------------------------------------------------------------------------
(* The stream has a kind for each of its bytes. *)
LEMMA StreamKinds ==
  ASSUME TypeOK
  PROVE  Stream \in Seq(Kind) /\ Len(Stream) \in Nat
BY DEF TypeOK, Traffic, Stream

(* A packet is made of the first bytes of a line, and of all of them when  *)
(* the line fits and has no zero byte.                                     *)
LEMMA PacketOfPeer ==
  ASSUME ConstantsAssumption, NEW f \in Nat \ {0}, NEW n \in Nat
  PROVE  \E k \in 0 .. n : Keeps(Stream, f, n, k) /\ PacketOf(Peer(f, n)).data = Peer(f, k)
<1> DEFINE line == Peer(f, n)
           s == line \o <<NoByte>>
           zeros == {p \in 1 .. Len(s) : s[p] = NoByte \/ KindOf(s[p]) = "nul"}
           m == SelectInSeq(s, LAMBDA b : b = NoByte \/ KindOf(b) = "nul")
           text == Text(line)
           bound == Min({Len(text), PacketSize})
<1>1. line \in Seq(FromPeer) /\ Len(line) = n
      /\ \A p \in 1 .. n : line[p] = <<"peer", f + p - 1, 0>>
  BY PeerFacts
<1>2. /\ Len(s) = n + 1 /\ s[n + 1] = NoByte
      /\ \A p \in 1 .. n : s[p] = line[p]
  <2> DEFINE U == FromPeer \cup {NoByte}
  <2>1. line \in Seq(U) /\ <<NoByte>> \in Seq(U)
    BY <1>1
  <2> HIDE DEF line, U
  <2> QED
    BY <1>1, <2>1
<1> HIDE DEF line, s
<1>3. zeros # {} /\ zeros \subseteq 1 .. n + 1 /\ n + 1 \in zeros
  BY <1>2
<1>4. m = Min(zeros)
  BY <1>3 DEF SelectInSeq
<1>5. m \in zeros /\ m \in 1 .. n + 1
  <2> HIDE DEF zeros, m
  <2>1. \E x \in zeros : \A y \in zeros : x <= y
    <3>1. zeros \subseteq Nat
      BY <1>3
    <3> QED
      BY <1>3, <3>1, LeastExists
  <2> QED
    BY <1>3, <1>4, <2>1 DEF Min
<1>6. (\A l \in f .. f + n - 1 : Stream[l] # "nul") => m = n + 1
  <2> SUFFICES ASSUME \A l \in f .. f + n - 1 : Stream[l] # "nul", m # n + 1
               PROVE  FALSE
    OBVIOUS
  <2>1. m \in 1 .. n
    BY <1>5
  <2>2. s[m] = <<"peer", f + m - 1, 0>>
    BY <1>1, <1>2, <2>1
  <2>3. s[m] # NoByte /\ KindOf(s[m]) = Stream[f + m - 1]
    BY <2>2 DEF NoByte, KindOf
  <2>4. Stream[f + m - 1] = "nul"
    BY <1>5, <2>3
  <2>5. f + m - 1 \in f .. f + n - 1
    BY <2>1
  <2> QED
    BY <2>4, <2>5
<1>7. text = SubSeq(line, 1, m - 1)
  BY Zenon DEF Text, s
<1>8. m - 1 \in 0 .. n /\ m - 1 \in Nat
  BY <1>5
<1> HIDE DEF m, zeros, text
<1>9. text = Peer(f, m - 1)
  BY <1>7, <1>8, PeerPrefix DEF line
<1>10. Len(text) = m - 1
  BY <1>8, <1>9, PeerFacts
<1>11. /\ bound \in Nat /\ bound <= m - 1 /\ bound <= PacketSize
       /\ bound = m - 1 \/ bound = PacketSize
  <2>1. PacketSize \in Nat
    BY ConstantsAssumption
  <2>2. bound \in {Len(text), PacketSize}
    <3>1. \E x \in {Len(text), PacketSize} : \A y \in {Len(text), PacketSize} : x <= y
      BY <1>8, <1>10, <2>1
    <3> QED
      BY <3>1 DEF Min
  <2> QED
    BY <1>8, <1>10, <2>1, <2>2, SmallerOfTwo
<1>12. Cut(text) = SubSeq(text, 1, bound)
  BY Zenon DEF Cut
<1> HIDE DEF bound
<1>13. Cut(text) = Peer(f, bound)
  <2>1. bound \in 0 .. m - 1
    BY <1>8, <1>11
  <2> QED
    BY <1>8, <1>9, <1>12, <2>1, PeerPrefix
<1>14. PacketOf(line).data = Cut(text)
  BY DEF PacketOf, text
<1>15. bound \in 0 .. n /\ Keeps(Stream, f, n, bound)
  <2>1. bound <= n
    BY <1>8, <1>11
  <2>2. ASSUME n <= PacketSize, \A l \in f .. f + n - 1 : Stream[l] # "nul"
        PROVE  bound = n
    <3>1. m - 1 = n
      BY <1>6, <2>2
    <3> QED
      BY <1>11, <2>1, <2>2, <3>1, ConstantsAssumption
  <2> QED
    BY <1>11, <2>1, <2>2 DEF Keeps
<1> QED
  BY <1>13, <1>14, <1>15 DEF line

LEMMA Extremes ==
  ASSUME NEW m \in Nat, NEW n \in Nat
  PROVE  /\ Min({m, n}) = IF m <= n THEN m ELSE n
         /\ Max({m, n}) = IF m <= n THEN n ELSE m
<1>1. \E x \in {m, n} : \A y \in {m, n} : x <= y
  OBVIOUS
<1>2. \E x \in {m, n} : \A y \in {m, n} : x >= y
  OBVIOUS
<1>3. Min({m, n}) \in {m, n} /\ \A y \in {m, n} : Min({m, n}) <= y
  BY <1>1 DEF Min
<1>4. Max({m, n}) \in {m, n} /\ \A y \in {m, n} : Max({m, n}) >= y
  BY <1>2 DEF Max
<1> QED
  BY <1>3, <1>4

(* The line of a byte: no line end between it and the others.              *)
LEMMA LineMembers ==
  ASSUME TypeOK, NEW f \in 1 .. Len(Stream), NEW j \in 1 .. Len(Stream)
  PROVE  j \in LineAt(f) <=>
           \A l \in 1 .. Len(Stream) :
             (f <= l /\ l <= j) \/ (j <= l /\ l <= f) => Stream[l] # "eol"
<1>1. Len(Stream) \in Nat /\ f \in Nat /\ j \in Nat
  BY StreamKinds
<1>2. /\ Min({j, f}) = IF j <= f THEN j ELSE f
      /\ Max({j, f}) = IF j <= f THEN f ELSE j
  BY <1>1, Extremes
<1>3. \A l : l \in Min({j, f}) .. Max({j, f})
               <=> l \in 1 .. Len(Stream)
                     /\ ((f <= l /\ l <= j) \/ (j <= l /\ l <= f))
  BY <1>1, <1>2
<1> QED
  BY <1>3, Zenon DEF LineAt


(* What is collected from a line that fits is the whole line.              *)
LEMMA CollectedWhole ==
  ASSUME TypeOK, NEW f \in 1 .. Len(Stream), NEW n \in 1 .. Len(Stream),
         Collects(Stream, f, n), Cardinality(LineAt(f)) <= PacketSize
  PROVE  LineAt(f) = f .. f + n - 1 /\ Cardinality(LineAt(f)) = n
<1> DEFINE s == Stream
           line == LineAt(f)
<1>1. /\ Len(s) \in Nat /\ f \in Nat /\ n \in Nat /\ f >= 1 /\ n >= 1
      /\ f + n <= Len(s)
      /\ PacketSize \in Nat /\ BufferSize \in Nat /\ PacketSize < BufferSize
  BY StreamKinds, ConstantsAssumption DEF Collects
<1>2. \A l \in f .. f + n - 1 : s[l] # "eol"
  BY DEF Collects
<1>3. \A j \in 1 .. Len(s) :
        j \in line <=> \A l \in 1 .. Len(s) :
          (f <= l /\ l <= j) \/ (j <= l /\ l <= f) => s[l] # "eol"
  BY LineMembers
<1>4. line \subseteq 1 .. Len(s)
  BY DEF LineAt
<1> HIDE DEF line, s
<1>5. IsFiniteSet(line) /\ Cardinality(line) \in Nat
  <2>1. IsFiniteSet(1 .. Len(s))
    BY <1>1, FS_Interval
  <2> QED
    BY <1>4, <2>1, FS_Subset, FS_CardinalityType
<1>6. ASSUME NEW k \in 1 .. Len(s), Overfull(s, k),
             \A l \in 1 .. Len(s) :
               (f <= l /\ l <= k) \/ (k <= l /\ l <= f) => s[l] # "eol"
      PROVE  FALSE
  <2> DEFINE B == k - BufferSize + 1 .. k
  <2>1. BufferSize <= k /\ \A l \in B : s[l] # "eol"
    BY <1>6 DEF Overfull
  <2>2. B \subseteq line
    <3> SUFFICES ASSUME NEW j \in B PROVE j \in line
      OBVIOUS
    <3>1. j \in 1 .. Len(s) /\ j <= k /\ k - BufferSize + 1 <= j
      BY <1>1, <1>6, <2>1
    <3>2. ASSUME NEW l \in 1 .. Len(s), (f <= l /\ l <= j) \/ (j <= l /\ l <= f)
          PROVE  s[l] # "eol"
      <4>1. CASE l \in B
        BY <2>1, <4>1
      <4>2. CASE l \notin B
        <5>1. (f <= l /\ l <= k) \/ (k <= l /\ l <= f)
          BY <1>1, <1>6, <3>1, <3>2, <4>2
        <5> QED
          BY <1>6, <5>1
      <4> QED
        BY <4>1, <4>2
    <3> QED
      BY <1>3, <3>1, <3>2
  <2>3. Cardinality(B) = BufferSize
    <3>1. k - BufferSize + 1 \in Int /\ k \in Int /\ ~ (k - BufferSize + 1 > k)
          /\ k - (k - BufferSize + 1) + 1 = BufferSize
      BY <1>1, <1>6
    <3> QED
      BY <3>1, FS_Interval
  <2>4. Cardinality(B) <= Cardinality(line)
    BY <1>5, <2>2, FS_Subset
  <2> HIDE DEF B
  <2>5. Cardinality(line) <= PacketSize
    BY DEF line
  <2> QED
    BY <1>1, <1>5, <2>3, <2>4, <2>5
<1>7. f = 1 \/ s[f - 1] = "eol"
  <2>1. CASE Overfull(s, f - 1)
    <3>1. f - 1 \in 1 .. Len(s) /\ f - 1 \in (f - 1) - BufferSize + 1 .. f - 1
      BY <1>1, <2>1 DEF Overfull
    <3>2. s[f - 1] # "eol" /\ s[f] # "eol"
      BY <1>1, <1>2, <2>1, <3>1 DEF Overfull
    <3>3. \A l \in 1 .. Len(s) :
            (f <= l /\ l <= f - 1) \/ (f - 1 <= l /\ l <= f) => s[l] # "eol"
      BY <1>1, <3>2
    <3> QED
      BY <1>6, <2>1, <3>1, <3>3
  <2> QED
    BY <2>1 DEF Collects, Begins, s
<1>8. s[f + n] = "eol"
  <2>1. CASE Overfull(s, f + n)
    <3>1. f + n \in 1 .. Len(s) /\ f + n \in (f + n) - BufferSize + 1 .. f + n
      BY <1>1, <2>1 DEF Overfull
    <3>2. s[f + n] # "eol"
      BY <2>1, <3>1 DEF Overfull
    <3>3. \A l \in 1 .. Len(s) :
            (f <= l /\ l <= f + n) \/ (f + n <= l /\ l <= f) => s[l] # "eol"
      BY <1>1, <1>2, <3>2
    <3> QED
      BY <1>6, <2>1, <3>1, <3>3
  <2> QED
    BY <2>1 DEF Collects, s
<1>9. line = f .. f + n - 1
  <2>1. ASSUME NEW j \in line PROVE j \in f .. f + n - 1
    <3>1. j \in 1 .. Len(s)
      BY <1>4
    <3>2. ~ (f + n <= j)
      BY <1>1, <1>3, <1>8, <3>1
    <3>3. ~ (j < f)
      <4> SUFFICES ASSUME j < f PROVE FALSE
        OBVIOUS
      <4>1. f - 1 \in 1 .. Len(s) /\ j <= f - 1 /\ f - 1 <= f /\ f # 1
        BY <1>1, <3>1
      <4> QED
        BY <1>3, <1>7, <3>1, <4>1
    <3> QED
      BY <1>1, <3>1, <3>2, <3>3
  <2>2. ASSUME NEW j \in f .. f + n - 1 PROVE j \in line
    <3>1. j \in 1 .. Len(s)
      BY <1>1
    <3>2. \A l \in 1 .. Len(s) :
            (f <= l /\ l <= j) \/ (j <= l /\ l <= f) => l \in f .. f + n - 1
      BY <1>1
    <3> QED
      BY <1>2, <1>3, <3>1, <3>2
  <2> QED
    BY <2>1, <2>2
<1>10. Cardinality(f .. f + n - 1) = n
  <2>1. f \in Int /\ f + n - 1 \in Int /\ ~ (f > f + n - 1)
        /\ (f + n - 1) - f + 1 = n
    BY <1>1
  <2> QED
    BY <2>1, FS_Interval
<1> QED
  BY <1>9, <1>10 DEF line

(* Packets that were made of lines as they were collected are what the     *)
(* peer sent.                                                              *)
LEMMA HandledShows ==
  ASSUME TypeOK, NEW last, NEW q,
         HandledUpTo(Stream, handled, last), Ordered(handled, q)
  PROVE  ReceivedInOrder /\ LinesWhole
<1> DEFINE s == Stream
<1>1. Len(s) \in Nat
  BY StreamKinds
<1>2. ASSUME NEW a \in 1 .. Len(handled)
      PROVE  \E f, n \in 1 .. Len(s), k \in Nat :
               /\ Collects(s, f, n) /\ Keeps(s, f, n, k)
               /\ handled[a].data = Peer(f, k) /\ k <= n /\ f \in Nat \ {0}
  <2>1. PICK f, n \in 1 .. Len(s), k \in 0 .. Len(s) :
          /\ Collects(s, f, n) /\ Keeps(s, f, n, k)
          /\ handled[a].data = Peer(f, k)
    BY DEF HandledUpTo
  <2>2. k \in Nat /\ k <= n /\ f \in Nat \ {0}
    BY <1>1, <2>1 DEF Keeps
  <2> QED
    BY <2>1, <2>2
<1>3. handled \in Seq([type : {"incoming", "outgoing"}, data : Seq(Byte)])
  BY DEF TypeOK
<1>4. ASSUME NEW h \in Range(handled)
      PROVE  \E a \in 1 .. Len(handled) : h = handled[a]
  BY <1>3 DEF Range
<1>5. ASSUME NEW h \in Range(handled), NEW a \in 1 .. Len(h.data)
      PROVE  /\ h.data[a][1] = "peer"
             /\ h.data[a][2] = h.data[1][2] + a - 1
             /\ h.data[a][2] \in LineAt(h.data[1][2])
  <2>1. PICK b \in 1 .. Len(handled) : h = handled[b]
    BY <1>4
  <2>2. PICK f, n \in 1 .. Len(s), k \in Nat :
          /\ Collects(s, f, n) /\ h.data = Peer(f, k) /\ k <= n /\ f \in Nat \ {0}
    BY <1>2, <2>1
  <2>3. a \in 1 .. k /\ 1 \in 1 .. k /\ k \in Nat
    <3>1. Len(Peer(f, k)) = k /\ a \in 1 .. Len(Peer(f, k))
      BY <2>2, PeerFacts
    <3> QED
      BY <2>2, <3>1
  <2>4. /\ h.data[a][1] = "peer" /\ h.data[a][2] = f + a - 1
        /\ h.data[1][2] = f
    <3>1. \A p \in 1 .. k : Peer(f, k)[p][1] = "peer" /\ Peer(f, k)[p][2] = f + p - 1
      BY <2>2, PeerFacts
    <3>2. Peer(f, k)[1][2] = f + 1 - 1 /\ f + 1 - 1 = f
      BY <2>2, <2>3, <3>1
    <3>3. Peer(f, k)[a][1] = "peer" /\ Peer(f, k)[a][2] = f + a - 1
      BY <2>3, <3>1
    <3> QED
      BY <2>2, <3>2, <3>3
  <2>5. f + a - 1 \in LineAt(f)
    <3>1. f + n <= Len(s) /\ \A l \in f .. f + n - 1 : s[l] # "eol"
      BY <2>2 DEF Collects
    <3>2. f + a - 1 \in 1 .. Len(s)
      BY <1>1, <2>2, <2>3, <3>1
    <3>3. \A l \in 1 .. Len(s) :
            (f <= l /\ l <= f + a - 1) \/ (f + a - 1 <= l /\ l <= f)
              => s[l] # "eol"
      BY <1>1, <2>2, <2>3, <3>1
    <3> QED
      BY <3>2, <3>3, LineMembers
  <2> QED
    BY <2>2, <2>3, <2>4, <2>5
<1>6. ASSUME NEW a \in 1 .. Len(handled), NEW b \in 1 .. Len(handled), a < b,
             handled[a].data # <<>>, handled[b].data # <<>>
      PROVE  Last(handled[a].data)[2] < handled[b].data[1][2]
  <2>1. Before(handled[a].data, handled[b].data)
    BY <1>6 DEF Ordered
  <2> QED
    BY <1>6, <2>1 DEF Before, Last
<1>7. ASSUME NEW h \in Range(handled), h.data # <<>>,
             Cardinality(LineAt(h.data[1][2])) <= PacketSize,
             "nul" \notin {Stream[j] : j \in LineAt(h.data[1][2])}
      PROVE  Len(h.data) = Cardinality(LineAt(h.data[1][2]))
  <2>1. PICK b \in 1 .. Len(handled) : h = handled[b]
    BY <1>4
  <2>2. PICK f, n \in 1 .. Len(s), k \in Nat :
          /\ Collects(s, f, n) /\ Keeps(s, f, n, k)
          /\ h.data = Peer(f, k) /\ k <= n /\ f \in Nat \ {0}
    BY <1>2, <2>1
  <2>3. Len(h.data) = k /\ k # 0
    BY <1>7, <2>2, PeerFacts
  <2>4. 1 \in 1 .. k
    BY <2>2, <2>3
  <2>5. h.data[1][2] = f
    <3>1. \A p \in 1 .. k : Peer(f, k)[p][2] = f + p - 1
      BY <2>2, PeerFacts
    <3>2. Peer(f, k)[1][2] = f + 1 - 1 /\ f + 1 - 1 = f
      BY <2>2, <2>4, <3>1
    <3> QED
      BY <2>2, <3>2
  <2>6. LineAt(f) = f .. f + n - 1 /\ Cardinality(LineAt(f)) = n
    BY <1>7, <2>2, <2>5, CollectedWhole
  <2>7. n <= PacketSize /\ \A l \in f .. f + n - 1 : s[l] # "nul"
    BY <1>7, <2>5, <2>6
  <2>8. k = n
    BY <2>2, <2>7 DEF Keeps
  <2> QED
    BY <2>3, <2>5, <2>6, <2>8
<1>8. ReceivedInOrder
  BY <1>5, <1>6 DEF ReceivedInOrder
<1>9. LinesWhole
  BY <1>7 DEF LinesWhole
<1> QED
  BY <1>8, <1>9


(* Router and peer take turns, or the router has nothing to send.          *)
Orderly == \A t \in Traffics : t.turns \/ t.lengths = <<>>

(* The line is the router's from the copy to the end of the transmission.  *)
Speaking == sending # "idle" \/ txIrq

(* The bytes of the peer that the handler has read,                        *)
Read == heard - Len(rxFifo)

(* of which so many are in the buffer,                                     *)
Collected == IF Speaking THEN 0 ELSE ctr

(* and these bytes are done with.                                          *)
Settled == Read - Collected

(* The router speaks in its turn only, and when it may, all lines heard    *)
(* are complete.                                                           *)
TurnsKept ==
  /\ traffic \in Traffics
  /\ sending # "idle" => ~ txIrq
  /\ Speaking => Turns /\ rxFifo = <<>> /\ LinesHeard < given
  /\ Turns /\ LinesHeard = given => heard = 0 \/ Stream[heard] = "eol"

(* What waits in the receiver and what is in the buffer are the last bytes *)
(* the peer has sent, the latter all of one line.                          *)
LastHeard ==
  /\ Len(rxFifo) <= heard
  /\ \A p \in 1 .. Len(rxFifo) : rxFifo[p] = <<"peer", Read + p, 0>>
  /\ Collected <= Read
  /\ Begins(Stream, Settled + 1)
  /\ \A p \in 1 .. Collected :
       buf[p - 1] = <<"peer", Settled + p, 0>> /\ Stream[Settled + p] # "eol"

(* Lines in the queue and packets made of them were sent before that.      *)
Earlier ==
  /\ QueueUpTo(Stream, uartq, Settled)
  /\ HandledUpTo(Stream, handled, Settled)
  /\ Ordered(handled, uartq)

Receiving == TurnsKept /\ LastHeard /\ Earlier

(* The ranges of what these are made of. *)
LEMMA Counts ==
  ASSUME TypeOK
  PROVE  /\ heard \in Nat /\ heard <= Len(Stream) /\ given \in Nat
         /\ ctr \in Nat /\ ctr <= BufferSize - 1 /\ BufferSize \in Nat
         /\ BufferSize >= 2
         /\ Len(rxFifo) \in Nat /\ Read \in Int /\ Collected \in Nat
         /\ Settled \in Int /\ Len(Stream) \in Nat
         /\ rxFifo \in Seq(Byte) /\ uartq \in Seq(Seq(Byte))
         /\ buf \in [0 .. BufferSize - 1 -> Byte]
<1>1. Len(Stream) \in Nat /\ BufferSize \in Nat /\ BufferSize >= 2
  BY StreamKinds, ConstantsAssumption
<1>2. Len(MessageLengths) \in Nat
  <2>1. MessageLengths \in Seq(0 .. PacketSize)
    BY DEF TypeOK, Traffic, MessageLengths
  <2> QED
    BY <2>1
<1>3. /\ heard \in Nat /\ heard <= Len(Stream) /\ given \in Nat
      /\ ctr \in Nat /\ ctr <= BufferSize - 1
      /\ rxFifo \in Seq(Byte) /\ Len(rxFifo) \in Nat /\ uartq \in Seq(Seq(Byte))
      /\ buf \in [0 .. BufferSize - 1 -> Byte]
  BY <1>1, <1>2 DEF TypeOK
<1>4. Read \in Int /\ Collected \in Nat
  BY <1>3 DEF Read, Collected
<1> QED
  BY <1>1, <1>3, <1>4 DEF Settled

(* A line begins behind the end of another. *)
LEMMA BeginsAfter ==
  ASSUME NEW s, NEW k \in Nat, k = 0 \/ s[k] = "eol" \/ Overfull(s, k)
  PROVE  Begins(s, k + 1)
<1>1. k + 1 - 1 = k
  OBVIOUS
<1> QED
  BY <1>1 DEF Begins

LEMMA ReceivingInit == Init => Receiving
<1> SUFFICES ASSUME Init PROVE Receiving
  OBVIOUS
<1>1. TypeOK
  BY TypeInit
<1>2. ~ Speaking /\ Read = 0 /\ Collected = 0 /\ Settled = 0
  <2>1. ~ Speaking
    BY DEF Init, Speaking
  <2>2. heard = 0 /\ Len(rxFifo) = 0 /\ ctr = 0
    BY DEF Init
  <2> QED
    BY <2>1, <2>2 DEF Read, Collected, Settled
<1>3. TurnsKept
  BY <1>2 DEF Init, TurnsKept
<1>4. LastHeard
  BY <1>2 DEF Init, LastHeard, Begins
<1>5. Earlier
  BY <1>2 DEF Init, Earlier, QueueUpTo, HandledUpTo, Ordered
<1> QED
  BY <1>3, <1>4, <1>5 DEF Receiving

(* The peer's next byte is behind all others. *)
LEMMA PeerByteReceiving ==
  ASSUME TypeOK, Receiving, PeerByte, UNCHANGED traffic
  PROVE  Receiving'
<1>0. /\ Stream' = Stream /\ Turns' = Turns /\ Speaking' = Speaking
      /\ buf' = buf /\ ctr' = ctr /\ given' = given /\ heard' = heard + 1
      /\ uartq' = uartq /\ handled' = handled
      /\ Collected' = Collected
  BY DEF PeerByte, Stream, Turns, Speaking, bufferVars, threadVars, sendVars,
         Collected
<1>1. ~ Speaking
  BY DEF PeerByte, PeerMaySpeak, Receiving, TurnsKept, Speaking
<1>2. /\ Len(rxFifo') = Len(rxFifo) + 1
      /\ rxFifo'[Len(rxFifo) + 1] = <<"peer", heard + 1, 0>>
      /\ \A p \in 1 .. Len(rxFifo) : rxFifo'[p] = rxFifo[p]
  BY Counts DEF PeerByte
<1>3. Read' = Read /\ Settled' = Settled
  <2>1. Read' = Read
    BY <1>0, <1>2, Counts DEF Read
  <2> QED
    BY <1>0, <2>1 DEF Settled
<1>4. TurnsKept'
  <2>1. ASSUME Turns, LinesHeard' = given, Stream[heard + 1] # "eol"
        PROVE  FALSE
    <3>1. {k \in 1 .. heard + 1 : Stream[k] = "eol"}
            = {k \in 1 .. heard : Stream[k] = "eol"}
      BY <2>1, Counts
    <3>2. LinesHeard' = LinesHeard
      BY <1>0, <3>1 DEF LinesHeard
    <3>3. LinesHeard < given
      BY <2>1 DEF PeerByte, PeerMaySpeak
    <3> QED
      BY <2>1, <3>2, <3>3, Counts
  <2>2. traffic' \in Traffics /\ (sending' # "idle" => ~ txIrq')
    BY DEF Receiving, TurnsKept, PeerByte, sendVars
  <2> QED
    BY <1>0, <1>1, <2>1, <2>2 DEF TurnsKept
<1>5. LastHeard'
  <2>1. \A p \in 1 .. Len(rxFifo') : rxFifo'[p] = <<"peer", Read + p, 0>>
    <3> SUFFICES ASSUME NEW p \in 1 .. Len(rxFifo')
                 PROVE  rxFifo'[p] = <<"peer", Read + p, 0>>
      OBVIOUS
    <3>1. CASE p \in 1 .. Len(rxFifo)
      BY <1>2, <3>1 DEF Receiving, LastHeard
    <3>2. CASE p = Len(rxFifo) + 1
      <4>1. Read + p = heard + 1
        BY <3>2, Counts DEF Read
      <4> QED
        BY <1>2, <3>2, <4>1
    <3> QED
      BY <1>2, <3>1, <3>2, Counts
  <2>2. Len(rxFifo') <= heard'
    BY <1>0, <1>2, Counts DEF Receiving, LastHeard
  <2> QED
    BY <1>0, <1>3, <2>1, <2>2, Zenon DEF Receiving, LastHeard
<1>6. Earlier'
  BY <1>0, <1>3 DEF Receiving, Earlier
<1> QED
  BY <1>4, <1>5, <1>6 DEF Receiving


(* Steps that touch neither the receiver nor what was received.            *)
LEMMA ElsewhereReceiving ==
  ASSUME Receiving,
         UNCHANGED <<traffic, heard, rxFifo, buf, ctr, uartq, handled, given>>,
         Speaking' = Speaking, sending' # "idle" => ~ txIrq'
  PROVE  Receiving'
<1>1. /\ Stream' = Stream /\ Turns' = Turns /\ LinesHeard' = LinesHeard
      /\ Read' = Read /\ Collected' = Collected
  BY DEF Stream, Turns, LinesHeard, Read, Collected
<1>2. Settled' = Settled
  BY <1>1 DEF Settled
<1>3. TurnsKept'
  BY <1>1 DEF Receiving, TurnsKept
<1>4. LastHeard'
  BY <1>1, <1>2, Zenon DEF Receiving, LastHeard
<1>5. Earlier'
  BY <1>1, <1>2 DEF Receiving, Earlier
<1> QED
  BY <1>3, <1>4, <1>5 DEF Receiving

LEMMA HandleReceiving ==
  ASSUME TypeOK, Receiving, HandleUartMessages, UNCHANGED traffic
  PROVE  Receiving'
<1>0. /\ Stream' = Stream /\ Turns' = Turns /\ LinesHeard' = LinesHeard
      /\ Read' = Read /\ Collected' = Collected /\ Speaking' = Speaking
      /\ uartq' = Tail(uartq) /\ uartq # <<>>
      /\ handled' = Append(handled, PacketOf(Head(uartq)))
      /\ UNCHANGED <<traffic, heard, rxFifo, buf, given, sending, txIrq>>
  BY DEF HandleUartMessages, Stream, Turns, LinesHeard, Read, Collected, Speaking,
         bufferVars, sendVars
<1>1. Settled' = Settled
  BY <1>0 DEF Settled
<1>2. TurnsKept'
  BY <1>0 DEF Receiving, TurnsKept
<1>3. LastHeard'
  BY <1>0, <1>1, Zenon DEF Receiving, LastHeard
<1>4. Earlier'
  <2>1. uartq \in Seq(Seq(Byte)) /\ handled \in Seq(Packet)
    BY DEF TypeOK, Packet
  <2>2. PacketOf(Head(uartq)) \in Packet
    BY <1>0, <2>1, PacketBytes, ConstantsAssumption
  <2>3. ASSUME NEW f \in 1 .. Len(Stream), NEW n \in 1 .. Len(Stream),
               Head(uartq) = Peer(f, n)
        PROVE  \E k \in 0 .. n : /\ Keeps(Stream, f, n, k)
                                 /\ PacketOf(Head(uartq)).data = Peer(f, k)
    <3>1. f \in Nat \ {0} /\ n \in Nat
      BY StreamKinds
    <3> QED
      BY <2>3, <3>1, PacketOfPeer, ConstantsAssumption
  <2>4. Len(Stream) \in Nat /\ Settled \in Int
    BY Counts
  <2>5. /\ QueueUpTo(Stream, uartq, Settled) /\ HandledUpTo(Stream, handled, Settled)
        /\ Ordered(handled, uartq)
    BY DEF Receiving, Earlier
  <2> DEFINE packet == PacketOf(Head(uartq))
  <2> HIDE DEF packet
  <2>6. /\ QueueUpTo(Stream, Tail(uartq), Settled)
        /\ HandledUpTo(Stream, Append(handled, packet), Settled)
        /\ Ordered(Append(handled, packet), Tail(uartq))
    <3>1. packet \in Packet
      BY <2>2 DEF packet
    <3>2. \A f, n \in 1 .. Len(Stream) :
            Collects(Stream, f, n) /\ Head(uartq) = Peer(f, n)
              => \E k \in 0 .. n : Keeps(Stream, f, n, k) /\ packet.data = Peer(f, k)
      BY <2>3 DEF packet
    <3> HIDE DEF Packet
    <3> QED
      BY <1>0, <2>1, <2>4, <2>5, <3>1, <3>2, HandleLine
  <2> QED
    BY <1>0, <1>1, <2>6 DEF Earlier, packet
<1> QED
  BY <1>2, <1>3, <1>4 DEF Receiving

(* The router begins to send in its turn, and when it has sent before.     *)
LEMMA SendCopyInTurn ==
  ASSUME TypeOK, TurnsKept, Orderly, SendCopy
  PROVE  Turns /\ LinesHeard = given /\ rxFifo = <<>> /\ ~ Speaking
<1>1. MessageLengths # <<>>
  BY Counts DEF SendCopy
<1>2. Turns
  BY <1>1 DEF TurnsKept, Orderly, Turns, MessageLengths
<1>3. LinesHeard = given /\ rxFifo = <<>>
  BY <1>2 DEF SendCopy, RouterMaySpeak
<1> QED
  BY <1>2, <1>3, Counts DEF TurnsKept

(* The router takes its turn when the last line is complete: the buffer    *)
(* that it overwrites holds nothing the next line would need.              *)
LEMMA SendCopyReceiving ==
  ASSUME TypeOK, Receiving, Orderly, SendCopy, UNCHANGED traffic
  PROVE  Receiving'
<1>0. /\ Stream' = Stream /\ Turns' = Turns /\ LinesHeard' = LinesHeard
      /\ UNCHANGED <<traffic, heard, rxFifo, txIrq, uartq, handled>>
      /\ given' = given + 1 /\ Read' = Read /\ sending' = "copied"
  BY DEF SendCopy, Stream, Turns, LinesHeard, Read, threadVars
<1>1. Turns /\ LinesHeard = given /\ rxFifo = <<>>
  BY SendCopyInTurn DEF Receiving
<1>2. ~ Speaking
  BY SendCopyInTurn DEF Receiving
<1>3. Speaking' /\ ~ txIrq'
  BY <1>0, <1>2 DEF Speaking
<1>4. heard = 0 \/ Stream[heard] = "eol"
  BY <1>1 DEF Receiving, TurnsKept
<1>5. Read = heard /\ Collected' = 0 /\ Settled' = heard /\ Settled <= heard
  <2>1. Len(rxFifo) = 0
    BY <1>1
  <2>2. Read = heard
    BY <2>1, Counts DEF Read
  <2>3. Collected' = 0
    BY <1>3 DEF Collected
  <2>4. Settled' = heard
    BY <1>0, <2>2, <2>3, Counts DEF Settled
  <2>5. Settled <= heard
    BY <2>2, Counts DEF Settled
  <2> QED
    BY <2>2, <2>3, <2>4, <2>5
<1>6. TurnsKept'
  <2>1. LinesHeard < given + 1 /\ given + 1 # LinesHeard
    BY <1>1, Counts
  <2> QED
    BY <1>0, <1>1, <1>3, <2>1 DEF Receiving, TurnsKept
<1>7. LastHeard'
  <2>1. Begins(Stream, heard + 1)
    BY <1>4, Counts, BeginsAfter
  <2>2. Len(rxFifo') = 0 /\ 0 <= heard
    BY <1>0, <1>1, Counts
  <2>3. Collected' <= Read'
    BY <1>0, <1>5, Counts
  <2> QED
    BY <1>0, <1>5, <2>1, <2>2, <2>3 DEF LastHeard
<1>8. Earlier'
  <2>1. /\ QueueUpTo(Stream, uartq, Settled) /\ HandledUpTo(Stream, handled, Settled)
        /\ Ordered(handled, uartq)
    BY DEF Receiving, Earlier
  <2>2. QueueUpTo(Stream, uartq, heard) /\ HandledUpTo(Stream, handled, heard)
    BY <1>5, <2>1, Counts, UpToLater
  <2> QED
    BY <1>0, <1>5, <2>1, <2>2 DEF Earlier
<1> QED
  BY <1>6, <1>7, <1>8 DEF Receiving

(* While the router speaks nothing is received, and its counter is used up *)
(* when the transmission ends.                                             *)
LEMMA TransmitReceiving ==
  ASSUME TypeOK, Receiving, Speaking, Interrupt, UNCHANGED traffic
  PROVE  Receiving' /\ (Speaking' \/ ctr' = 0)
<1>0. /\ Stream' = Stream /\ Turns' = Turns /\ LinesHeard' = LinesHeard
      /\ UNCHANGED <<traffic, heard, given, sending, handled>>
  BY DEF Interrupt, Stream, Turns, LinesHeard, threadVars, sendVars
<1>1. /\ Turns /\ rxFifo = <<>> /\ LinesHeard < given /\ (sending # "idle" => ~ txIrq)
      /\ traffic \in Traffics
  BY DEF Receiving, TurnsKept
<1>2. ~ RxReady /\ TxReady
  BY <1>1 DEF Interrupt, Pending, RxReady
<1>3. txIrq /\ sending = "idle"
  BY <1>1, <1>2 DEF TxReady
<1>4. UNCHANGED <<rxFifo, uartq>>
  BY <1>2, Zenon DEF Interrupt, Receive, RxEnds
<1>5. txIrq' = txIrq \/ ctr' = 0
  <2> DEFINE room == TxFifoSize - Len(txFifo)
             n == IF CtrAfterRx < room THEN CtrAfterRx ELSE room
  <2>1. CtrAfterRx = ctr
    BY <1>2 DEF CtrAfterRx, RxStores, RxEnds
  <2>2. /\ txFifo' = txFifo \o Bytes(ptr, n) /\ ctr' = CtrAfterRx - n
        /\ txFifo' = <<>> \/ UNCHANGED <<txIrq, rxIrq>>
    BY <1>2, Zenon DEF Interrupt, Transmit
  <2>3. txFifo \in Seq(Byte) /\ Len(txFifo) \in Nat /\ room \in Nat \ {0}
    BY <1>2, ConstantsAssumption DEF TypeOK, TxReady
  <2>4. n \in Nat /\ (n = ctr \/ n = room)
    BY <2>1, <2>3, Counts
  <2> HIDE DEF n
  <2>5. Bytes(ptr, n) \in Seq(Byte) /\ Len(Bytes(ptr, n)) = n
    BY <2>4, BytesOfBuffer
  <2>6. ASSUME txFifo' = <<>> PROVE ctr' = 0
    <3>1. Len(txFifo') = Len(txFifo) + n
      <4> DEFINE more == Bytes(ptr, n)
      <4>1. txFifo' = txFifo \o more /\ more \in Seq(Byte) /\ Len(more) = n
        BY <2>2, <2>5
      <4> HIDE DEF more
      <4>2. Len(txFifo \o more) = Len(txFifo) + Len(more)
        BY <2>3, <4>1, ConcatProperties
      <4> QED
        BY <4>1, <4>2
    <3>2. n = 0
      BY <2>3, <2>4, <2>6, <3>1
    <3> QED
      BY <2>1, <2>2, <2>3, <2>4, <3>2, Counts
  <2> QED
    BY <2>2, <2>6
<1>6. Read' = Read /\ Collected = 0 /\ Collected' = 0
  <2>1. Read' = Read
    BY <1>0, <1>4 DEF Read
  <2>2. Collected' = 0
    BY <1>3, <1>5 DEF Collected, Speaking
  <2> QED
    BY <2>1, <2>2 DEF Collected
<1>7. Settled' = Settled
  BY <1>6 DEF Settled
<1>8. TurnsKept'
  <2>1. LinesHeard # given
    BY <1>1, Counts
  <2> QED
    BY <1>0, <1>1, <1>3, <1>4, <2>1 DEF TurnsKept
<1>9. LastHeard'
  <2>1. \A p : p \notin 1 .. 0
    OBVIOUS
  <2> QED
    BY <1>0, <1>4, <1>6, <1>7, <2>1, Zenon DEF Receiving, LastHeard
<1>10. Earlier'
  BY <1>0, <1>4, <1>7 DEF Receiving, Earlier
<1> QED
  BY <1>3, <1>5, <1>8, <1>9, <1>10 DEF Receiving, Speaking


(* While the router listens the transmit part does nothing: one byte is    *)
(* read.                                                                   *)
LEMMA Listens ==
  ASSUME TypeOK, Receiving, ~ Speaking, Interrupt, UNCHANGED traffic
  PROVE  /\ Stream' = Stream /\ Turns' = Turns /\ LinesHeard' = LinesHeard
         /\ UNCHANGED <<traffic, heard, given, sending, handled, txIrq>>
         /\ ~ Speaking' /\ RxReady /\ ctr' = CtrAfterRx
         /\ Len(rxFifo') = Len(rxFifo) - 1 /\ Len(rxFifo) >= 1
         /\ \A p \in 1 .. Len(rxFifo') : rxFifo'[p] = rxFifo[p + 1]
         /\ Head(rxFifo) = <<"peer", Read + 1, 0>>
         /\ KindOf(Head(rxFifo)) = Stream[Read + 1]
         /\ Read \in Nat /\ Read + 1 <= Len(Stream) /\ Read' = Read + 1
         /\ Collected = ctr /\ Collected' = ctr'
<1>1. /\ Stream' = Stream /\ Turns' = Turns /\ LinesHeard' = LinesHeard
      /\ UNCHANGED <<traffic, heard, given, sending, handled>>
  BY DEF Interrupt, Stream, Turns, LinesHeard, threadVars, sendVars
<1>2. ~ txIrq /\ sending = "idle" /\ ~ TxReady /\ RxReady
  BY DEF Interrupt, Pending, Speaking, TxReady
<1>3. ctr' = CtrAfterRx /\ txIrq' = txIrq
  BY <1>2, Zenon DEF Interrupt, Transmit
<1>4. ~ Speaking'
  BY <1>1, <1>2, <1>3 DEF Speaking
<1>5. rxFifo' = Tail(rxFifo) /\ rxFifo # <<>> /\ rxFifo \in Seq(Byte)
  BY <1>2, Counts DEF Interrupt, Receive, RxReady
<1>6. /\ Len(rxFifo') = Len(rxFifo) - 1 /\ Len(rxFifo) >= 1
      /\ Head(rxFifo) = rxFifo[1]
      /\ \A p \in 1 .. Len(rxFifo') : rxFifo'[p] = rxFifo[p + 1]
  BY <1>5
<1>7. Head(rxFifo) = <<"peer", Read + 1, 0>>
  BY <1>6, Counts DEF Receiving, LastHeard
<1>8. KindOf(Head(rxFifo)) = Stream[Read + 1]
  BY <1>7 DEF KindOf
<1>9. Read \in Nat /\ Read + 1 <= Len(Stream)
  <2>1. Len(rxFifo) <= heard
    BY DEF Receiving, LastHeard
  <2> QED
    BY <1>6, <2>1, Counts DEF Read
<1>10. Read' = Read + 1
  BY <1>1, <1>6, Counts DEF Read
<1>11. Collected = ctr /\ Collected' = ctr'
  BY <1>4 DEF Collected
<1> QED
  BY <1>1, <1>2, <1>3, <1>4, <1>6, <1>7, <1>8, <1>9, <1>10, <1>11

(* What is common to the ends of the receive part.                         *)
LEMMA ListensOn ==
  ASSUME TypeOK, Receiving, ~ Speaking, Interrupt, UNCHANGED traffic
  PROVE  /\ TurnsKept'
         /\ Len(rxFifo') <= heard'
         /\ \A p \in 1 .. Len(rxFifo') : rxFifo'[p] = <<"peer", Read' + p, 0>>
<1>1. TurnsKept'
  BY Listens DEF Receiving, TurnsKept, Speaking
<1>2. Len(rxFifo') <= heard'
  <2>1. Len(rxFifo) <= heard
    BY DEF Receiving, LastHeard
  <2>2. Len(rxFifo') = Len(rxFifo) - 1 /\ heard' = heard
    BY Listens
  <2> QED
    BY <2>1, <2>2, Counts
<1>3. ASSUME NEW p \in 1 .. Len(rxFifo')
      PROVE  rxFifo'[p] = <<"peer", Read' + p, 0>>
  <2>1. p + 1 \in 1 .. Len(rxFifo) /\ rxFifo'[p] = rxFifo[p + 1]
    BY Listens, Counts
  <2>2. rxFifo[p + 1] = <<"peer", Read + (p + 1), 0>>
    BY <2>1 DEF Receiving, LastHeard
  <2>3. Read' + p = Read + (p + 1)
    BY Listens
  <2> QED
    BY <2>1, <2>2, <2>3
<1> QED
  BY <1>1, <1>2, <1>3

LEMMA StoreReceiving ==
  ASSUME TypeOK, Receiving, ~ Speaking, Interrupt, RxStores, UNCHANGED traffic
  PROVE  Receiving'
<1>1. /\ ctr' = ctr + 1 /\ uartq' = uartq
      /\ buf' = [buf EXCEPT ![ctr] = Head(rxFifo)]
  <2>1. ctr' = CtrAfterRx
    BY Listens
  <2>2. uartq' = uartq /\ buf' = BufAfterRx
    BY Zenon DEF Interrupt, Receive, RxStores
  <2> QED
    BY <2>1, <2>2 DEF CtrAfterRx, BufAfterRx
<1>2. Settled' = Settled /\ Settled \in Int /\ Settled + ctr = Read
  <2>1. Read' = Read + 1 /\ Collected' = ctr + 1 /\ Collected = ctr
    BY <1>1, Listens
  <2>2. Read \in Int /\ ctr \in Int
    BY Counts
  <2> QED
    BY <2>1, <2>2 DEF Settled
<1>3. \A p \in 1 .. ctr + 1 :
        buf'[p - 1] = <<"peer", Settled + p, 0>> /\ Stream[Settled + p] # "eol"
  <2> SUFFICES ASSUME NEW p \in 1 .. ctr + 1
               PROVE  /\ buf'[p - 1] = <<"peer", Settled + p, 0>>
                      /\ Stream[Settled + p] # "eol"
    OBVIOUS
  <2>1. CASE p \in 1 .. ctr
    <3>1. buf'[p - 1] = buf[p - 1]
      BY <1>1, <2>1, Counts
    <3>2. Collected = ctr
      BY Listens
    <3> QED
      BY <2>1, <3>1, <3>2 DEF Receiving, LastHeard
  <2>2. CASE p = ctr + 1
    <3>1. buf'[p - 1] = Head(rxFifo)
      BY <1>1, <2>2, Counts
    <3>2. Settled + p = Read + 1
      BY <1>2, <2>2, Counts
    <3>3. Stream[Read + 1] # "eol"
      BY Listens DEF RxStores, RxEnds
    <3> QED
      BY <3>1, <3>2, <3>3, Listens
  <2> QED
    BY <2>1, <2>2, Counts
<1>4. LastHeard'
  <2>1. Collected' = ctr + 1 /\ Collected' <= Read' /\ Stream' = Stream
    <3>1. ctr <= Read
      BY Listens DEF Receiving, LastHeard
    <3> QED
      BY <1>1, <3>1, Listens, Counts
  <2>2. Begins(Stream, Settled + 1)
    BY DEF Receiving, LastHeard
  <2> QED
    BY <1>2, <1>3, <2>1, <2>2, ListensOn, Zenon DEF LastHeard
<1>5. Earlier'
  BY <1>1, <1>2, Listens DEF Receiving, Earlier
<1> QED
  BY <1>4, <1>5, ListensOn DEF Receiving

(* A line end, or a byte that finds the buffer full: what was collected    *)
(* goes into the queue behind what was collected before.                   *)
LEMMA EndReceiving ==
  ASSUME TypeOK, Receiving, ~ Speaking, Interrupt, RxEnds, UNCHANGED traffic
  PROVE  Receiving'
<1> DEFINE f == Settled + 1
<1>1. /\ ctr' = 0 /\ Collected' = 0 /\ Settled' = Read + 1
      /\ uartq' = IF ctr > 0 THEN QueueAfterLine ELSE uartq
  <2>1. ctr' = 0
    BY Listens DEF CtrAfterRx, RxStores
  <2>2. uartq' = IF ctr > 0 THEN QueueAfterLine ELSE uartq
    BY Zenon DEF Interrupt, Receive
  <2> QED
    BY <2>1, <2>2, Listens DEF Settled
<1>2. /\ Settled \in Int /\ f \in Nat \ {0} /\ f + ctr = Read + 1 /\ ctr <= Read
      /\ f - 1 = Settled
  <2>1. Read \in Int /\ ctr \in Int /\ Collected = ctr
    BY Listens, Counts
  <2>2. ctr <= Read
    BY <2>1 DEF Receiving, LastHeard
  <2> QED
    BY <2>1, <2>2 DEF Settled
<1>3. /\ Begins(Stream, f)
      /\ \A p \in 1 .. ctr :
           buf[p - 1] = <<"peer", Settled + p, 0>> /\ Stream[Settled + p] # "eol"
  BY Listens DEF Receiving, LastHeard
<1>4. \A l \in f .. f + ctr - 1 : Stream[l] # "eol"
  <2> SUFFICES ASSUME NEW l \in f .. f + ctr - 1 PROVE Stream[l] # "eol"
    OBVIOUS
  <2>1. l - Settled \in 1 .. ctr /\ Settled + (l - Settled) = l
    BY <1>2, Counts
  <2> QED
    BY <1>3, <2>1
<1>5. Stream[Read + 1] = "eol" \/ Overfull(Stream, Read + 1)
  <2> SUFFICES ASSUME Stream[Read + 1] # "eol" PROVE Overfull(Stream, Read + 1)
    OBVIOUS
  <2>1. ctr = BufferSize - 1
    BY Listens DEF RxEnds, Full
  <2>2. ASSUME NEW l \in (Read + 1) - BufferSize + 1 .. Read + 1
        PROVE  Stream[l] # "eol"
    <3>1. BufferSize \in Int /\ Read \in Int /\ ctr \in Int
      BY Counts
    <3>2. f + ctr = Read + 1 /\ f \in Int
      BY <1>2
    <3> HIDE DEF f
    <3>3. l \in f .. f + ctr - 1 \/ l = Read + 1
      BY <2>1, <3>1, <3>2
    <3> QED
      BY <1>4, <3>3
  <2>3. BufferSize <= Read + 1 /\ Read + 1 <= Len(Stream)
    BY <1>2, <2>1, Listens, Counts
  <2> QED
    BY <2>2, <2>3 DEF Overfull
<1>6. LastHeard'
  <2>1. Begins(Stream, Read + 1 + 1)
    <3>1. Read + 1 \in Nat
      BY Listens
    <3> QED
      BY <1>5, <3>1, BeginsAfter
  <2>2. \A p : p \notin 1 .. 0
    OBVIOUS
  <2>3. Collected' <= Read' /\ Stream' = Stream
    BY <1>1, Listens
  <2> QED
    BY <1>1, <2>1, <2>2, <2>3, ListensOn, Zenon DEF LastHeard
<1>7. /\ QueueUpTo(Stream, uartq, Settled) /\ HandledUpTo(Stream, handled, Settled)
      /\ Ordered(handled, uartq)
  BY DEF Receiving, Earlier
<1>8. Earlier'
  <2>1. /\ QueueUpTo(Stream, uartq, Read + 1) /\ HandledUpTo(Stream, handled, Read + 1)
        /\ Read \in Int /\ Settled <= Read + 1
    <3>1. Settled <= Read + 1 /\ Read + 1 \in Int
      BY <1>2, Listens, Counts
    <3> QED
      BY <1>2, <1>7, <3>1, Counts, UpToLater
  <2>2. CASE ctr = 0
    BY <1>1, <1>7, <2>1, <2>2, Listens DEF Earlier
  <2>3. CASE ctr > 0 /\ Len(uartq) >= QueueSize
    <3>1. uartq' = <<>>
      BY <1>1, <2>3, Counts, ConstantsAssumption DEF QueueAfterLine
    <3>2. QueueUpTo(Stream, <<>>, Read + 1) /\ Ordered(handled, <<>>)
      BY <1>7, QueueEmpty
    <3> QED
      BY <1>1, <2>1, <3>1, <3>2, Listens DEF Earlier
  <2>4. CASE ctr > 0 /\ Len(uartq) < QueueSize
    <3>1. Line = Peer(f, ctr)
      <4>1. \A p \in 1 .. ctr : buf[p - 1] = <<"peer", f + p - 1, 0>>
        <5>1. \A p \in 1 .. ctr : f + p - 1 = Settled + p
          BY <1>2
        <5> QED
          BY <1>3, <5>1
      <4> QED
        BY <4>1 DEF Line, Peer
    <3>2. uartq' = Append(uartq, Peer(f, ctr))
      BY <1>1, <2>4, <3>1 DEF QueueAfterLine
    <3>3. f \in 1 .. Len(Stream) /\ ctr \in 1 .. Len(Stream) /\ f + ctr <= Len(Stream)
      BY <1>2, <2>4, Listens, Counts
    <3>4. Collects(Stream, f, ctr)
      <4>1. Stream[f + ctr] = "eol" \/ Overfull(Stream, f + ctr)
        BY <1>2, <1>5
      <4> QED
        BY <1>3, <1>4, <3>3, <4>1 DEF Collects
    <3> DEFINE S == Seq(Byte) \cup {Peer(f, ctr)}
    <3>5. Len(Stream) \in Nat /\ uartq \in Seq(S) /\ Peer(f, ctr) \in S
      BY Counts
    <3>6. /\ QueueUpTo(Stream, uartq, f - 1) /\ HandledUpTo(Stream, handled, f - 1)
          /\ Ordered(handled, uartq)
      BY <1>2, <1>7
    <3> HIDE DEF f, S
    <3>7. /\ QueueUpTo(Stream, uartq', f + ctr - 1)
          /\ HandledUpTo(Stream, handled, f + ctr - 1)
          /\ Ordered(handled, uartq')
      BY <3>2, <3>3, <3>4, <3>5, <3>6, QueueLine
    <3>8. f + ctr - 1 \in Int /\ Read + 1 \in Int /\ f + ctr - 1 <= Read + 1
      BY <1>2, Counts, Listens
    <3>9. QueueUpTo(Stream, uartq', Read + 1)
      BY <3>5, <3>7, <3>8, UpToLater
    <3> QED
      BY <1>1, <2>1, <3>7, <3>9, Listens DEF Earlier
  <2> QED
    BY <2>2, <2>3, <2>4, Counts, ConstantsAssumption
<1> QED
  BY <1>6, <1>8, ListensOn DEF Receiving

LEMMA ReceivingNext ==
  ASSUME TypeOK, Receiving, Orderly, [Next]_vars
  PROVE  Receiving'
<1> USE DEF bufferVars, threadVars, sendVars
<1>1. CASE UNCHANGED vars
  BY <1>1, ElsewhereReceiving DEF vars, Speaking, Receiving, TurnsKept
<1>2. CASE Next
  <2>1. UNCHANGED traffic /\ Step
    BY <1>2 DEF Next
  <2>2. CASE PeerByte
    BY <2>1, <2>2, PeerByteReceiving
  <2>3. CASE ShiftOut
    BY <2>1, <2>3, ElsewhereReceiving DEF ShiftOut, Speaking, Receiving, TurnsKept
  <2>4. CASE Interrupt
    <3>1. ASSUME ~ Speaking PROVE RxStores \/ RxEnds
      BY <2>1, <2>4, <3>1, Listens DEF RxStores
    <3> QED
      BY <2>1, <2>4, <3>1, TransmitReceiving, StoreReceiving, EndReceiving
  <2>5. CASE HandleUartMessages
    BY <2>1, <2>5, HandleReceiving
  <2>6. CASE SendCopy
    BY <2>1, <2>6, SendCopyReceiving
  <2>7. CASE SendDisableRx
    BY <2>1, <2>7, ElsewhereReceiving
    DEF SendDisableRx, Speaking, Receiving, TurnsKept
  <2>8. CASE SendEnableTx
    BY <2>1, <2>8, ElsewhereReceiving DEF SendEnableTx, Speaking
  <2> QED
    BY <2>1, <2>2, <2>3, <2>4, <2>5, <2>6, <2>7, <2>8 DEF Step, Send
<1> QED
  BY <1>1, <1>2

LEMMA ReceivingHolds ==
  ASSUME Orderly
  PROVE  Spec => [](TypeOK /\ Receiving)
<1>1. Init => Receiving
  BY ReceivingInit
<1>2. Receiving /\ TypeOK /\ [Next]_vars => Receiving'
  BY ReceivingNext
<1> QED
  BY <1>1, <1>2, TypesHold, PTL DEF Spec

(* Packets are made of consecutive bytes of one line and in the order in   *)
(* which the peer sent them, whatever it sends, however often the queue is *)
(* purged and wherever lines are cut.                                      *)
THEOREM ReceptionOrdered ==
  ASSUME Orderly
  PROVE  Spec => []ReceivedInOrder
<1>1. TypeOK /\ Receiving => ReceivedInOrder
  BY HandledShows DEF Receiving, Earlier
<1> QED
  BY <1>1, ReceivingHolds, PTL

(* A packet made of a line that fits and has no zero byte is the whole     *)
(* line.                                                                   *)
THEOREM ReceptionWhole ==
  ASSUME Orderly
  PROVE  Spec => []LinesWhole
<1>1. TypeOK /\ Receiving => LinesWhole
  BY HandledShows DEF Receiving, Earlier
<1> QED
  BY <1>1, ReceivingHolds, PTL


-----------------------------------------------------------------------------
(* What is sent, when nothing is received meanwhile. *)

(* f accumulates the first n of seqs, as FlattenSeq does it.               *)
Flattens(f, seqs, n) ==
  f = [i \in 1 .. n |-> IF i = 1 THEN seqs[i] ELSE f[i - 1] \o seqs[i]]

LEMMA FlattensExists ==
  ASSUME NEW seqs, NEW n \in Nat \ {0}
  PROVE  \E f : Flattens(f, seqs, n)
<1> DEFINE E == {m \in Nat \ {0} : ~ \E f : Flattens(f, seqs, m)}
<1> SUFFICES ASSUME E # {} PROVE FALSE
  OBVIOUS
<1>1. PICK m \in E : \A j \in E : m <= j
  <2>1. E \subseteq Nat
    OBVIOUS
  <2> HIDE DEF E
  <2> QED
    BY <2>1, LeastExists
<1>2. m \in Nat \ {0} /\ ~ \E f : Flattens(f, seqs, m)
  BY <1>1
<1>3. m # 1
  <2>1. Flattens([i \in 1 .. 1 |-> seqs[i]], seqs, 1)
    BY DEF Flattens
  <2> QED
    BY <1>2, <2>1
<1>4. PICK f : Flattens(f, seqs, m - 1)
  <2>1. m - 1 \notin E
    BY <1>1, <1>2
  <2> QED
    BY <1>2, <1>3, <2>1
<1> DEFINE g == [i \in 1 .. m |-> IF i = m THEN f[m - 1] \o seqs[m] ELSE f[i]]
<1>5. ASSUME NEW i \in 1 .. m
      PROVE  g[i] = IF i = 1 THEN seqs[i] ELSE g[i - 1] \o seqs[i]
  <2>1. CASE i = m
    <3>1. m - 1 \in 1 .. m /\ m - 1 # m
      BY <1>2, <1>3
    <3>2. m \in 1 .. m
      BY <1>2
    <3>3. g[m - 1] = f[m - 1] /\ g[m] = f[m - 1] \o seqs[m]
      BY <3>1, <3>2, Zenon
    <3> QED
      BY <1>3, <2>1, <3>3
  <2>2. CASE i # m
    <3>1. i \in 1 .. m - 1 /\ (i # 1 => i - 1 \in 1 .. m /\ i - 1 # m)
      BY <1>2, <2>2
    <3>2. f[i] = IF i = 1 THEN seqs[i] ELSE f[i - 1] \o seqs[i]
      BY <1>4, <3>1 DEF Flattens
    <3>3. g[i] = f[i] /\ (i # 1 => g[i - 1] = f[i - 1])
      BY <2>2, <3>1
    <3> QED
      BY <3>2, <3>3
  <2> QED
    BY <2>1, <2>2
<1>6. Flattens(g, seqs, m)
  <2>1. g = [i \in 1 .. m |-> g[i]]
    OBVIOUS
  <2> HIDE DEF g
  <2> QED
    BY <1>5, <2>1 DEF Flattens
<1> QED
  BY <1>2, <1>6

LEMMA FlattensAt ==
  ASSUME NEW f, NEW seqs, NEW n, Flattens(f, seqs, n), NEW i \in 1 .. n
  PROVE  f[i] = IF i = 1 THEN seqs[i] ELSE f[i - 1] \o seqs[i]
BY Zenon DEF Flattens

(* Two of them agree as far as what they accumulate does.                  *)
LEMMA FlattensAgree ==
  ASSUME NEW f, NEW s, NEW n \in Nat, Flattens(f, s, n),
         NEW g, NEW t, NEW m \in Nat, Flattens(g, t, m),
         n <= m, \A i \in 1 .. n : s[i] = t[i]
  PROVE  \A i \in 1 .. n : f[i] = g[i]
<1> DEFINE E == {i \in 1 .. n : f[i] # g[i]}
<1> SUFFICES ASSUME E # {} PROVE FALSE
  OBVIOUS
<1>1. PICK i \in E : \A j \in E : i <= j
  <2>1. E \subseteq Nat
    OBVIOUS
  <2> HIDE DEF E
  <2> QED
    BY <2>1, LeastExists
<1>2. i \in 1 .. n /\ i \in 1 .. m /\ f[i] # g[i]
  BY <1>1
<1>3. /\ f[i] = IF i = 1 THEN s[i] ELSE f[i - 1] \o s[i]
      /\ g[i] = IF i = 1 THEN t[i] ELSE g[i - 1] \o t[i]
  BY <1>2, FlattensAt
<1>4. i # 1 => f[i - 1] = g[i - 1]
  <2>1. i # 1 => i - 1 \in 1 .. n /\ ~ (i <= i - 1)
    BY <1>2
  <2> QED
    BY <1>1, <2>1
<1> QED
  BY <1>2, <1>3, <1>4

LEMMA FlattenLast ==
  ASSUME NEW seqs, NEW n \in Nat \ {0}, Len(seqs) = n
  PROVE  \E f : Flattens(f, seqs, n) /\ FlattenSeq(seqs) = f[n]
<1> DEFINE F == CHOOSE f : Flattens(f, seqs, n)
<1>1. Flattens(F, seqs, n)
  BY FlattensExists
<1>2. FlattenSeq(seqs) = F[n]
  BY Zenon DEF FlattenSeq, Flattens
<1> QED
  BY <1>1, <1>2

(* One more sequence comes behind those before it. *)
LEMMA FlattenNext ==
  ASSUME NEW n \in Nat, NEW s, Len(s) = n, NEW t, Len(t) = n + 1,
         \A i \in 1 .. n : s[i] = t[i], NEW S, t[n + 1] \in Seq(S),
         n = 0 => s = <<>>
  PROVE  FlattenSeq(t) = FlattenSeq(s) \o t[n + 1]
<1>1. PICK g : Flattens(g, t, n + 1) /\ FlattenSeq(t) = g[n + 1]
  BY FlattenLast
<1>2. CASE n = 0
  <2>1. FlattenSeq(s) = <<>>
    BY <1>2 DEF FlattenSeq
  <2>2. g[1] = t[1]
    BY <1>1, <1>2 DEF Flattens
  <2> QED
    BY <1>1, <1>2, <2>1, <2>2
<1>3. CASE n # 0
  <2>1. PICK f : Flattens(f, s, n) /\ FlattenSeq(s) = f[n]
    BY <1>3, FlattenLast
  <2>2. \A i \in 1 .. n : f[i] = g[i]
    BY <1>1, <2>1, FlattensAgree
  <2>3. f[n] = g[n]
    BY <1>3, <2>2
  <2>4. PICK k \in 1 .. n + 1 : k = n + 1
    OBVIOUS
  <2>5. g[k] = IF k = 1 THEN t[k] ELSE g[k - 1] \o t[k]
    BY <1>1, <2>4, FlattensAt
  <2>6. k # 1 /\ k - 1 = n
    BY <1>3, <2>4
  <2>7. g[k] = g[n] \o t[k]
    BY <2>5, <2>6
  <2> QED
    BY <1>1, <2>1, <2>3, <2>4, <2>7
<1> QED
  BY <1>2, <1>3


(* The first g messages, one after the other,                              *)
Sent(g) == FlattenSeq([m \in 1 .. g |-> Message(m)])

(* and what the m-th has behind its p-th byte.                             *)
RestOf(m, p) == [j \in 1 .. MessageLengths[m] - p |-> <<"own", m, p + j>>]

(* While the router speaks, what is not on the wire is in the transmitter  *)
(* or in the buffer.                                                       *)
Underway ==
  /\ given \in 1 .. Len(MessageLengths)
  /\ ptr + ctr = MessageLengths[given]
  /\ \A p \in ptr .. MessageLengths[given] - 1 : buf[p] = <<"own", given, p + 1>>
  /\ (wire \o txFifo) \o RestOf(given, ptr) = Sent(given)

(* All messages given are on the wire when it is silent.                   *)
Transmitted ==
  /\ Speaking => Underway
  /\ ~ Speaking => txFifo = <<>> /\ wire = Sent(given)

(* The ranges of what these are made of. *)
LEMMA MessageFacts ==
  ASSUME TypeOK
  PROVE  /\ Len(MessageLengths) \in Nat /\ given \in 0 .. Len(MessageLengths)
         /\ wire \in Seq(Byte) /\ txFifo \in Seq(Byte) /\ ptr \in Nat /\ ctr \in Nat
         /\ BufferSize \in Nat /\ PacketSize \in Nat /\ PacketSize < BufferSize
         /\ \A m \in 1 .. Len(MessageLengths) :
              /\ MessageLengths[m] \in Nat /\ MessageLengths[m] <= PacketSize
              /\ Message(m) \in Seq(Byte) /\ Message(m) = RestOf(m, 0)
<1>1. Len(MessageLengths) \in Nat
  <2>1. MessageLengths \in Seq(0 .. PacketSize)
    BY DEF TypeOK, Traffic, MessageLengths
  <2> QED
    BY <2>1
<1>2. /\ BufferSize \in Nat /\ PacketSize \in Nat /\ PacketSize < BufferSize
      /\ ctr \in Nat
  BY ConstantsAssumption, Counts
<1>3. ASSUME NEW m \in 1 .. Len(MessageLengths)
      PROVE  /\ MessageLengths[m] \in Nat /\ MessageLengths[m] <= PacketSize
             /\ Message(m) \in Seq(Byte) /\ Message(m) = RestOf(m, 0)
  <2>1. MessageLengths[m] \in Nat /\ MessageLengths[m] <= PacketSize
    BY <1>2, BytesOfBoth
  <2>2. \A p \in 1 .. MessageLengths[m] : <<"own", m, p>> \in Byte
    BY BytesOfBoth DEF Message
  <2>3. Message(m) \in Seq(Byte)
    BY <2>1, <2>2 DEF Message
  <2>4. Message(m) = RestOf(m, 0)
    BY <2>1 DEF Message, RestOf
  <2> QED
    BY <2>1, <2>3, <2>4
<1> QED
  BY <1>1, <1>2, <1>3 DEF TypeOK

LEMMA SentNext ==
  ASSUME TypeOK, NEW g \in Nat, g < Len(MessageLengths)
  PROVE  Sent(g + 1) = Sent(g) \o Message(g + 1)
<1> DEFINE s == [m \in 1 .. g |-> Message(m)]
           t == [m \in 1 .. g + 1 |-> Message(m)]
<1>1. g + 1 \in 1 .. Len(MessageLengths)
  BY MessageFacts
<1>2. \A m \in 1 .. g + 1 : Message(m) \in Seq(Byte)
  BY <1>1, MessageFacts
<1>3. s \in Seq(Seq(Byte)) /\ t \in Seq(Seq(Byte)) /\ Len(s) = g /\ Len(t) = g + 1
  BY <1>2
<1>4. \A i \in 1 .. g : s[i] = t[i]
  OBVIOUS
<1>5. t[g + 1] = Message(g + 1)
  BY <1>1
<1>6. t[g + 1] \in Seq(Byte) /\ (g = 0 => s = <<>>)
  BY <1>1, <1>2, <1>3, <1>5
<1> HIDE DEF s, t
<1>7. FlattenSeq(t) = FlattenSeq(s) \o t[g + 1]
  BY <1>3, <1>4, <1>6, FlattenNext
<1> QED
  BY <1>5, <1>7 DEF Sent, s, t

LEMMA TransmittedInit == Init => Transmitted
<1> SUFFICES ASSUME Init PROVE Transmitted
  OBVIOUS
<1>1. ~ Speaking
  BY DEF Init, Speaking
<1>2. Sent(0) = <<>>
  <2> DEFINE s == [m \in 1 .. 0 |-> Message(m)]
  <2>1. s \in Seq({}) /\ Len(s) = 0
    OBVIOUS
  <2>2. s = <<>>
    BY <2>1
  <2> HIDE DEF s
  <2>3. FlattenSeq(s) = <<>>
    BY <2>1, <2>2 DEF FlattenSeq
  <2> QED
    BY <2>3 DEF s, Sent
<1> QED
  BY <1>1, <1>2 DEF Init, Transmitted

(* Steps that touch neither the transmitter nor what is to be sent.        *)
LEMMA ElsewhereTransmitted ==
  ASSUME Transmitted, UNCHANGED <<traffic, txFifo, wire, given>>,
         Speaking' = Speaking, Speaking => UNCHANGED <<buf, ctr, ptr>>
  PROVE  Transmitted'
<1>1. /\ MessageLengths' = MessageLengths /\ Sent(given)' = Sent(given)
      /\ Speaking => RestOf(given, ptr)' = RestOf(given, ptr)
  BY DEF MessageLengths, Sent, Message, RestOf
<1>2. ASSUME Speaking PROVE Underway'
  BY <1>1, <1>2, Zenon DEF Transmitted, Underway
<1> QED
  BY <1>1, <1>2 DEF Transmitted

LEMMA SendCopyTransmitted ==
  ASSUME TypeOK, TurnsKept, Transmitted, Orderly, SendCopy, UNCHANGED traffic
  PROVE  Transmitted'
<1> DEFINE m == given + 1
<1>1. /\ given' = m /\ ctr' = MessageLengths[m] /\ ptr' = 0 /\ Speaking'
      /\ MessageLengths' = MessageLengths /\ Sent(given)' = Sent(m)
      /\ txFifo' = txFifo /\ wire' = wire /\ RestOf(given, ptr)' = RestOf(m, 0)
  BY DEF SendCopy, Speaking, MessageLengths, Sent, Message, RestOf
<1>2. txFifo = <<>> /\ wire = Sent(given)
  BY SendCopyInTurn DEF Transmitted
<1>3. /\ m \in 1 .. Len(MessageLengths) /\ MessageLengths[m] \in Nat
      /\ MessageLengths[m] < BufferSize /\ Message(m) = RestOf(m, 0)
  <2>1. m \in 1 .. Len(MessageLengths)
    BY MessageFacts DEF SendCopy
  <2> HIDE DEF m
  <2> QED
    BY <2>1, MessageFacts
<1>4. ASSUME NEW p \in 0 .. MessageLengths[m] - 1
      PROVE  buf'[p] = <<"own", m, p + 1>>
  <2>1. p \in 0 .. BufferSize - 1 /\ p < MessageLengths[m]
        /\ p + 1 \in 1 .. MessageLengths[m]
    BY <1>3, MessageFacts
  <2>2. buf'[p] = Message(m)[p + 1]
    BY <2>1 DEF SendCopy
  <2> QED
    BY <2>1, <2>2 DEF Message
<1>5. (wire \o txFifo) \o RestOf(m, 0) = Sent(m)
  <2>1. Sent(m) = Sent(given) \o Message(m)
    <3>1. given \in Nat /\ given < Len(MessageLengths)
      BY MessageFacts DEF SendCopy
    <3> QED
      BY <3>1, SentNext
  <2>2. wire \o txFifo = wire
    BY <1>2, MessageFacts
  <2> QED
    BY <1>2, <1>3, <2>1, <2>2
<1>6. ptr' + ctr' = MessageLengths[m]
  BY <1>1, <1>3
<1> HIDE DEF m
<1>7. Underway'
  BY <1>1, <1>3, <1>4, <1>5, <1>6, Zenon DEF Underway
<1> QED
  BY <1>1, <1>7 DEF Transmitted

(* Sequences of bytes, one after the other. *)
LEMMA Joined ==
  ASSUME NEW s \in Seq(Byte), NEW t \in Seq(Byte)
  PROVE  /\ s \o t \in Seq(Byte) /\ Len(s \o t) = Len(s) + Len(t)
         /\ \A i \in 1 .. Len(s) + Len(t) :
              (s \o t)[i] = IF i <= Len(s) THEN s[i] ELSE t[i - Len(s)]
BY ConcatProperties

LEMMA JoinedThree ==
  ASSUME NEW s \in Seq(Byte), NEW t \in Seq(Byte), NEW u \in Seq(Byte)
  PROVE  (s \o t) \o u = s \o (t \o u)
BY ConcatAssociative

LEMMA Shifted ==
  ASSUME NEW S, NEW s \in Seq(S), NEW t \in Seq(S), t # <<>>
  PROVE  Append(s, Head(t)) \o Tail(t) = s \o t
<1> DEFINE h == <<Head(t)>>
<1>1. Head(t) \in S /\ Tail(t) \in Seq(S) /\ h \in Seq(S)
  BY HeadTailProperties
<1>2. Append(s, Head(t)) = s \o h
  BY <1>1
<1>3. t = h \o Tail(t)
  BY <1>1
<1> HIDE DEF h
<1>4. (s \o h) \o Tail(t) = s \o (h \o Tail(t))
  BY <1>1, ConcatAssociative
<1> QED
  BY <1>2, <1>3, <1>4

(* A byte goes from the transmitter to the wire. *)
LEMMA ShiftOutTransmitted ==
  ASSUME TypeOK, Transmitted, ShiftOut, UNCHANGED traffic
  PROVE  Transmitted'
<1>1. Speaking /\ Speaking' = Speaking
  BY DEF ShiftOut, Transmitted, Speaking, sendVars
<1>2. /\ MessageLengths' = MessageLengths /\ Sent(given)' = Sent(given)
      /\ RestOf(given, ptr)' = RestOf(given, ptr)
      /\ UNCHANGED <<given, ptr, ctr, buf>>
  BY DEF ShiftOut, MessageLengths, Sent, Message, RestOf, bufferVars, sendVars
<1>3. wire' \o txFifo' = wire \o txFifo
  <2>1. /\ txFifo \in Seq(Byte) /\ txFifo # <<>> /\ wire \in Seq(Byte)
        /\ wire' = Append(wire, Head(txFifo)) /\ txFifo' = Tail(txFifo)
    BY MessageFacts DEF ShiftOut
  <2> QED
    BY <2>1, Shifted
<1>4. Underway'
  BY <1>1, <1>2, <1>3, Zenon DEF Transmitted, Underway
<1> QED
  BY <1>1, <1>4 DEF Transmitted


(* The transmit part takes the next bytes of the message from the buffer,  *)
(* and goes silent only when all are out.                                  *)
LEMMA InterruptTransmitted ==
  ASSUME TypeOK, Receiving, Transmitted, Speaking, Interrupt, UNCHANGED traffic
  PROVE  Transmitted'
<1> DEFINE m == given
           len == MessageLengths[m]
           room == TxFifoSize - Len(txFifo)
           n == IF ctr < room THEN ctr ELSE room
           more == Bytes(ptr, n)
<1>1. /\ MessageLengths' = MessageLengths /\ Sent(given)' = Sent(given)
      /\ UNCHANGED <<given, wire, sending>>
  BY DEF Interrupt, MessageLengths, Sent, Message, sendVars
<1>2. Underway /\ rxFifo = <<>> /\ (sending # "idle" => ~ txIrq)
  BY DEF Transmitted, Receiving, TurnsKept
<1>3. ~ RxReady /\ TxReady /\ sending = "idle"
  BY <1>2 DEF Interrupt, Pending, RxReady, TxReady
<1>4. CtrAfterRx = ctr /\ BufAfterRx = buf /\ buf' = buf
  <2>1. ~ RxStores /\ ~ RxEnds
    BY <1>3 DEF RxStores, RxEnds
  <2>2. buf' = BufAfterRx
    BY Zenon DEF Interrupt, Receive
  <2> QED
    BY <2>1, <2>2 DEF CtrAfterRx, BufAfterRx
<1>5. /\ txFifo' = txFifo \o more /\ ctr' = ctr - n /\ ptr' = ptr + n
      /\ txFifo' = <<>> \/ txIrq' = txIrq
  BY <1>3, <1>4, Zenon DEF Interrupt, Transmit, PointerAfter
<1>6. /\ m \in 1 .. Len(MessageLengths) /\ len \in Nat /\ len < BufferSize
      /\ ptr + ctr = len
      /\ \A p \in ptr .. len - 1 : buf[p] = <<"own", m, p + 1>>
      /\ (wire \o txFifo) \o RestOf(m, ptr) = Sent(m)
  <2>1. m \in 1 .. Len(MessageLengths)
    BY <1>2 DEF Underway
  <2>2. len \in Nat /\ len < BufferSize
    <3> HIDE DEF m
    <3> QED
      BY <2>1, MessageFacts
  <2> QED
    BY <1>2, <2>1, <2>2 DEF Underway
<1>7. /\ wire \in Seq(Byte) /\ txFifo \in Seq(Byte) /\ ptr \in Nat /\ ctr \in Nat
      /\ Message(m) \in Seq(Byte)
  <2> HIDE DEF m
  <2> QED
    BY <1>6, MessageFacts
<1> HIDE DEF m, len
<1>8. n \in Nat /\ n <= ctr
  BY <1>3, <1>7, ConstantsAssumption DEF TxReady
<1> HIDE DEF n
<1>9. more \in Seq(Byte) /\ Len(more) = n
  BY <1>8, BytesOfBuffer
<1>10. ASSUME NEW j \in 1 .. n PROVE more[j] = <<"own", m, ptr + j>>
  <2>1. /\ ptr + j - 1 < BufferSize /\ ptr + j - 1 \in ptr .. len - 1
        /\ (ptr + j - 1) + 1 = ptr + j
    BY <1>6, <1>7, <1>8, MessageFacts
  <2>2. more[j] = buf[ptr + j - 1]
    BY <1>4, <2>1 DEF Bytes
  <2> QED
    BY <1>6, <2>1, <2>2
<1>11. ASSUME NEW p \in 0 .. len
       PROVE  /\ RestOf(m, p) \in Seq(Byte) /\ Len(RestOf(m, p)) = len - p
              /\ \A j \in 1 .. len - p : RestOf(m, p)[j] = <<"own", m, p + j>>
  <2>1. \A j \in 1 .. len - p : <<"own", m, p + j>> \in Byte
    <3> SUFFICES ASSUME NEW j \in 1 .. len - p PROVE <<"own", m, p + j>> \in Byte
      OBVIOUS
    <3>1. p + j \in 1 .. len
      BY <1>6
    <3>2. Message(m)[p + j] = <<"own", m, p + j>>
      BY <3>1 DEF Message, len
    <3> QED
      BY <1>6, <3>1, <3>2, BytesOfBoth DEF len
  <2>2. len - p \in Nat
    BY <1>6
  <2> QED
    BY <2>1, <2>2 DEF RestOf, len
<1> HIDE DEF more
<1> DEFINE before == RestOf(m, ptr)
           after == RestOf(m, ptr + n)
<1>12. ptr \in 0 .. len /\ ptr + n \in 0 .. len
  BY <1>6, <1>7, <1>8
<1>13. before = more \o after
  <2>1. /\ before \in Seq(Byte) /\ Len(before) = len - ptr
        /\ \A j \in 1 .. len - ptr : before[j] = <<"own", m, ptr + j>>
    BY <1>11, <1>12
  <2>2. /\ after \in Seq(Byte) /\ Len(after) = len - (ptr + n)
        /\ \A j \in 1 .. len - (ptr + n) : after[j] = <<"own", m, (ptr + n) + j>>
    BY <1>11, <1>12
  <2> HIDE DEF before, after
  <2>3. /\ more \o after \in Seq(Byte) /\ Len(more \o after) = Len(more) + Len(after)
        /\ \A j \in 1 .. Len(more) + Len(after) :
             (more \o after)[j] = IF j <= Len(more) THEN more[j]
                                  ELSE after[j - Len(more)]
    BY <1>9, <2>2, Joined
  <2>4. Len(more \o after) = len - ptr
    BY <1>6, <1>7, <1>8, <1>9, <2>2, <2>3
  <2>5. ASSUME NEW j \in 1 .. len - ptr PROVE before[j] = (more \o after)[j]
    <3>1. CASE j <= n
      <4>1. j \in 1 .. n /\ j \in 1 .. Len(more) + Len(after)
        BY <1>6, <1>7, <1>8, <1>9, <2>2, <3>1
      <4> QED
        BY <1>9, <1>10, <2>1, <2>3, <3>1, <4>1
    <3>2. CASE ~ (j <= n)
      <4>1. /\ j - n \in 1 .. len - (ptr + n) /\ (ptr + n) + (j - n) = ptr + j
            /\ j \in 1 .. Len(more) + Len(after)
        BY <1>6, <1>7, <1>8, <1>9, <2>2, <3>2
      <4>2. (more \o after)[j] = after[j - n]
        BY <1>9, <2>3, <3>2, <4>1
      <4>3. after[j - n] = <<"own", m, ptr + j>>
        BY <2>2, <4>1
      <4> QED
        BY <2>1, <4>2, <4>3
    <3> QED
      BY <3>1, <3>2
  <2> QED
    BY <2>1, <2>3, <2>4, <2>5, SeqEqual
<1>14. after \in Seq(Byte) /\ Len(after) = len - (ptr + n)
  BY <1>11, <1>12
<1> HIDE DEF before, after
<1>15. (wire \o txFifo') \o after = Sent(m)
  <2>1. (wire \o txFifo) \o (more \o after) = ((wire \o txFifo) \o more) \o after
    <3>1. wire \o txFifo \in Seq(Byte)
      BY <1>7, ConcatProperties
    <3> QED
      BY <1>9, <1>14, <3>1, JoinedThree
  <2>2. (wire \o txFifo) \o more = wire \o (txFifo \o more)
    BY <1>7, <1>9, ConcatAssociative
  <2> QED
    BY <1>5, <1>6, <1>13, <2>1, <2>2 DEF before
<1>16. Underway'
  <2>0. /\ ctr' = ctr - n /\ ptr' = ptr + n /\ buf' = buf
        /\ ptr \in Nat /\ ctr \in Nat /\ n \in Nat /\ len \in Nat /\ ptr + ctr = len
    BY <1>4, <1>5, <1>6, <1>7, <1>8
  <2>1. ptr' + ctr' = len
    BY <2>0
  <2>2. \A p \in ptr' .. len - 1 : buf'[p] = <<"own", m, p + 1>>
    <3>1. \A p \in ptr' .. len - 1 : p \in ptr .. len - 1
      BY <2>0
    <3> QED
      BY <1>6, <2>0, <3>1
  <2>3. RestOf(given, ptr)' = after
    BY <1>1, <1>5 DEF RestOf, after, m
  <2>4. (wire' \o txFifo') \o RestOf(given, ptr)' = Sent(given)'
    BY <1>1, <1>15, <2>3 DEF m
  <2> QED
    BY <1>1, <1>6, <2>1, <2>2, <2>4 DEF Underway, m, len
<1>17. ASSUME ~ Speaking' PROVE txFifo' = <<>> /\ wire' = Sent(given)'
  <2>1. txFifo' = <<>> /\ ctr' = 0
    <3>1. txIrq' # txIrq
      BY <1>1, <1>3, <1>17 DEF Speaking, TxReady
    <3> QED
      BY <1>5, <1>17, <3>1, TransmitReceiving
  <2>2. after = <<>>
    <3>1. Len(after) = 0
      BY <1>5, <1>6, <1>7, <1>8, <1>14, <2>1
    <3> QED
      BY <1>14, <3>1
  <2>3. (wire \o <<>>) \o <<>> = wire
    BY <1>7
  <2> QED
    BY <1>1, <1>15, <2>1, <2>2, <2>3 DEF m
<1> QED
  BY <1>16, <1>17 DEF Transmitted

LEMMA TransmittedNext ==
  ASSUME TypeOK, Receiving, Transmitted, Orderly, [Next]_vars
  PROVE  Transmitted'
<1> USE DEF bufferVars, threadVars, sendVars
<1>1. CASE UNCHANGED vars
  BY <1>1, ElsewhereTransmitted DEF vars, Speaking
<1>2. CASE Next
  <2>1. UNCHANGED traffic /\ Step
    BY <1>2 DEF Next
  <2>2. CASE PeerByte
    BY <2>1, <2>2, ElsewhereTransmitted DEF PeerByte, Speaking
  <2>3. CASE ShiftOut
    BY <2>1, <2>3, ShiftOutTransmitted
  <2>4. CASE Interrupt /\ Speaking
    BY <2>1, <2>4, InterruptTransmitted
  <2>5. CASE Interrupt /\ ~ Speaking
    <3>1. ~ TxReady
      BY <2>5 DEF Speaking, TxReady
    <3>2. txFifo' = txFifo
      BY <2>5, <3>1, Zenon DEF Interrupt, Transmit
    <3>3. UNCHANGED <<wire, given>> /\ ~ Speaking'
      BY <2>1, <2>5, Listens DEF Interrupt
    <3>4. Speaking' = Speaking
      BY <2>5, <3>3, Zenon DEF Speaking
    <3> QED
      BY <2>1, <2>5, <3>2, <3>3, <3>4, ElsewhereTransmitted
  <2>6. CASE HandleUartMessages
    BY <2>1, <2>6, ElsewhereTransmitted DEF HandleUartMessages, Speaking
  <2>7. CASE SendCopy
    BY <2>1, <2>7, SendCopyTransmitted DEF Receiving
  <2>8. CASE SendDisableRx
    BY <2>1, <2>8, ElsewhereTransmitted DEF SendDisableRx, Speaking
  <2>9. CASE SendEnableTx
    BY <2>1, <2>9, ElsewhereTransmitted DEF SendEnableTx, Speaking
  <2> QED
    BY <2>1, <2>2, <2>3, <2>4, <2>5, <2>6, <2>7, <2>8, <2>9 DEF Step, Send
<1> QED
  BY <1>1, <1>2

LEMMA PrefixOfJoined ==
  ASSUME NEW S, NEW s \in Seq(S), NEW t \in Seq(S)
  PROVE  IsPrefix(s, s \o t)
<1>1. /\ s \o t \in Seq(S) /\ Len(s \o t) = Len(s) + Len(t)
      /\ Len(s) \in Nat /\ Len(t) \in Nat
  BY ConcatProperties
<1>2. CASE s = <<>>
  BY <1>1, <1>2 DEF IsPrefix
<1>3. CASE s # <<>>
  <2>1. Len(s) \in 1 .. Len(s) /\ 1 \in 1 .. Len(s)
    BY <1>3
  <2>2. SubSeq(s \o t, 1, Len(s)) = SubSeq(s, 1, Len(s))
    BY <2>1, SubSeqOfConcat1
  <2> QED
    BY <1>1, <2>2 DEF IsPrefix
<1> QED
  BY <1>2, <1>3

(* When router and peer take turns, the wire carries the messages one      *)
(* after the other, each whole and uncorrupted.                            *)
THEOREM TransmissionIntact ==
  ASSUME Orderly
  PROVE  Spec => []SentIntact
<1>1. Init => Transmitted
  BY TransmittedInit
<1>2. TypeOK /\ Receiving /\ Transmitted /\ [Next]_vars => Transmitted'
  BY TransmittedNext
<1>3. TypeOK /\ Transmitted => SentIntact
  <2> SUFFICES ASSUME TypeOK, Transmitted PROVE IsPrefix(wire, Sent(given))
    BY DEF SentIntact, Sent
  <2>1. CASE ~ Speaking
    <3>1. wire = Sent(given) /\ wire \o <<>> = wire
      BY <2>1, MessageFacts DEF Transmitted
    <3>2. <<>> \in Seq(Byte)
      OBVIOUS
    <3>3. IsPrefix(wire, wire \o <<>>)
      BY <3>2, MessageFacts, PrefixOfJoined
    <3> QED
      BY <3>1, <3>3
  <2>2. CASE Speaking
    <3> DEFINE rest == RestOf(given, ptr)
    <3>1. /\ given \in 1 .. Len(MessageLengths) /\ ptr + ctr = MessageLengths[given]
          /\ (wire \o txFifo) \o rest = Sent(given)
      BY <2>2 DEF Transmitted, Underway
    <3>2. rest \in Seq(Byte)
      <4>1. ASSUME NEW j \in 1 .. MessageLengths[given] - ptr
            PROVE  <<"own", given, ptr + j>> \in Byte
        <5>1. ptr + j \in 1 .. MessageLengths[given]
          BY <3>1, MessageFacts
        <5>2. Message(given)[ptr + j] = <<"own", given, ptr + j>>
          BY <5>1 DEF Message
        <5> QED
          BY <3>1, <5>1, <5>2, BytesOfBoth
      <4>2. MessageLengths[given] - ptr \in Nat
        BY <3>1, MessageFacts
      <4> QED
        BY <4>1, <4>2 DEF RestOf
    <3> HIDE DEF rest
    <3>3. (wire \o txFifo) \o rest = wire \o (txFifo \o rest)
      <4>1. wire \in Seq(Byte) /\ txFifo \in Seq(Byte)
        BY MessageFacts
      <4> QED
        BY <3>2, <4>1, JoinedThree
    <3>4. txFifo \o rest \in Seq(Byte)
      BY <3>2, MessageFacts, ConcatProperties
    <3>5. IsPrefix(wire, wire \o (txFifo \o rest))
      BY <3>4, MessageFacts, PrefixOfJoined
    <3> QED
      BY <3>1, <3>3, <3>5
  <2> QED
    BY <2>1, <2>2
<1> QED
  BY <1>1, <1>2, <1>3, ReceivingHolds, PTL DEF Spec

==============================================================================
