-------------------------- MODULE PacketCodecProofs --------------------------
(***************************************************************************)
(* What the packet layouts lose, how long packets get and what their       *)
(* reader finds in them, for payloads of any length and content.           *)
(***************************************************************************)
EXTENDS PacketCodec, TLAPS

Payloads == {s \in Seq(Byte) : Len(s) \in Word}

(* Two bytes hold a word, the low byte first.                              *)
LEMMA WordBytes ==
  ASSUME NEW v \in Word
  PROVE  /\ PutLe16(v) = <<v % 256, v \div 256>>
         /\ v % 256 \in Byte /\ v \div 256 \in Byte
         /\ (v % 256) + 256 * (v \div 256) = v
<1>1. v \div 256 \in Byte /\ (v \div 256) % 256 = v \div 256
  <2>1. v \div 256 \in 0 .. 255
    <3>1. v \in Int /\ 0 <= v /\ v < 65536
      BY DEF Word, MaxWord
    <3>2. v \div 256 \in Int /\ v % 256 \in 0 .. 255
      BY <3>1
    <3>3. v = 256 * (v \div 256) + (v % 256)
      BY <3>1
    <3> DEFINE q == v \div 256
               r == v % 256
    <3>4. q \in Int /\ r \in Int /\ 0 <= r /\ r <= 255 /\ v = 256 * q + r
      BY <3>2, <3>3
    <3> HIDE DEF q, r
    <3>5. 0 <= q /\ q <= 255
      BY <3>1, <3>4
    <3>6. q \in 0 .. 255
      BY <3>4, <3>5
    <3> QED
      BY <3>6 DEF q
  <2>2. \A q \in 0 .. 255 : q % 256 = q
    OBVIOUS
  <2> QED
    BY <2>1, <2>2 DEF Byte
<1>2. v % 256 \in Byte /\ (v % 256) + 256 * (v \div 256) = v
  BY DEF Word, MaxWord, Byte
<1> QED
  BY <1>1, <1>2 DEF PutLe16

(* What follows a header is found behind it, and the header in front.      *)
LEMMA Split ==
  ASSUME NEW h \in Seq(Byte), NEW s \in Seq(Byte)
  PROVE  /\ h \o s \in Seq(Byte)
         /\ Len(h \o s) = Len(h) + Len(s)
         /\ \A p \in 1 .. Len(h) : At(h \o s, p) = h[p]
         /\ From(h \o s, Len(h) + 1) = s
<1>1. h \o s \in Seq(Byte) /\ Len(h \o s) = Len(h) + Len(s)
  OBVIOUS
<1>2. \A p \in 1 .. Len(h) : At(h \o s, p) = h[p]
  BY DEF At
<1>3. From(h \o s, Len(h) + 1) = s
  BY DEF From
<1> QED
  BY <1>1, <1>2, <1>3

(* A generic packet that is wrapped and loaded has its type and payload    *)
(* again, and its length is what is wrapped for.                           *)
LEMMA GenericIntact ==
  ASSUME NEW type \in Byte, NEW payload \in Payloads
  PROVE  LET wrapped == wrapGenericPacket(type, payload)
             loaded == loadGenericPacket(wrapped.bytes)
         IN  /\ wrapped.bytes \in Seq(Byte)
             /\ wrapped.length = Len(wrapped.bytes)
             /\ wrapped.length = GenericSize + Len(payload)
             /\ loaded.type = type
             /\ loaded.length = Len(payload)
             /\ loaded.payload = payload
<1> DEFINE n == Len(payload)
           h == <<CS_PROTOCOL_VERSION, type, n % 256, n \div 256>>
           w == wrapGenericPacket(type, payload)
<1>1. n % 256 \in Byte /\ n \div 256 \in Byte /\ (n % 256) + 256 * (n \div 256) = n
      /\ PutLe16(n) = <<n % 256, n \div 256>>
  BY WordBytes DEF Payloads
<1>2. payload \in Seq(Byte) /\ h \in Seq(Byte) /\ Len(h) = 4
  BY <1>1 DEF Payloads, CS_PROTOCOL_VERSION, Byte
<1>3. w.bytes = h \o payload /\ w.length = 4 + n
  BY <1>1, <1>2 DEF wrapGenericPacket, GenericSize
<1>4. /\ h \o payload \in Seq(Byte) /\ Len(h \o payload) = 4 + n
      /\ \A p \in 1 .. 4 : At(h \o payload, p) = h[p]
      /\ From(h \o payload, 5) = payload
  <2> HIDE DEF h, n
  <2>1. /\ h \o payload \in Seq(Byte) /\ Len(h \o payload) = Len(h) + Len(payload)
        /\ \A p \in 1 .. Len(h) : At(h \o payload, p) = h[p]
        /\ From(h \o payload, Len(h) + 1) = payload
    BY <1>2, Split
  <2> QED
    BY <1>2, <2>1 DEF n
<1>5. At(h \o payload, 2) = type /\ GetLe16(h \o payload, 3) = n
  <2> HIDE DEF n
  <2>1. /\ At(h \o payload, 2) = h[2] /\ At(h \o payload, 3) = h[3]
        /\ At(h \o payload, 4) = h[4]
    BY <1>4
  <2>2. GetLe16(h \o payload, 3) = At(h \o payload, 3) + 256 * At(h \o payload, 4)
    BY DEF GetLe16
  <2>3. h[2] = type /\ h[3] = n % 256 /\ h[4] = n \div 256
    OBVIOUS
  <2> QED
    BY <1>1, <2>1, <2>2, <2>3
<1> QED
  BY <1>3, <1>4, <1>5 DEF loadGenericPacket, GenericSize

(* A word is a number,                                                     *)
LEMMA WordIsNat == \A w \in Word : w \in Nat
BY DEF Word, MaxWord

(* and a smaller number is a word.                                         *)
LEMMA WordDown == \A w \in Word, v \in Nat : v <= w => v \in Word
<1>1. MaxWord \in Nat
  BY DEF MaxWord
<1> QED
  BY <1>1 DEF Word

(* The header of a control packet.                                         *)
LEMMA SevenBytes ==
  ASSUME NEW S, NEW a \in S, NEW b \in S, NEW c \in S, NEW d \in S,
         NEW e \in S, NEW f \in S, NEW g \in S
  PROVE  <<a, b, c>> \o <<d, e>> \o <<f, g>> = <<a, b, c, d, e, f, g>>
<1> DEFINE x == <<a, b, c>> \o <<d, e>> \o <<f, g>>
           y == <<a, b, c, d, e, f, g>>
<1>1. x \in Seq(S) /\ y \in Seq(S) /\ Len(x) = 7 /\ Len(y) = 7
  OBVIOUS
<1>2. /\ x[1] = a /\ x[2] = b /\ x[3] = c /\ x[4] = d
      /\ x[5] = e /\ x[6] = f /\ x[7] = g
  OBVIOUS
<1>3. /\ y[1] = a /\ y[2] = b /\ y[3] = c /\ y[4] = d
      /\ y[5] = e /\ y[6] = f /\ y[7] = g
  OBVIOUS
<1> HIDE DEF x, y
<1>4. \A p \in 1 .. 7 : x[p] = y[p]
  BY <1>2, <1>3
<1>5. x = y
  BY <1>1, <1>4
<1> QED
  BY <1>5 DEF x, y

(* Parts of a packet one after the other.                                  *)
LEMMA Joined ==
  ASSUME NEW a \in Seq(Byte), NEW b \in Seq(Byte), NEW c \in Seq(Byte)
  PROVE  a \o b \o c \in Seq(Byte) /\ Len(a \o b \o c) = Len(a) + Len(b) + Len(c)
<1>1. a \o b \in Seq(Byte) /\ Len(a \o b) = Len(a) + Len(b)
  OBVIOUS
<1>2. \A x \in Seq(Byte) :
        x \o c \in Seq(Byte) /\ Len(x \o c) = Len(x) + Len(c)
  OBVIOUS
<1> QED
  BY <1>1, <1>2

(* Two bytes are written for any number.                                   *)
LEMMA TwoBytes ==
  ASSUME NEW v \in Nat
  PROVE  PutLe16(v) \in Seq(Byte) /\ Len(PutLe16(v)) = 2
<1>1. v % 256 \in Byte /\ (v \div 256) % 256 \in Byte
  BY DEF Byte
<1> QED
  BY <1>1 DEF PutLe16

(* What is taken of a packet has the length that was asked for, and is the *)
(* packet when that is its own length.                                     *)
LEMMA TakenBytes ==
  ASSUME NEW packet, packet.bytes \in Seq(Byte), packet.length \in Nat
  PROVE  /\ Taken(packet) \in Seq(Byte)
         /\ Len(Taken(packet)) = packet.length
         /\ packet.length = Len(packet.bytes) => Taken(packet) = packet.bytes
<1> DEFINE n == packet.length
           b == packet.bytes
<1>1. \A p \in 1 .. n : At(b, p) \in Byte
  <2>1. 0 \in Byte
    BY DEF Byte
  <2>2. \A p \in 1 .. Len(b) : b[p] \in Byte
    OBVIOUS
  <2> QED
    BY <2>1, <2>2 DEF At
<1>2. Taken(packet) \in [1 .. n -> Byte]
  BY <1>1 DEF Taken
<1>3. Taken(packet) \in Seq(Byte) /\ Len(Taken(packet)) = n
  BY <1>2
<1>4. n = Len(b) => Taken(packet) = b
  BY DEF Taken, At
<1> QED
  BY <1>3, <1>4

(* A packet for the cloud has the length of its payload and its headers.   *)
LEMMA OutgoingLength ==
  ASSUME NEW data, NEW result,
         data.src_id \in Byte, data.result_code \in Byte,
         data.payload \in Seq(Byte), result.type \in Byte, result.id \in Word
  PROVE  /\ Outgoing(data, result, FALSE) \in Seq(Byte)
         /\ Len(Outgoing(data, result, FALSE))
              = GenericSize + Len(data.payload)
                  + (IF result.id > 0 THEN ResultSize ELSE DataSize)
<1> DEFINE inner == Inner(data, result)
           type == IF result.id > 0 THEN CS_PACKET_TYPE_RESULT
                   ELSE CS_PACKET_TYPE_DATA
           generic == wrapGenericPacket(type, Taken(inner))
           n == Len(data.payload)
<1>1. /\ inner.bytes \in Seq(Byte)
      /\ inner.length = n + (IF result.id > 0 THEN ResultSize ELSE DataSize)
      /\ inner.length \in Nat
  <2>1. n \in Nat /\ PutLe16(n) \in Seq(Byte)
    BY TwoBytes
  <2>2. IdBytes(result.id) \in Seq(Byte)
    <3>1. result.id \in Nat
      BY WordIsNat
    <3> QED
      BY <3>1, TwoBytes DEF IdBytes
  <2>3. CASE result.id > 0
    <3>1. <<result.type, data.result_code>> \in Seq(Byte)
      OBVIOUS
    <3>2. inner = wrapResultPacket(result.type, data.result_code, result.id,
                                   data.payload)
      BY <2>3 DEF Inner
    <3> QED
      BY <2>1, <2>2, <2>3, <3>1, <3>2 DEF wrapResultPacket, ResultSize
  <2>4. CASE ~ (result.id > 0)
    <3>1. <<data.src_id>> \in Seq(Byte)
      OBVIOUS
    <3>2. inner = wrapDataPacket(data.src_id, data.payload)
      BY <2>4 DEF Inner
    <3> QED
      BY <2>1, <2>4, <3>1, <3>2 DEF wrapDataPacket, dataLength, DataSize
  <2> QED
    BY <2>3, <2>4
<1>2. Taken(inner) \in Seq(Byte) /\ Len(Taken(inner)) = inner.length
  BY <1>1, TakenBytes
<1>3. generic.bytes \in Seq(Byte) /\ generic.length = GenericSize + inner.length
      /\ generic.length \in Nat
  <2>1. PutLe16(Len(Taken(inner))) \in Seq(Byte)
    BY <1>1, <1>2, TwoBytes
  <2>2. <<CS_PROTOCOL_VERSION, type>> \in Seq(Byte)
    BY DEF CS_PROTOCOL_VERSION, CS_PACKET_TYPE_RESULT, CS_PACKET_TYPE_DATA, Byte
  <2> HIDE DEF inner, type
  <2> QED
    BY <1>1, <1>2, <2>1, <2>2 DEF wrapGenericPacket, GenericSize
<1>4. Outgoing(data, result, FALSE) = Taken(generic)
  BY DEF Outgoing
<1>5. Taken(generic) \in Seq(Byte) /\ Len(Taken(generic)) = generic.length
  BY <1>3, TakenBytes
<1> DEFINE header == IF result.id > 0 THEN ResultSize ELSE DataSize
<1>6. n \in Nat /\ header \in Nat
  BY DEF ResultSize, DataSize
<1>7. inner.length = n + header
  BY <1>1
<1>8. Len(Outgoing(data, result, FALSE)) = GenericSize + inner.length
  BY <1>3, <1>4, <1>5
<1>9. GenericSize + inner.length = GenericSize + n + header
  <2> HIDE DEF header, inner, n
  <2> QED
    BY <1>6, <1>7 DEF GenericSize
<1> QED
  BY <1>4, <1>5, <1>8, <1>9

(* A control packet laid out by the application is read by the packet      *)
(* handler for what it is.                                                 *)
LEMMA ControlIntact ==
  ASSUME NEW type \in Byte, NEW src \in Byte, NEW dest \in Byte,
         NEW id \in Word, NEW payload \in Payloads
  PROVE  LET loaded == loadControlPacket(<<type, src, dest>> \o PutLe16(id)
                                           \o PutLe16(Len(payload)) \o payload)
         IN  /\ loaded.command_type = type
             /\ loaded.dest_id = dest
             /\ loaded.request_id = id
             /\ loaded.length = Len(payload)
             /\ loaded.payload = payload
<1> DEFINE n == Len(payload)
           h == <<type, src, dest, id % 256, id \div 256, n % 256, n \div 256>>
           b == <<type, src, dest>> \o PutLe16(id) \o PutLe16(n) \o payload
<1>1. /\ n % 256 \in Byte /\ n \div 256 \in Byte
      /\ (n % 256) + 256 * (n \div 256) = n
      /\ PutLe16(n) = <<n % 256, n \div 256>>
  BY WordBytes DEF Payloads
<1>2. /\ id % 256 \in Byte /\ id \div 256 \in Byte
      /\ (id % 256) + 256 * (id \div 256) = id
      /\ PutLe16(id) = <<id % 256, id \div 256>>
  BY WordBytes
<1>3. payload \in Seq(Byte) /\ h \in Seq(Byte) /\ Len(h) = 7
  BY <1>1, <1>2 DEF Payloads
<1>4. b = h \o payload
  <2>1. <<type, src, dest>> \o PutLe16(id) \o PutLe16(n) = h
    BY <1>1, <1>2, SevenBytes
  <2> QED
    BY <2>1
<1>5. /\ \A p \in 1 .. 7 : At(h \o payload, p) = h[p]
      /\ From(h \o payload, 8) = payload
  <2> HIDE DEF h
  <2>1. /\ \A p \in 1 .. Len(h) : At(h \o payload, p) = h[p]
        /\ From(h \o payload, Len(h) + 1) = payload
    BY <1>3, Split
  <2> QED
    BY <1>3, <2>1
<1>6. /\ h[1] = type /\ h[3] = dest
      /\ h[4] = id % 256 /\ h[5] = id \div 256
      /\ h[6] = n % 256 /\ h[7] = n \div 256
  OBVIOUS
<1> HIDE DEF n, h
<1>7. GetLe16(h \o payload, 4) = id
  <2>1. GetLe16(h \o payload, 4)
          = At(h \o payload, 4) + 256 * At(h \o payload, 5)
    BY DEF GetLe16
  <2> QED
    BY <1>2, <1>5, <1>6, <2>1
<1>8. GetLe16(h \o payload, 6) = n
  <2>1. GetLe16(h \o payload, 6)
          = At(h \o payload, 6) + 256 * At(h \o payload, 7)
    BY DEF GetLe16
  <2> QED
    BY <1>1, <1>5, <1>6, <2>1
<1>9. At(h \o payload, 1) = type /\ At(h \o payload, 3) = dest
  BY <1>5, <1>6
<1> QED
  BY <1>4, <1>5, <1>7, <1>8, <1>9 DEF n, loadControlPacket, controlLength

-----------------------------------------------------------------------------
(* Packets for and from the computer module. *)

(* crc16_ccitt returns 16 bits. *)
CrcIsWord == \A s \in Seq(Byte) : Crc(s) \in Word

(* Parts of a packet can be put together in any order.                     *)
LEMMA Associative ==
  ASSUME NEW a \in Seq(Byte), NEW b \in Seq(Byte), NEW c \in Seq(Byte)
  PROVE  a \o b \o c = a \o (b \o c)
OBVIOUS

(* The bytes of two parts, each at its place.                              *)
LEMMA BytesOfBoth ==
  ASSUME NEW a \in Seq(Byte), NEW b \in Seq(Byte)
  PROVE  \A p \in 1 .. Len(a) + Len(b) :
           (a \o b)[p] = IF p <= Len(a) THEN a[p] ELSE b[p - Len(a)]
OBVIOUS

(* The header of a UART packet.                                            *)
LEMMA FiveBytes ==
  ASSUME NEW a \in Byte, NEW b \in Byte, NEW c \in Byte, NEW d \in Byte,
         NEW e \in Byte
  PROVE  <<a>> \o <<b, c>> \o <<d, e>> = <<a, b, c, d, e>>
<1> DEFINE x == <<a>> \o <<b, c>> \o <<d, e>>
           y == <<a, b, c, d, e>>
<1>1. x \in Seq(Byte) /\ y \in Seq(Byte) /\ Len(x) = 5 /\ Len(y) = 5
  OBVIOUS
<1>2. x[1] = a /\ x[2] = b /\ x[3] = c /\ x[4] = d /\ x[5] = e
  OBVIOUS
<1>3. y[1] = a /\ y[2] = b /\ y[3] = c /\ y[4] = d /\ y[5] = e
  OBVIOUS
<1> HIDE DEF x, y
<1>4. \A p \in 1 .. 5 : x[p] = y[p]
  BY <1>2, <1>3
<1>5. x = y
  BY <1>1, <1>4
<1> QED
  BY <1>5 DEF x, y

(* A word that is written is read again.                                   *)
LEMMA WordIntact ==
  ASSUME NEW v \in Word
  PROVE  /\ PutLe16(v) \in Seq(Byte) /\ Len(PutLe16(v)) = 2
         /\ GetLe16(PutLe16(v), 1) = v
<1> DEFINE b == PutLe16(v)
<1>1. b = <<v % 256, v \div 256>> /\ v % 256 \in Byte /\ v \div 256 \in Byte
      /\ (v % 256) + 256 * (v \div 256) = v
  BY WordBytes
<1> HIDE DEF b
<1>2. b \in Seq(Byte) /\ Len(b) = 2 /\ b[1] = v % 256 /\ b[2] = v \div 256
  BY <1>1
<1>3. GetLe16(b, 1) = b[1] + 256 * b[2]
  BY <1>2 DEF GetLe16, At
<1> QED
  BY <1>1, <1>2, <1>3 DEF b

(* A UART packet is loaded for what it is: the payload is found by the     *)
(* length field, with the checksum behind it, and the checksums agree.     *)
LEMMA UartIntact ==
  ASSUME CrcIsWord, NEW type \in Byte, NEW payload \in Seq(Byte),
         Len(payload) + 4 \in Word
  PROVE  LET w == wrapUartPacket(type, payload)
             loaded == loadUartPacket(w.bytes)
         IN  /\ w.bytes \in Seq(Byte)
             /\ w.length = Len(w.bytes)
             /\ ~ loaded.faults
             /\ loaded.start_token = CS_PACKET_UART_START_TOKEN
             /\ loaded.type = type
             /\ loaded.length + 3 = Len(w.bytes)
             /\ loaded.payload_len = Len(payload)
             /\ \E crc \in Seq(Byte) : loaded.payload = payload \o crc
             /\ loaded.check_crc = loaded.received_crc
<1> DEFINE n == Len(payload) + 4
           front == <<CS_UART_PROTOCOL_VERSION, type>>
           checked == front \o payload
           crc == PutLe16(Crc(checked))
           h == <<CS_PACKET_UART_START_TOKEN, n % 256, n \div 256,
                  CS_UART_PROTOCOL_VERSION, type>>
           tail == payload \o crc
           b == h \o tail
           w == wrapUartPacket(type, payload)
<1>1. /\ w.bytes = b /\ w.length = n + 3
      /\ checked \in Seq(Byte) /\ Len(checked) = n - 2
      /\ n % 256 \in Byte /\ n \div 256 \in Byte
      /\ (n % 256) + 256 * (n \div 256) = n
      /\ crc \in Seq(Byte) /\ Len(crc) = 2
      /\ GetLe16(crc, 1) = Crc(checked)
  <2> DEFINE token == <<CS_PACKET_UART_START_TOKEN>>
             start == token \o PutLe16(n)
  <2>1. front \in Seq(Byte) /\ Len(front) = 2 /\ token \in Seq(Byte)
    BY DEF CS_UART_PROTOCOL_VERSION, CS_PACKET_UART_START_TOKEN, Byte
  <2>2. checked \in Seq(Byte) /\ Len(checked) = n - 2
    <3>1. checked \in Seq(Byte) /\ Len(checked) = Len(front) + Len(payload)
      <4> HIDE DEF front
      <4> QED
        BY <2>1, Split
    <3>2. Len(payload) \in Nat
      OBVIOUS
    <3> HIDE DEF checked, front
    <3> QED
      BY <2>1, <3>1, <3>2
  <2>3. /\ n % 256 \in Byte /\ n \div 256 \in Byte
        /\ (n % 256) + 256 * (n \div 256) = n
        /\ PutLe16(n) = <<n % 256, n \div 256>>
    <3> HIDE DEF n
    <3> QED
      BY WordBytes DEF n
  <2>4. /\ crc \in Seq(Byte) /\ Len(crc) = 2
        /\ GetLe16(crc, 1) = Crc(checked)
    <3> HIDE DEF checked
    <3>1. Crc(checked) \in Word
      BY <2>2 DEF CrcIsWord
    <3> QED
      BY <3>1, WordIntact
  <2>5. uartLength(payload) = n /\ w.length = n + 3
    BY DEF uartLength, UartSize, wrapUartPacket
  <2>6. w.bytes = start \o checked \o crc
    BY <2>5 DEF wrapUartPacket
  <2>7. start \in Seq(Byte)
    <3> HIDE DEF n
    <3>1. <<n % 256, n \div 256>> \in Seq(Byte)
      BY <2>3
    <3> QED
      BY <2>1, <2>3, <3>1
  <2>8. start \o front = h
    <3>1. CS_PACKET_UART_START_TOKEN \in Byte /\ CS_UART_PROTOCOL_VERSION \in Byte
      BY DEF CS_UART_PROTOCOL_VERSION, CS_PACKET_UART_START_TOKEN, Byte
    <3> HIDE DEF n
    <3>2. token \o <<n % 256, n \div 256>> \o front = h
      BY <2>3, <3>1, FiveBytes
    <3> QED
      BY <2>3, <3>2
  <2>9. start \o checked \o crc = b
    <3> HIDE DEF start, front, crc, h
    <3>1. start \o (front \o payload) = (start \o front) \o payload
      BY <2>1, <2>7, Associative
    <3>2. h \in Seq(Byte)
      <4>1. start \o front \in Seq(Byte)
        BY <2>1, <2>7
      <4> QED
        BY <2>8, <4>1
    <3>3. (h \o payload) \o crc = h \o (payload \o crc)
      BY <2>4, <3>2, Associative
    <3> QED
      BY <2>8, <3>1, <3>3
  <2> HIDE DEF w, b, checked, n, crc, start
  <2> QED
    BY <2>2, <2>3, <2>4, <2>5, <2>6, <2>9
<1>2. h \in Seq(Byte) /\ Len(h) = 5
  <2>1. CS_PACKET_UART_START_TOKEN \in Byte /\ CS_UART_PROTOCOL_VERSION \in Byte
    BY DEF CS_UART_PROTOCOL_VERSION, CS_PACKET_UART_START_TOKEN, Byte
  <2> HIDE DEF n
  <2> QED
    BY <1>1, <2>1
<1>3. /\ h[1] = CS_PACKET_UART_START_TOKEN /\ h[2] = n % 256
      /\ h[3] = n \div 256 /\ h[4] = CS_UART_PROTOCOL_VERSION /\ h[5] = type
  <2> HIDE DEF n
  <2> QED
    OBVIOUS
<1>4. n \in Nat /\ n = Len(payload) + 4 /\ Len(payload) \in Nat
      /\ Len(payload) = n - 4
  OBVIOUS
<1>5. front \in Seq(Byte) /\ Len(front) = 2
      /\ front[1] = CS_UART_PROTOCOL_VERSION /\ front[2] = type
  BY DEF CS_UART_PROTOCOL_VERSION, Byte
<1>6. \A p \in 1 .. n - 2 :
        checked[p] = IF p <= 2 THEN front[p] ELSE payload[p - 2]
  <2> HIDE DEF front
  <2>1. \A p \in 1 .. Len(front) + Len(payload) :
          checked[p] = IF p <= Len(front) THEN front[p]
                       ELSE payload[p - Len(front)]
    BY <1>5, BytesOfBoth
  <2>2. Len(front) + Len(payload) = n - 2
    BY <1>4, <1>5
  <2> HIDE DEF checked
  <2> QED
    BY <1>5, <2>1, <2>2
<1> HIDE DEF h, crc, checked, front, n
<1>7. tail \in Seq(Byte) /\ Len(tail) = n - 2
      /\ \A p \in 1 .. n - 2 :
           tail[p] = IF p <= n - 4 THEN payload[p] ELSE crc[p - (n - 4)]
  <2>1. tail \in Seq(Byte) /\ Len(tail) = Len(payload) + Len(crc)
    BY <1>1, Split
  <2>2. \A p \in 1 .. Len(payload) + Len(crc) :
          tail[p] = IF p <= Len(payload) THEN payload[p]
                    ELSE crc[p - Len(payload)]
    BY <1>1, BytesOfBoth
  <2>3. Len(payload) + Len(crc) = n - 2 /\ Len(payload) = n - 4
    BY <1>1, <1>4
  <2> HIDE DEF tail
  <2> QED
    BY <2>1, <2>2, <2>3
<1> HIDE DEF tail
<1>8. b \in Seq(Byte) /\ Len(b) = n + 3
      /\ \A p \in 1 .. n + 3 : b[p] = IF p <= 5 THEN h[p] ELSE tail[p - 5]
  <2>1. b \in Seq(Byte) /\ Len(b) = Len(h) + Len(tail)
    BY <1>2, <1>7, Split
  <2>2. \A p \in 1 .. Len(h) + Len(tail) :
          b[p] = IF p <= Len(h) THEN h[p] ELSE tail[p - Len(h)]
    BY <1>2, <1>7, BytesOfBoth
  <2>3. Len(h) + Len(tail) = n + 3
    BY <1>2, <1>4, <1>7
  <2> HIDE DEF b
  <2> QED
    BY <1>2, <2>1, <2>2, <2>3
<1>9. From(b, 6) = tail
  <2>1. From(b, Len(h) + 1) = tail
    BY <1>2, <1>7, Split
  <2> QED
    BY <1>2, <2>1
<1> HIDE DEF b
<1>10. \A p \in 1 .. n + 3 : At(b, p) = IF p <= 5 THEN h[p] ELSE tail[p - 5]
  BY <1>8 DEF At
<1>11. /\ At(b, 1) = CS_PACKET_UART_START_TOKEN /\ At(b, 2) = n % 256
       /\ At(b, 3) = n \div 256 /\ At(b, 5) = type
  BY <1>3, <1>4, <1>10
<1>12. GetLe16(b, 2) = n
  <2>1. GetLe16(b, 2) = At(b, 2) + 256 * At(b, 3)
    BY DEF GetLe16
  <2> QED
    BY <1>1, <1>11, <2>1
<1>13. [p \in 1 .. n - 2 |-> At(b, p + 3)] = checked
  <2>1. \A p \in 1 .. n - 2 : At(b, p + 3) = checked[p]
    <3> SUFFICES ASSUME NEW p \in 1 .. n - 2 PROVE At(b, p + 3) = checked[p]
      OBVIOUS
    <3>1. CASE p <= 2
      <4>1. At(b, p + 3) = h[p + 3]
        BY <1>4, <1>10, <3>1
      <4>2. p = 1 \/ p = 2
        BY <1>4, <3>1
      <4> QED
        BY <1>3, <1>5, <1>6, <3>1, <4>1, <4>2
    <3>2. CASE p > 2
      <4>1. At(b, p + 3) = tail[p - 2] /\ p - 2 \in 1 .. n - 4
        <5>1. p + 3 \in 1 .. n + 3 /\ ~ (p + 3 <= 5) /\ (p + 3) - 5 = p - 2
          BY <1>4, <3>2
        <5> QED
          BY <1>4, <1>10, <3>2, <5>1
      <4>2. tail[p - 2] = payload[p - 2]
        BY <1>4, <1>7, <4>1
      <4> QED
        BY <1>6, <1>4, <3>2, <4>1, <4>2
    <3> QED
      BY <1>4, <3>1, <3>2
  <2>2. checked = [p \in 1 .. Len(checked) |-> checked[p]]
    BY <1>1
  <2> QED
    BY <1>1, <2>1, <2>2
<1>14. GetLe16(b, 6 + (n - 4)) = Crc(checked)
  <2>1. At(b, n + 2) = crc[1] /\ At(b, n + 3) = crc[2]
    <3>1. At(b, n + 2) = tail[n - 3] /\ At(b, n + 3) = tail[n - 2]
      BY <1>4, <1>10
    <3>2. tail[n - 3] = crc[1] /\ tail[n - 2] = crc[2]
      BY <1>4, <1>7
    <3> QED
      BY <3>1, <3>2
  <2>2. GetLe16(b, n + 2) = At(b, n + 2) + 256 * At(b, n + 3)
    BY <1>4 DEF GetLe16
  <2>3. GetLe16(crc, 1) = crc[1] + 256 * crc[2]
    BY <1>1 DEF GetLe16, At
  <2>4. 6 + (n - 4) = n + 2
    BY <1>4
  <2> QED
    BY <1>1, <2>1, <2>2, <2>3, <2>4
<1> DEFINE loaded == loadUartPacket(b)
<1>15. /\ loaded.start_token = At(b, 1) /\ loaded.type = At(b, 5)
       /\ loaded.length = n /\ loaded.payload_len = n - 4
       /\ loaded.payload = tail
       /\ loaded.check_crc = Crc(checked)
       /\ loaded.received_crc = Crc(checked)
  BY <1>9, <1>12, <1>13, <1>14 DEF loadUartPacket
<1>16. \E c \in Seq(Byte) : loaded.payload = payload \o c
  BY <1>1, <1>15 DEF tail
<1>17. ~ loaded.faults
  <2>1. ~ CrcFaults(b)
    BY <1>4, <1>12 DEF CrcFaults
  <2>2. loaded.faults = CrcFaults(b)
    BY Zenon DEF loadUartPacket
  <2> QED
    BY <2>1, <2>2, Zenon
<1>18. w.bytes = b /\ b \in Seq(Byte) /\ w.length = Len(b)
  BY <1>1, <1>4, <1>8
<1>19. /\ loaded.start_token = CS_PACKET_UART_START_TOKEN
       /\ loaded.type = type /\ loaded.length + 3 = Len(b)
       /\ loaded.payload_len = Len(payload)
       /\ loaded.check_crc = loaded.received_crc
  BY <1>1, <1>4, <1>8, <1>11, <1>15
<1> HIDE DEF loaded, w
<1> QED
  BY <1>16, <1>17, <1>18, <1>19 DEF loaded, w

-----------------------------------------------------------------------------
(* What a computer module unwraps from its packet, going by the length     *)
(* field, is byte by byte what the cloud would get, and the checksum is    *)
(* right.                                                                  *)
THEOREM UnwrapsToSame ==
  ASSUME CrcIsWord, NEW data, NEW result,
         data.src_id \in Byte, data.result_code \in Byte,
         data.payload \in Seq(Byte), result.type \in Byte, result.id \in Word,
         Len(data.payload) + GenericSize + ResultSize + 4 \in Word
  PROVE  LET slot == Outgoing(data, result, TRUE)
             loaded == loadUartPacket(slot)
         IN  /\ ~ loaded.faults
             /\ loaded.start_token = CS_PACKET_UART_START_TOKEN
             /\ loaded.length + 3 = Len(slot)
             /\ SubSeq(loaded.payload, 1, loaded.payload_len)
                  = Outgoing(data, result, FALSE)
             /\ loaded.check_crc = loaded.received_crc
<1> DEFINE generic == Outgoing(data, result, FALSE)
           w == wrapUartPacket(CS_PACKET_TYPE_GENERIC, generic)
           slot == Outgoing(data, result, TRUE)
<1>1. generic \in Seq(Byte)
      /\ Len(generic) = GenericSize + Len(data.payload)
                          + (IF result.id > 0 THEN ResultSize ELSE DataSize)
  BY OutgoingLength
<1>2. Len(generic) + 4 \in Word
  <2>1. Len(data.payload) \in Nat
    OBVIOUS
  <2> HIDE DEF generic
  <2>2. Len(generic) + 4 \in Nat
        /\ Len(generic) + 4 <= Len(data.payload) + GenericSize + ResultSize + 4
    <3> DEFINE m == Len(data.payload)
               g == Len(generic)
    <3>1. m \in Nat /\ (g = 4 + m + 6 \/ g = 4 + m + 3)
      BY <1>1, <2>1 DEF GenericSize, ResultSize, DataSize
    <3> HIDE DEF m, g
    <3>2. g + 4 \in Nat /\ g + 4 <= m + 4 + 6 + 4
      BY <3>1
    <3> QED
      BY <3>2 DEF m, g, GenericSize, ResultSize
  <2> QED
    BY <2>2, WordDown
<1>3. slot = Taken(w)
  BY DEF Outgoing
<1>4. CS_PACKET_TYPE_GENERIC \in Byte
  BY DEF CS_PACKET_TYPE_GENERIC, Byte
<1> HIDE DEF generic, slot
<1> DEFINE loaded == loadUartPacket(w.bytes)
<1>5. /\ w.bytes \in Seq(Byte) /\ w.length = Len(w.bytes)
      /\ ~ loaded.faults
      /\ loaded.start_token = CS_PACKET_UART_START_TOKEN
      /\ loaded.length + 3 = Len(w.bytes)
      /\ loaded.payload_len = Len(generic)
      /\ \E crc \in Seq(Byte) : loaded.payload = generic \o crc
      /\ loaded.check_crc = loaded.received_crc
  BY <1>1, <1>2, <1>4, UartIntact
<1> HIDE DEF w
<1>6. slot = w.bytes
  <2>1. w.length \in Nat
    BY <1>5
  <2> QED
    BY <1>3, <1>5, <2>1, TakenBytes
<1>7. SubSeq(loaded.payload, 1, loaded.payload_len) = generic
  <2>1. PICK crc \in Seq(Byte) : loaded.payload = generic \o crc
    BY <1>5
  <2>2. SubSeq(generic \o crc, 1, Len(generic)) = generic
    BY <1>1
  <2> QED
    BY <1>5, <2>1, <2>2
<1> QED
  BY <1>5, <1>6, <1>7 DEF slot, generic

(* What is read is a number, whatever is read.                             *)
LEMMA WordRead ==
  ASSUME NEW b \in Seq(Byte), NEW p \in Nat
  PROVE  GetLe16(b, p) \in Nat
<1>1. \A q \in 1 .. Len(b) : b[q] \in Byte
  OBVIOUS
<1>2. \A q \in 1 .. Len(b) : b[q] \in Nat
  <2>1. \A v \in Byte : v \in Nat
    BY DEF Byte
  <2> QED
    BY <1>1, <2>1
<1>3. At(b, p) \in Nat /\ At(b, p + 1) \in Nat
  BY <1>2 DEF At
<1> QED
  BY <1>3 DEF GetLe16

(* What stands behind a packet is not seen in front of it.                 *)
LEMMA InFront ==
  ASSUME NEW g \in Seq(Byte), NEW c \in Seq(Byte), NEW k \in 1 .. Len(g) + 1
  PROVE  /\ From(g, k) \in Seq(Byte) /\ Len(From(g, k)) = Len(g) + 1 - k
         /\ From(g \o c, k) = From(g, k) \o c
         /\ \A p \in 1 .. Len(g) : At(g \o c, p) = At(g, p)
<1>1. From(g, k) \in Seq(Byte) /\ Len(From(g, k)) = Len(g) + 1 - k
  BY DEF From
<1>2. \A p \in 1 .. Len(g) : At(g \o c, p) = At(g, p)
  BY DEF At
<1>3. From(g \o c, k) = From(g, k) \o c
  <2> DEFINE x == From(g \o c, k)
             y == From(g, k) \o c
  <2>1. g \o c \in Seq(Byte) /\ Len(g \o c) = Len(g) + Len(c)
    OBVIOUS
  <2>2. x \in Seq(Byte) /\ Len(x) = Len(g) + Len(c) + 1 - k
        /\ \A p \in 1 .. Len(x) : x[p] = (g \o c)[p + k - 1]
    BY <2>1 DEF From
  <2>3. y \in Seq(Byte) /\ Len(y) = Len(g) + 1 - k + Len(c)
    BY <1>1
  <2>4. \A p \in 1 .. Len(x) : x[p] = y[p]
    <3> SUFFICES ASSUME NEW p \in 1 .. Len(x) PROVE x[p] = y[p]
      OBVIOUS
    <3>1. p + k - 1 \in 1 .. Len(g) + Len(c)
      BY <2>2
    <3>2. x[p] = IF p + k - 1 <= Len(g) THEN g[p + k - 1]
                 ELSE c[p + k - 1 - Len(g)]
      BY <2>2, <3>1, BytesOfBoth
    <3>3. y[p] = IF p <= Len(g) + 1 - k THEN From(g, k)[p]
                 ELSE c[p - (Len(g) + 1 - k)]
      BY <1>1, <2>2, BytesOfBoth
    <3>4. p <= Len(g) + 1 - k => From(g, k)[p] = g[p + k - 1]
      BY <2>2 DEF From
    <3>5. /\ p <= Len(g) + 1 - k <=> p + k - 1 <= Len(g)
          /\ p - (Len(g) + 1 - k) = p + k - 1 - Len(g)
      BY <2>2
    <3> QED
      BY <3>2, <3>3, <3>4, <3>5
  <2>5. Len(x) = Len(y)
    BY <2>2, <2>3
  <2> HIDE DEF x, y
  <2>6. x = y
    BY <2>2, <2>3, <2>4, <2>5
  <2> QED
    BY <2>6 DEF x, y
<1> QED
  BY <1>1, <1>2, <1>3

(* A control packet that comes from the computer module has the effect it  *)
(* would have from the cloud, if its own length is right.                  *)
THEOREM TakenAsFromCloud ==
  ASSUME CrcIsWord, NEW g \in Seq(Byte), Len(g) + 4 \in Word,
         Len(g) >= GenericSize + ControlSize,
         controlLength(From(g, 5)) <= Len(g) - GenericSize - ControlSize
  PROVE  LET line == wrapUartPacket(CS_PACKET_TYPE_GENERIC, g).bytes
         IN  /\ ~ loadUartPacket(line).faults
             /\ Generic(line, TRUE).type = Generic(g, FALSE).type
             /\ Command(line, TRUE) = Command(g, FALSE)
<1> DEFINE line == wrapUartPacket(CS_PACKET_TYPE_GENERIC, g).bytes
           loaded == loadUartPacket(line)
<1>1. CS_PACKET_TYPE_GENERIC \in Byte
  BY DEF CS_PACKET_TYPE_GENERIC, Byte
<1>2. ~ loaded.faults /\ \E c \in Seq(Byte) : loaded.payload = g \o c
  BY <1>1, UartIntact
<1>3. PICK c \in Seq(Byte) : loaded.payload = g \o c
  BY <1>2
<1> DEFINE b == g \o c
           ctrl == From(g, 5)
           bctrl == From(b, 5)
<1>4. Len(g) \in Nat /\ Len(g) >= 11
  BY DEF GenericSize, ControlSize
<1>5. \A p \in 1 .. Len(g) : At(b, p) = At(g, p)
  <2>1. 5 \in 1 .. Len(g) + 1
    BY <1>4
  <2> QED
    BY <2>1, InFront
<1>6. ctrl \in Seq(Byte) /\ Len(ctrl) = Len(g) - 4 /\ bctrl = ctrl \o c
  <2>1. 5 \in 1 .. Len(g) + 1
    BY <1>4
  <2>2. ctrl \in Seq(Byte) /\ Len(ctrl) = Len(g) + 1 - 5 /\ bctrl = ctrl \o c
    BY <2>1, InFront
  <2> QED
    BY <1>4, <2>2
<1> HIDE DEF ctrl, bctrl
<1>7. /\ \A p \in 1 .. Len(ctrl) : At(bctrl, p) = At(ctrl, p)
      /\ From(ctrl, 8) \in Seq(Byte) /\ Len(From(ctrl, 8)) = Len(ctrl) - 7
      /\ From(bctrl, 8) = From(ctrl, 8) \o c
  <2>1. 8 \in 1 .. Len(ctrl) + 1
    BY <1>4, <1>6
  <2> DEFINE f == From(ctrl, 8)
  <2>2. /\ \A p \in 1 .. Len(ctrl) : At(ctrl \o c, p) = At(ctrl, p)
        /\ f \in Seq(Byte) /\ Len(f) = Len(ctrl) + 1 - 8
        /\ From(ctrl \o c, 8) = f \o c
    BY <1>6, <2>1, InFront
  <2>3. Len(f) = Len(ctrl) - 7
    BY <1>4, <1>6, <2>2
  <2> HIDE DEF f
  <2>4. bctrl = ctrl \o c
    BY <1>6
  <2> QED
    BY <2>2, <2>3, <2>4 DEF f
<1>8. Generic(line, TRUE) = loadGenericPacket(b)
      /\ Generic(g, FALSE) = loadGenericPacket(g)
  BY <1>3 DEF Generic
<1>9. /\ loadGenericPacket(b).type = At(b, 2)
      /\ loadGenericPacket(g).type = At(g, 2)
      /\ loadGenericPacket(b).payload = bctrl
      /\ loadGenericPacket(g).payload = ctrl
  BY DEF loadGenericPacket, ctrl, bctrl
<1>10. /\ Generic(line, TRUE).type = Generic(g, FALSE).type
       /\ Generic(line, TRUE).payload = bctrl
       /\ Generic(g, FALSE).payload = ctrl
  <2>1. At(b, 2) = At(g, 2)
    BY <1>4, <1>5
  <2> HIDE DEF line, b
  <2> QED
    BY <1>8, <1>9, <2>1, Zenon
<1> DEFINE control == loadControlPacket(ctrl)
           bcontrol == loadControlPacket(bctrl)
<1>11. /\ At(bctrl, 1) = At(ctrl, 1) /\ At(bctrl, 2) = At(ctrl, 2)
       /\ At(bctrl, 3) = At(ctrl, 3)
       /\ GetLe16(bctrl, 4) = GetLe16(ctrl, 4)
       /\ GetLe16(bctrl, 6) = GetLe16(ctrl, 6)
  <2>1. /\ At(bctrl, 1) = At(ctrl, 1) /\ At(bctrl, 2) = At(ctrl, 2)
        /\ At(bctrl, 3) = At(ctrl, 3) /\ At(bctrl, 4) = At(ctrl, 4)
        /\ At(bctrl, 5) = At(ctrl, 5) /\ At(bctrl, 6) = At(ctrl, 6)
        /\ At(bctrl, 7) = At(ctrl, 7)
    BY <1>4, <1>6, <1>7
  <2> QED
    BY <2>1 DEF GetLe16
<1> DEFINE n == GetLe16(ctrl, 6)
<1>12. n <= Len(ctrl) - 7
  BY <1>4, <1>6 DEF controlLength, GenericSize, ControlSize, ctrl
<1>13. [p \in 1 .. n |-> At(From(bctrl, 8), p)]
         = [p \in 1 .. n |-> At(From(ctrl, 8), p)]
  <2>1. \A p \in 1 .. Len(From(ctrl, 8)) :
          At(From(bctrl, 8), p) = At(From(ctrl, 8), p)
    <3>1. 1 \in 1 .. Len(From(ctrl, 8)) + 1
      BY <1>4, <1>6, <1>7
    <3> DEFINE f == From(ctrl, 8)
    <3>2. f \in Seq(Byte) /\ 1 \in 1 .. Len(f) + 1
      BY <1>7, <3>1
    <3> HIDE DEF f
    <3>3. \A p \in 1 .. Len(f) : At(f \o c, p) = At(f, p)
      BY <3>2, InFront
    <3> QED
      BY <1>7, <3>3 DEF f
  <2>2. n \in Int
    BY <1>6, WordRead
  <2> DEFINE m == Len(From(ctrl, 8))
  <2>3. \A p \in 1 .. n : p \in 1 .. m
    <3>1. m = Len(g) - 11 /\ n <= m
      BY <1>4, <1>6, <1>7, <1>12
    <3> HIDE DEF m, n
    <3> QED
      BY <1>4, <2>2, <3>1
  <2> QED
    BY <2>1, <2>3
<1>14. /\ bcontrol.dest_id = control.dest_id
       /\ bcontrol.command_type = control.command_type
       /\ bcontrol.request_id = control.request_id
       /\ bcontrol.length = n /\ control.length = n
       /\ bcontrol.payload = From(bctrl, 8) /\ control.payload = From(ctrl, 8)
  BY <1>11 DEF loadControlPacket, controlLength
<1>15. Command(line, TRUE) = Command(g, FALSE)
  <2> HIDE DEF control, bcontrol, n, line
  <2>1. [p \in 1 .. bcontrol.length |-> At(bcontrol.payload, p)]
          = [p \in 1 .. control.length |-> At(control.payload, p)]
    BY <1>13, <1>14
  <2>2. /\ loadControlPacket(Generic(line, TRUE).payload) = bcontrol
        /\ loadControlPacket(Generic(g, FALSE).payload) = control
    BY <1>10 DEF control, bcontrol
  <2> QED
    BY <1>14, <2>1, <2>2 DEF Command
<1>16. ~ loadUartPacket(line).faults
  BY <1>2
<1> HIDE DEF line, b, ctrl, bctrl, control, bcontrol
<1> QED
  BY <1>10, <1>15, <1>16 DEF line

-----------------------------------------------------------------------------
(* Packets for the application. *)

(* The application finds in a data packet its source and its payload.      *)
LEMMA DataIntact ==
  ASSUME NEW src \in Byte, NEW payload \in Payloads
  PROVE  LET w == wrapDataPacket(src, payload)
         IN  /\ w.bytes \in Seq(Byte)
             /\ w.length = DataSize + Len(payload)
             /\ w.length = Len(w.bytes)
             /\ At(w.bytes, 1) = src
             /\ GetLe16(w.bytes, 2) = Len(payload)
             /\ From(w.bytes, DataSize + 1) = payload
<1> DEFINE n == Len(payload)
           h == <<src, n % 256, n \div 256>>
           w == wrapDataPacket(src, payload)
           b == h \o payload
<1>1. /\ n % 256 \in Byte /\ n \div 256 \in Byte
      /\ (n % 256) + 256 * (n \div 256) = n
      /\ PutLe16(n) = <<n % 256, n \div 256>>
  BY WordBytes DEF Payloads
<1>2. payload \in Seq(Byte) /\ n \in Nat /\ h \in Seq(Byte) /\ Len(h) = 3
      /\ h[1] = src /\ h[2] = n % 256 /\ h[3] = n \div 256
  BY <1>1 DEF Payloads
<1>3. w.bytes = b /\ w.length = 3 + n
  BY <1>1, <1>2 DEF wrapDataPacket, dataLength, DataSize
<1> HIDE DEF h, n
<1>4. /\ b \in Seq(Byte) /\ Len(b) = Len(h) + Len(payload)
      /\ \A p \in 1 .. Len(h) : At(b, p) = h[p]
      /\ From(b, Len(h) + 1) = payload
  <2>1. h \in Seq(Byte) /\ payload \in Seq(Byte)
    BY <1>2
  <2> QED
    BY <2>1, Split, Zenon
<1>5. /\ Len(b) = 3 + n /\ From(b, 4) = payload
      /\ At(b, 1) = src /\ At(b, 2) = n % 256 /\ At(b, 3) = n \div 256
  BY <1>2, <1>4 DEF n
<1>6. GetLe16(b, 2) = n
  <2>1. GetLe16(b, 2) = At(b, 2) + 256 * At(b, 3)
    BY DEF GetLe16
  <2> QED
    BY <1>1, <1>5, <2>1
<1> HIDE DEF b
<1> QED
  BY <1>3, <1>4, <1>5, <1>6 DEF n, DataSize

(* And in a result packet the code and the request it answers.             *)
LEMMA ResultIntact ==
  ASSUME NEW type \in Byte, NEW code \in Byte, NEW id \in Word,
         NEW payload \in Payloads
  PROVE  LET w == wrapResultPacket(type, code, id, payload)
         IN  /\ w.bytes \in Seq(Byte)
             /\ w.length = ResultSize + Len(payload)
             /\ w.length = Len(w.bytes)
             /\ At(w.bytes, 1) = type
             /\ At(w.bytes, 2) = code
             /\ GetLe16(w.bytes, 3) = id
             /\ GetLe16(w.bytes, 5) = Len(payload)
             /\ From(w.bytes, ResultSize + 1) = payload
<1> DEFINE n == Len(payload)
           h == <<type, code, id % 256, id \div 256, n % 256, n \div 256>>
           w == wrapResultPacket(type, code, id, payload)
           b == h \o payload
<1>1. /\ n % 256 \in Byte /\ n \div 256 \in Byte
      /\ (n % 256) + 256 * (n \div 256) = n
      /\ PutLe16(n) = <<n % 256, n \div 256>>
  BY WordBytes DEF Payloads
<1>2. /\ id % 256 \in Byte /\ id \div 256 \in Byte
      /\ (id % 256) + 256 * (id \div 256) = id
      /\ PutLe16(id) = <<id % 256, id \div 256>>
  BY WordBytes
<1>3. payload \in Seq(Byte) /\ n \in Nat /\ h \in Seq(Byte) /\ Len(h) = 6
      /\ h[1] = type /\ h[2] = code /\ h[3] = id % 256 /\ h[4] = id \div 256
      /\ h[5] = n % 256 /\ h[6] = n \div 256
  BY <1>1, <1>2 DEF Payloads
<1>4. <<type, code>> \o IdBytes(id) \o PutLe16(n) = h
  <2> DEFINE x == <<type, code>> \o <<id % 256, id \div 256>>
                    \o <<n % 256, n \div 256>>
  <2> HIDE DEF n
  <2>1. x \in Seq(Byte) /\ Len(x) = 6
    BY <1>1, <1>2
  <2>2. /\ x[1] = type /\ x[2] = code /\ x[3] = id % 256 /\ x[4] = id \div 256
        /\ x[5] = n % 256 /\ x[6] = n \div 256
    BY <1>1, <1>2
  <2> HIDE DEF x, h
  <2>3. \A p \in 1 .. 6 : x[p] = h[p]
    BY <1>3, <2>2
  <2>4. x = h
    BY <1>3, <2>1, <2>3
  <2> QED
    BY <1>1, <1>2, <2>4 DEF x, IdBytes
<1>5. w.bytes = b /\ w.length = 6 + n
  BY <1>4 DEF wrapResultPacket, ResultSize
<1> HIDE DEF h, n
<1>6. /\ b \in Seq(Byte) /\ Len(b) = Len(h) + Len(payload)
      /\ \A p \in 1 .. Len(h) : At(b, p) = h[p]
      /\ From(b, Len(h) + 1) = payload
  <2>1. h \in Seq(Byte) /\ payload \in Seq(Byte)
    BY <1>3
  <2> QED
    BY <2>1, Split, Zenon
<1>7. /\ Len(b) = 6 + n /\ From(b, 7) = payload
      /\ At(b, 1) = type /\ At(b, 2) = code
      /\ At(b, 3) = id % 256 /\ At(b, 4) = id \div 256
      /\ At(b, 5) = n % 256 /\ At(b, 6) = n \div 256
  BY <1>3, <1>6 DEF n
<1>8. GetLe16(b, 3) = id /\ GetLe16(b, 5) = n
  <2>1. /\ GetLe16(b, 3) = At(b, 3) + 256 * At(b, 4)
        /\ GetLe16(b, 5) = At(b, 5) + 256 * At(b, 6)
    BY DEF GetLe16
  <2> QED
    BY <1>1, <1>2, <1>7, <2>1
<1>9. /\ w.bytes \in Seq(Byte) /\ w.length = ResultSize + n
      /\ w.length = Len(w.bytes)
  BY <1>5, <1>6, <1>7 DEF ResultSize
<1>10. /\ At(w.bytes, 1) = type /\ At(w.bytes, 2) = code
       /\ GetLe16(w.bytes, 3) = id /\ GetLe16(w.bytes, 5) = n
       /\ From(w.bytes, ResultSize + 1) = payload
  <2> HIDE DEF b, w
  <2>1. From(b, 7) = From(b, ResultSize + 1)
    BY DEF ResultSize
  <2> QED
    BY <1>5, <1>7, <1>8, <2>1
<1> HIDE DEF w
<1> QED
  BY <1>9, <1>10 DEF n, w

(* What the application finds, where the structures say, in the packet     *)
(* with the answer to a request: the result of it,                         *)
FoundResult(packet, data, result) ==
  LET payload == From(packet, GenericSize + 1)
  IN  /\ Field(packet, cs_router_generic_packet.type) = CS_PACKET_TYPE_RESULT
      /\ Field(packet, cs_router_generic_packet.length) = Len(payload)
      /\ Field(payload, cs_router_result_packet.command_type) = result.type
      /\ Field(payload, cs_router_result_packet.result_code)
           = data.result_code
      /\ Field(payload, cs_router_result_packet.request_id) = result.id
      /\ Field(payload, cs_router_result_packet.length) = Len(data.payload)
      /\ From(payload, ResultSize + 1) = data.payload

(* and in any other packet data and its source.                            *)
FoundData(packet, data) ==
  LET payload == From(packet, GenericSize + 1)
  IN  /\ Field(packet, cs_router_generic_packet.type) = CS_PACKET_TYPE_DATA
      /\ Field(packet, cs_router_generic_packet.length) = Len(payload)
      /\ Field(payload, cs_router_data_packet.source_id) = data.src_id
      /\ Field(payload, cs_router_data_packet.length) = Len(data.payload)
      /\ From(payload, DataSize + 1) = data.payload

(* The application finds in a packet for the cloud what the peripheral     *)
(* answered and to which request, as long as the lengths fit in their      *)
(* fields.                                                                 *)
THEOREM OutgoingIntact ==
  ASSUME NEW data, NEW result,
         data.src_id \in Byte, data.result_code \in Byte,
         data.payload \in Seq(Byte), result.type \in Byte, result.id \in Word,
         Len(data.payload) + ResultSize \in Word
  PROVE  LET packet == Outgoing(data, result, FALSE)
         IN  IF result.id > 0 THEN FoundResult(packet, data, result)
             ELSE FoundData(packet, data)
<1> DEFINE inner == Inner(data, result)
           type == IF result.id > 0 THEN CS_PACKET_TYPE_RESULT
                   ELSE CS_PACKET_TYPE_DATA
           generic == wrapGenericPacket(type, Taken(inner))
           loaded == loadGenericPacket(generic.bytes)
           packet == Outgoing(data, result, FALSE)
           n == Len(data.payload)
<1>1. n \in Nat /\ data.payload \in Payloads
  <2>1. n \in Nat
    OBVIOUS
  <2>2. n <= n + ResultSize /\ n + ResultSize \in Word
    BY <2>1 DEF ResultSize
  <2> QED
    BY <2>1, <2>2, WordDown DEF Payloads
<1>2. /\ inner.bytes \in Seq(Byte) /\ inner.length = Len(inner.bytes)
      /\ inner.length \in Nat /\ inner.length <= n + ResultSize
  <2>1. CASE result.id > 0
    <3>1. inner = wrapResultPacket(result.type, data.result_code, result.id,
                                   data.payload)
      BY <2>1 DEF Inner
    <3>2. /\ inner.bytes \in Seq(Byte) /\ inner.length = Len(inner.bytes)
          /\ inner.length = ResultSize + n
      BY <1>1, <3>1, ResultIntact
    <3> HIDE DEF inner, n
    <3> QED
      BY <1>1, <3>2 DEF ResultSize
  <2>2. CASE ~ (result.id > 0)
    <3>1. inner = wrapDataPacket(data.src_id, data.payload)
      BY <2>2 DEF Inner
    <3>2. /\ inner.bytes \in Seq(Byte) /\ inner.length = Len(inner.bytes)
          /\ inner.length = DataSize + n
      BY <1>1, <3>1, DataIntact
    <3> HIDE DEF inner, n
    <3> QED
      BY <1>1, <3>2 DEF DataSize, ResultSize
  <2> QED
    BY <2>1, <2>2
<1>3. Taken(inner) = inner.bytes
  <2> HIDE DEF inner
  <2> QED
    BY <1>2, TakenBytes
<1>4. inner.bytes \in Payloads
  <2> HIDE DEF inner, n
  <2>1. n + ResultSize \in Word
    BY DEF n
  <2>2. inner.length \in Word
    BY <1>2, <2>1, WordDown
  <2> QED
    BY <1>2, <2>2 DEF Payloads
<1>5. /\ generic.bytes \in Seq(Byte) /\ generic.length = Len(generic.bytes)
      /\ loaded.type = type /\ loaded.length = Len(inner.bytes)
      /\ loaded.payload = inner.bytes
  <2>1. type \in Byte
    BY DEF CS_PACKET_TYPE_RESULT, CS_PACKET_TYPE_DATA, Byte
  <2> HIDE DEF type, inner
  <2> QED
    BY <1>3, <1>4, <2>1, GenericIntact
<1>6. packet = generic.bytes
  <2>1. packet = Taken(generic)
    BY DEF Outgoing
  <2> HIDE DEF generic, packet
  <2>2. generic.length \in Nat
    BY <1>5
  <2> QED
    BY <1>5, <2>1, <2>2, TakenBytes
<1>7. /\ At(packet, 2) = type /\ GetLe16(packet, 3) = Len(inner.bytes)
      /\ From(packet, 5) = inner.bytes
  <2> HIDE DEF generic, packet, inner, type
  <2> QED
    BY <1>5, <1>6 DEF loadGenericPacket
<1> HIDE DEF packet
<1>8. /\ Field(packet, cs_router_generic_packet.type) = type
      /\ Field(packet, cs_router_generic_packet.length) = Len(inner.bytes)
      /\ From(packet, GenericSize + 1) = inner.bytes
  <2> HIDE DEF inner, type
  <2> QED
    BY <1>7 DEF Field, cs_router_generic_packet, GenericSize
<1>9. CASE result.id > 0
  <2>1. inner = wrapResultPacket(result.type, data.result_code, result.id,
                                 data.payload)
    BY <1>9 DEF Inner
  <2>2. /\ At(inner.bytes, 1) = result.type
        /\ At(inner.bytes, 2) = data.result_code
        /\ GetLe16(inner.bytes, 3) = result.id
        /\ GetLe16(inner.bytes, 5) = Len(data.payload)
        /\ From(inner.bytes, ResultSize + 1) = data.payload
    BY <1>1, <2>1, ResultIntact
  <2> HIDE DEF inner
  <2>3. FoundResult(packet, data, result)
    BY <1>8, <1>9, <2>2 DEF FoundResult, Field, cs_router_result_packet
  <2> QED
    BY <1>9, <2>3 DEF packet
<1>10. CASE ~ (result.id > 0)
  <2>1. inner = wrapDataPacket(data.src_id, data.payload)
    BY <1>10 DEF Inner
  <2>2. /\ At(inner.bytes, 1) = data.src_id
        /\ GetLe16(inner.bytes, 2) = Len(data.payload)
        /\ From(inner.bytes, DataSize + 1) = data.payload
    BY <1>1, <2>1, DataIntact
  <2> HIDE DEF inner
  <2>3. FoundData(packet, data)
    BY <1>8, <1>10, <2>2 DEF FoundData, Field, cs_router_data_packet
  <2> QED
    BY <1>10, <2>3 DEF packet
<1> QED
  BY <1>9, <1>10

=============================================================================
