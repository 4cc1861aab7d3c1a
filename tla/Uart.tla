--------------------------------- MODULE Uart ---------------------------------
(***************************************************************************)
(* One UART instance: the interrupt handler, the message queue it fills,   *)
(* the thread that empties it, and the callback that transmits.  Reception *)
(* and transmission share one buffer with one counter.                     *)
(*                                                                         *)
(* A pending interrupt is taken, and its handler runs to the end, before   *)
(* any thread goes on, so one interrupt is one step.  The callback copies  *)
(* the message with interrupts locked and then switches the two            *)
(* interrupts, so it is three steps.                                       *)
(*                                                                         *)
(* Byte <<"peer", k, 0>> is the k-th byte of what the peer sends, and      *)
(* <<"own", m, p>> is the p-th byte of the m-th message to transmit.       *)
(***************************************************************************)
EXTENDS Integers, SequencesExt

CONSTANTS
  BufferSize,     \* CS_UART_BUFFER_SIZE
  PacketSize,     \* CS_PACKET_BUF_SIZE
  QueueSize,      \* CS_UART_BUFFER_QUEUE_SIZE
  RxFifoSize,     \* bytes the receiver holds; interrupts are never that late
  TxFifoSize,     \* bytes the transmitter holds
  Traffics        \* what may go over the line, see Traffic

Kind == {"char", "start", "nul", "eol"}

(* stream  the kinds of the bytes the peer sends, in order                 *)
(* lengths the lengths of the messages to transmit, in order               *)
(* turns   router and peer take turns: a message, then a line              *)
(* stops   the packet handler may report that its thread is gone           *)
Traffic == [stream : Seq(Kind), lengths : Seq(0 .. PacketSize),
            turns : BOOLEAN, stops : BOOLEAN]

ASSUME ConstantsAssumption ==
  /\ BufferSize \in Nat
  /\ PacketSize \in 1 .. BufferSize - 1
  /\ QueueSize \in Nat \ {0}
  /\ RxFifoSize \in Nat \ {0}
  /\ TxFifoSize \in Nat \ {0}
  /\ Traffics \subseteq Traffic

VARIABLES
  traffic,    \* what goes over the line in this behaviour
  heard,      \* number of bytes the peer has sent
  rxFifo,     \* hardware: received bytes not yet read
  txFifo,     \* hardware: bytes to put on the wire
  rxIrq,      \* the receive interrupt is enabled
  txIrq,      \* the transmit interrupt is enabled
  buf,        \* _uart_buf
  ctr,        \* _uart_buf_ctr
  ptr,        \* _uart_buf_ptr, as an index into _uart_buf
  uartq,      \* _uart_msgq
  alive,      \* the thread runs
  given,      \* number of messages given to the callback
  sending,    \* where the callback is
  wire,       \* history: bytes transmitted
  handled     \* history: packets the thread made

bufferVars == <<buf, ctr, ptr>>
threadVars == <<alive, handled>>
sendVars == <<given, sending>>
vars == <<traffic, heard, rxFifo, txFifo, rxIrq, txIrq, bufferVars, uartq, threadVars,
          sendVars, wire>>

Stream == traffic.stream

MessageLengths == traffic.lengths

Turns == traffic.turns

NoByte == <<"own", 0, 0>>  \* what was in memory before, or lies behind buf

Byte == {"peer"} \X (1 .. Len(Stream)) \X {0}
          \cup {"own"} \X (1 .. Len(MessageLengths)) \X (1 .. PacketSize)
          \cup {NoByte}

KindOf(b) == IF b[1] = "peer" THEN Stream[b[2]] ELSE "char"

Message(m) == [p \in 1 .. MessageLengths[m] |-> <<"own", m, p>>]

-----------------------------------------------------------------------------
(* The peer and the wire. *)

LinesHeard == Cardinality({k \in 1 .. heard : Stream[k] = "eol"})

(* A peer that waits for its turn answers each message with one line, and  *)
(* takes longer than the interrupt that ends the transmission.             *)
PeerMaySpeak == Turns => LinesHeard < given /\ sending = "idle" /\ ~ txIrq

PeerByte ==
  /\ heard < Len(Stream)
  /\ PeerMaySpeak
  /\ Len(rxFifo) < RxFifoSize
  /\ heard' = heard + 1
  /\ rxFifo' = Append(rxFifo, <<"peer", heard + 1, 0>>)
  /\ UNCHANGED <<txFifo, rxIrq, txIrq, bufferVars, uartq, threadVars, sendVars,
                 wire>>

(* A byte leaves the transmitter. *)
ShiftOut ==
  /\ txFifo # <<>>
  /\ wire' = Append(wire, Head(txFifo))
  /\ txFifo' = Tail(txFifo)
  /\ UNCHANGED <<heard, rxFifo, rxIrq, txIrq, bufferVars, uartq, threadVars,
                 sendVars>>

-----------------------------------------------------------------------------
(* handleUartInterrupt. *)

RxReady == rxFifo # <<>>

TxReady == txIrq /\ Len(txFifo) < TxFifoSize

(* Mutant: the whole buffer is filled. *)
MutantFullLate == ctr = BufferSize

(* One byte is kept for the terminator. *)
Full == ctr = BufferSize - 1

(* A line end, or a byte that finds the buffer full and is lost.           *)
RxEnds == RxReady /\ (KindOf(Head(rxFifo)) = "eol" \/ Full)

RxStores == RxReady /\ ~ RxEnds

(* The terminated string in the buffer. *)
Line == [p \in 1 .. ctr |-> buf[p - 1]]

(* Mutant: a new line is read before those that wait. *)
MutantQueueFront ==
  IF Len(uartq) < QueueSize THEN <<Line>> \o uartq ELSE <<>>

(* k_msgq_put without waiting.  A full queue is purged, and the line that  *)
(* found it full is lost with it.                                          *)
QueueAfterLine ==
  IF Len(uartq) < QueueSize THEN Append(uartq, Line) ELSE <<>>

BufAfterRx == IF RxStores THEN [buf EXCEPT ![ctr] = Head(rxFifo)] ELSE buf

CtrAfterRx == IF RxStores THEN ctr + 1 ELSE IF RxEnds THEN 0 ELSE ctr

(* The receive part reads one byte. *)
Receive ==
  /\ rxFifo' = IF RxReady THEN Tail(rxFifo) ELSE rxFifo
  /\ uartq' = IF RxEnds /\ ctr > 0 THEN QueueAfterLine ELSE uartq
  /\ buf' = BufAfterRx

(* Bytes p, p + 1, ... of the buffer; behind its end lies other memory.    *)
Bytes(p, n) ==
  [j \in 1 .. n |-> IF p + j - 1 < BufferSize THEN BufAfterRx[p + j - 1]
                    ELSE NoByte]

(* Mutant: the pointer stays at the start of the message. *)
MutantPointerStays(n) == ptr

PointerAfter(n) == ptr + n

(* Mutant: the receiver stays off after a transmission. *)
MutantReceiverStaysOff == rxIrq

ReceiverAfterTx == TRUE

(* The transmit part fills the transmitter with what the counter says, and *)
(* listens again when everything is out.                                   *)
Transmit ==
  \/ /\ ~ TxReady
     /\ ctr' = CtrAfterRx
     /\ UNCHANGED <<txFifo, ptr, txIrq, rxIrq>>
  \/ /\ TxReady
     /\ LET room == TxFifoSize - Len(txFifo)
            n == IF CtrAfterRx < room THEN CtrAfterRx ELSE room
        IN  /\ txFifo' = txFifo \o Bytes(ptr, n)
            /\ ctr' = CtrAfterRx - n
            /\ ptr' = PointerAfter(n)
     /\ \/ txFifo' = <<>> /\ txIrq' = FALSE /\ rxIrq' = ReceiverAfterTx
        \/ txFifo' # <<>> /\ UNCHANGED <<txIrq, rxIrq>>

(* An enabled interrupt is pending.  The handler looks at both causes,     *)
(* whichever it was called for.                                            *)
Pending == (rxIrq /\ RxReady) \/ TxReady

Interrupt ==
  /\ Pending
  /\ Receive
  /\ Transmit
  /\ UNCHANGED <<heard, threadVars, sendVars, wire>>

-----------------------------------------------------------------------------
(* handleUartMessages: one turn of the thread. *)

(* The bytes in front of the first zero: strlen.                           *)
Text(line) ==
  SubSeq(line, 1, SelectInSeq(line \o <<NoByte>>,
                    LAMBDA b : b = NoByte \/ KindOf(b) = "nul") - 1)

(* Mutant: the last byte that fits is cut off. *)
MutantCutShort(s) == SubSeq(s, 1, Min({Len(s), PacketSize - 1}))

Cut(s) == SubSeq(s, 1, Min({Len(s), PacketSize}))

(* A packet that begins with the start token comes from the computer       *)
(* module and is incoming; everything else is this instance's own data.    *)
PacketOf(line) ==
  [type |-> IF KindOf(line[1]) = "start" THEN "incoming" ELSE "outgoing",
   data |-> Cut(Text(line))]

HandleUartMessages ==
  /\ alive
  /\ ~ Pending
  /\ uartq # <<>>
  /\ uartq' = Tail(uartq)
  /\ handled' = Append(handled, PacketOf(Head(uartq)))
  /\ \/ UNCHANGED alive
     \/ traffic.stops /\ alive' = FALSE
  /\ UNCHANGED <<heard, rxFifo, txFifo, rxIrq, txIrq, bufferVars, sendVars,
                 wire>>

-----------------------------------------------------------------------------
(* sendUartMessage. *)

(* A router that takes turns sends when the line it waited for is read.    *)
RouterMaySpeak == Turns => LinesHeard = given /\ rxFifo = <<>>

(* memcpy, counter and pointer, under the spin lock. *)
SendCopy ==
  /\ sending = "idle"
  /\ ~ Pending
  /\ given < Len(MessageLengths)
  /\ RouterMaySpeak
  /\ given' = given + 1
  /\ buf' = [p \in 0 .. BufferSize - 1 |->
               IF p < MessageLengths[given + 1] THEN Message(given + 1)[p + 1]
               ELSE buf[p]]
  /\ ctr' = MessageLengths[given + 1]
  /\ ptr' = 0
  /\ sending' = "copied"
  /\ UNCHANGED <<heard, rxFifo, txFifo, rxIrq, txIrq, uartq, threadVars, wire>>

SendDisableRx ==
  /\ sending = "copied"
  /\ ~ Pending
  /\ rxIrq' = FALSE
  /\ sending' = "deaf"
  /\ UNCHANGED <<heard, rxFifo, txFifo, txIrq, bufferVars, uartq, threadVars,
                 given, wire>>

SendEnableTx ==
  /\ sending = "deaf"
  /\ ~ Pending
  /\ txIrq' = TRUE
  /\ sending' = "idle"
  /\ UNCHANGED <<heard, rxFifo, txFifo, rxIrq, bufferVars, uartq, threadVars,
                 given, wire>>

-----------------------------------------------------------------------------
(* init has configured the device and enabled the receive interrupt. *)
Init ==
  /\ traffic \in Traffics
  /\ heard = 0
  /\ rxFifo = <<>>
  /\ txFifo = <<>>
  /\ rxIrq = TRUE
  /\ txIrq = FALSE
  /\ buf = [p \in 0 .. BufferSize - 1 |-> NoByte]
  /\ ctr = 0
  /\ ptr = 0
  /\ uartq = <<>>
  /\ alive = TRUE
  /\ given = 0
  /\ sending = "idle"
  /\ wire = <<>>
  /\ handled = <<>>

Send == SendCopy \/ SendDisableRx \/ SendEnableTx

Step == PeerByte \/ ShiftOut \/ Interrupt \/ HandleUartMessages \/ Send

Next == Step /\ UNCHANGED traffic

Spec == Init /\ [][Next]_vars

(* Bytes leave the transmitter, pending interrupts are served, and the     *)
(* callback goes on.                                                       *)
Fairness ==
  /\ WF_vars(ShiftOut /\ UNCHANGED traffic)
  /\ WF_vars(Interrupt /\ UNCHANGED traffic)
  /\ WF_vars((SendDisableRx \/ SendEnableTx) /\ UNCHANGED traffic)

FairSpec == Spec /\ Fairness

-----------------------------------------------------------------------------
TypeOK ==
  /\ traffic \in Traffic
  /\ heard \in 0 .. Len(Stream)
  /\ rxFifo \in Seq(Byte)
  /\ txFifo \in Seq(Byte)
  /\ rxIrq \in BOOLEAN
  /\ txIrq \in BOOLEAN
  /\ buf \in [0 .. BufferSize - 1 -> Byte]
  /\ ctr \in 0 .. BufferSize - 1
  /\ ptr \in Nat
  /\ uartq \in Seq(Seq(Byte))
  /\ alive \in BOOLEAN
  /\ given \in 0 .. Len(MessageLengths)
  /\ sending \in {"idle", "copied", "deaf"}
  /\ wire \in Seq(Byte)
  /\ handled \in Seq([type : {"incoming", "outgoing"}, data : Seq(Byte)])

(***************************************************************************)
(* Reception.                                                              *)
(***************************************************************************)

(* Position of the k-th byte's line: the bytes of Stream between two ends. *)
LineAt(k) ==
  {j \in 1 .. Len(Stream) :
     \A l \in Min({j, k}) .. Max({j, k}) : Stream[l] # "eol"}

(* What the thread makes packets of is what the peer sent: the bytes of a  *)
(* packet are consecutive bytes of one line, and packets keep their order, *)
(* whatever was purged, cut or lost in between.                            *)
ReceivedInOrder ==
  /\ \A h \in Range(handled) : \A a \in 1 .. Len(h.data) :
        /\ h.data[a][1] = "peer"
        /\ h.data[a][2] = h.data[1][2] + a - 1
        /\ h.data[a][2] \in LineAt(h.data[1][2])
  /\ \A a, b \in 1 .. Len(handled) :
        a < b /\ handled[a].data # <<>> /\ handled[b].data # <<>>
          => Last(handled[a].data)[2] < handled[b].data[1][2]

(* A packet made of a line that fits is the whole line. *)
LinesWhole ==
  \A h \in Range(handled) :
    h.data # <<>> =>
      LET line == LineAt(h.data[1][2])
      IN  Cardinality(line) <= PacketSize /\ "nul" \notin {Stream[j] : j \in line}
            => Len(h.data) = Cardinality(line)

(* A packet from the computer module is handed on whole, the bytes of its  *)
(* binary header included.                                                 *)
IncomingWhole ==
  \A h \in Range(handled) :
    h.type = "incoming" =>
      LET line == LineAt(h.data[1][2])
      IN  Cardinality(line) <= PacketSize => Len(h.data) = Cardinality(line)

(* The line that finds the queue full is in the queue afterwards.          *)
NewestKept ==
  [][Interrupt /\ RxEnds /\ ctr > 0 => uartq' # <<>> /\ Last(uartq') = Line]_vars

(***************************************************************************)
(* Transmission.                                                           *)
(***************************************************************************)

(* The wire carries the messages one after the other, each whole and       *)
(* uncorrupted.                                                            *)
SentIntact ==
  IsPrefix(wire, FlattenSeq([m \in 1 .. given |-> Message(m)]))

(* Every message is on the wire some time, and the receiver is on again,   *)
(* if router and peer take turns.                                          *)
SendCompletes ==
  \A m \in 1 .. Max({Len(t.lengths) : t \in Traffics}) :
    (Turns /\ given = m)
      ~> /\ Len(wire) >= SumFunctionOnSet(MessageLengths, 1 .. given)
         /\ rxIrq
==============================================================================
