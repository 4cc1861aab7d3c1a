------------------------------ MODULE WebSocket ------------------------------
(***************************************************************************)
(* The websocket to the cloud: its set-up by main, the thread that puts    *)
(* received packets together, and the callback that sends from the slot of *)
(* the cloud.  The server, the TCP connection and the websocket library    *)
(* are external.                                                           *)
(*                                                                         *)
(* The receive thread is cooperative: it gives the processor away only     *)
(* where it sleeps or waits.  Each call of websocket_recv_msg is a step,   *)
(* since bytes arrive in between.                                          *)
(***************************************************************************)
EXTENDS PacketCodec

CONSTANTS
  Commands,      \* the control packets the application sends, in order
  Answers,       \* what the slot of the cloud is filled with, in order
  BufferSize,    \* CS_PACKET_BUF_SIZE
  ByDomain,      \* init is given a domain name instead of an address
  EarlyAnswers,  \* the slot may be filled while main still connects
  CloudCloses,   \* the server may close the connection
  MaxPackets     \* bound: no packet is dispatched beyond this one

Request == [src_id : Byte, dest_id : Byte, command_type : Byte,
            request_id : Word, payload : Seq(Byte)]

Answer == [src_id : Byte, result_code : Byte, payload : Seq(Byte),
           request : [type : Byte, id : Word]]

ASSUME ConstantsAssumption ==
  /\ Commands \in Seq(Request)
  /\ Answers \in Seq(Answer)
  /\ BufferSize \in Nat \ {0}
  /\ {ByDomain, EarlyAnswers, CloudCloses} \subseteq BOOLEAN
  /\ MaxPackets \in Nat

VARIABLES
  main,        \* where main is in the set-up
  initialized, \* _initialized
  addressed,   \* _addr_len is the length of the address
  sockId,      \* _sock_id is an open socket
  websockId,   \* _websock_id is an open websocket
  event,       \* _ws_evts: "none" before k_event_init, "clear", "posted"
  thread,      \* where the receive thread is
  more,        \* remaining_bytes > 0
  recvBuf,     \* the first total_read bytes of _ws_recv_buf
  frame,       \* the frame the library is in
  taken,       \* and the number of its bytes already received
  arrived,     \* bytes of each frame that have arrived
  server,      \* the server's end of the connection
  dispatched,  \* history: packets given to the packet handler
  answer,      \* number of answers put into the slot
  slot,        \* _handlers[cloud].msg
  queued,      \* the work item of the slot is in the work queue
  work,        \* where its callback is
  toCloud      \* history: messages sent, with the number of their answer

setupVars == <<main, initialized, addressed, sockId, websockId, event>>
receiveVars == <<thread, more, recvBuf, frame, taken, dispatched>>
sendVars == <<answer, slot, queued, work, toCloud>>
vars == <<setupVars, receiveVars, arrived, server, sendVars>>

(* The application writes its packets as the structures say. *)
GenericPacket(type, payload) ==
  <<CS_PROTOCOL_VERSION, type>> \o PutLe16(Len(payload)) \o payload

ControlPacket(c) ==
  <<c.command_type, c.src_id, c.dest_id>> \o PutLe16(c.request_id)
    \o PutLe16(Len(c.payload)) \o c.payload

Frames ==
  [k \in 1 .. Len(Commands) |->
     GenericPacket(CS_PACKET_TYPE_CONTROL, ControlPacket(Commands[k]))]

-----------------------------------------------------------------------------
(* Socket::init.  A domain name is looked up first, and the length of what *)
(* was found is not kept.                                                  *)
SocketInit ==
  /\ main = "init"
  /\ main' = "connect"
  /\ \/ /\ initialized' = TRUE
        /\ sockId' = TRUE
        /\ addressed' = ~ ByDomain
     \/ /\ UNCHANGED <<initialized, sockId>>
        /\ addressed' \in {addressed, ~ ByDomain}
  /\ UNCHANGED <<websockId, event, receiveVars, arrived, server, sendVars>>

(* connect without a socket. *)
NotInitialized ==
  /\ main = "connect"
  /\ ~ initialized
  /\ main' = "failed"
  /\ UNCHANGED <<initialized, addressed, sockId, websockId, event, receiveVars,
                 arrived, server, sendVars>>

(* The TCP connection. *)
SocketConnect ==
  /\ main = "connect"
  /\ initialized
  /\ event' = "clear"
  /\ \/ /\ addressed
        /\ main' = "handshake"
        /\ server' = "up"
     \/ /\ main' = "failed"
        /\ UNCHANGED server
  /\ UNCHANGED <<initialized, addressed, sockId, websockId, receiveVars,
                 arrived, sendVars>>

(* The handshake fails: close, which leaves the instance initialized.      *)
HandshakeFails ==
  /\ main = "handshake"
  /\ main' = "failed"
  /\ sockId' = FALSE
  /\ server' = "closed"
  /\ UNCHANGED <<initialized, addressed, websockId, event, receiveVars,
                 arrived, sendVars>>

(* Mutant: the connection is not announced. *)
MutantNotPosted == event

EventAfterHandshake == "posted"

(* handleWebsocketConnect is called before connect has the id. *)
HandshakeDone ==
  /\ main = "handshake"
  /\ main' = "opened"
  /\ event' = EventAfterHandshake
  /\ UNCHANGED <<initialized, addressed, sockId, websockId, receiveVars,
                 arrived, server, sendVars>>

StartThread ==
  /\ main = "opened"
  /\ main' = "connected"
  /\ websockId' = TRUE
  /\ thread' = "waiting"
  /\ UNCHANGED <<initialized, addressed, sockId, event, more, recvBuf, frame,
                 taken, dispatched, arrived, server, sendVars>>

Setup ==
  SocketInit \/ NotInitialized \/ SocketConnect \/ HandshakeFails
    \/ HandshakeDone \/ StartThread

-----------------------------------------------------------------------------
(* The server and the connection. *)

(* Some more bytes of the first frame that is not complete arrive. *)
BytesArrive ==
  /\ server = "up"
  /\ main \in {"opened", "connected"}
  /\ \E k \in 1 .. Len(Frames) :
        /\ \A j \in 1 .. k - 1 : arrived[j] = Len(Frames[j])
        /\ \E n \in arrived[k] + 1 .. Len(Frames[k]) :
             arrived' = [arrived EXCEPT ![k] = n]
  /\ UNCHANGED <<setupVars, receiveVars, server, sendVars>>

ServerCloses ==
  /\ CloudCloses
  /\ server = "up"
  /\ main = "connected"
  /\ server' = "closed"
  /\ UNCHANGED <<setupVars, receiveVars, arrived, sendVars>>

-----------------------------------------------------------------------------
(* handleMessageReceived. *)

(* The connection event is posted. *)
ThreadStarts ==
  /\ thread = "waiting"
  /\ event = "posted"
  /\ thread' = "reading"
  /\ UNCHANGED <<setupVars, more, recvBuf, frame, taken, dispatched, arrived,
                 server, sendVars>>

(* Bytes of the frame that are there to be received. *)
Available == IF frame > Len(Frames) THEN 0 ELSE arrived[frame] - taken

Room == BufferSize - Len(recvBuf)

(* Mutant: what is received replaces what was received before. *)
MutantReadPosStays(bytes) == bytes

RecvBufAfter(bytes) == recvBuf \o bytes

(* websocket_recv_msg returns some of the bytes that are there, of one     *)
(* frame at a time.                                                        *)
Receive ==
  /\ thread = "reading"
  /\ more
  /\ \E n \in 1 .. Available :
        /\ n <= Room
        /\ recvBuf' = RecvBufAfter(SubSeq(Frames[frame], taken + 1, taken + n))
        /\ IF taken + n = Len(Frames[frame])
           THEN more' = FALSE /\ frame' = frame + 1 /\ taken' = 0
           ELSE more' = TRUE /\ frame' = frame /\ taken' = taken + n
  /\ UNCHANGED <<setupVars, thread, dispatched, arrived, server, sendVars>>

(* Mutant: the thread tries again at once when there is nothing. *)
MutantNoSleep == "reading"

AfterNothing == "asleep"

(* -EAGAIN: there is nothing, the thread sleeps. *)
NothingThere ==
  /\ thread = "reading"
  /\ more
  /\ Available = 0
  /\ server = "up"
  /\ thread' = AfterNothing
  /\ UNCHANGED <<setupVars, more, recvBuf, frame, taken, dispatched, arrived,
                 server, sendVars>>

Wake ==
  /\ thread = "asleep"
  /\ thread' = "reading"
  /\ UNCHANGED <<setupVars, more, recvBuf, frame, taken, dispatched, arrived,
                 server, sendVars>>

(* Any other error, of a connection that is closed and empty or of a       *)
(* receive into no room, ends the loop, and so does the end of a message.  *)
MessageEnds ==
  \/ ~ more
  \/ Available = 0 /\ server = "closed"
  \/ Available > 0 /\ Room = 0

(* Mutant: remaining_bytes keeps its value for the next message. *)
MutantMoreStays == more

MoreForNext == TRUE

(* What was received is dispatched.  The packet handler may report that it *)
(* does not run, which ends the thread.                                    *)
Dispatch ==
  /\ thread = "reading"
  /\ MessageEnds
  /\ Len(dispatched) < MaxPackets
  /\ dispatched' = Append(dispatched, recvBuf)
  /\ recvBuf' = <<>>
  /\ thread' \in {"reading", "ended"}
  /\ more' = IF thread' = "reading" THEN MoreForNext ELSE more
  /\ UNCHANGED <<setupVars, frame, taken, arrived, server, sendVars>>

ReceiveThread ==
  ThreadStarts \/ Receive \/ NothingThere \/ Wake \/ Dispatch

-----------------------------------------------------------------------------
(* Mutant: a work item whose callback runs is not queued. *)
MutantSubmittedIdle == queued \/ work = "idle"

(* A work item whose callback runs is queued once more. *)
QueuedAfterSubmit == TRUE

(* The packet handler fills the slot and submits the work item, whatever   *)
(* the callback is doing: an answer it has not read yet is replaced.       *)
FillSlot ==
  /\ answer < Len(Answers)
  /\ main \in {"connected", "failed"} \/ (EarlyAnswers /\ event # "none")
  /\ answer' = answer + 1
  /\ slot' = LET a == Answers[answer + 1] IN Outgoing(a, a.request, FALSE)
  /\ queued' = QueuedAfterSubmit
  /\ UNCHANGED <<setupVars, receiveVars, arrived, server, work, toCloud>>

Starts == queued /\ work = "idle"

(* sendMessage without a socket, *)
SendRefused ==
  /\ Starts
  /\ ~ initialized
  /\ queued' = FALSE
  /\ UNCHANGED <<setupVars, receiveVars, arrived, server, answer, slot, work,
                 toCloud>>

(* and before there is a connection. *)
SendWaits ==
  /\ Starts
  /\ initialized
  /\ event # "posted"
  /\ work' = "waiting"
  /\ queued' = FALSE
  /\ UNCHANGED <<setupVars, receiveVars, arrived, server, answer, slot, toCloud>>

(* With the event it goes on to the library without giving the processor   *)
(* away, and the library copies the message before it can block.  Sending  *)
(* fails without a websocket and after the connection was closed.  A work  *)
(* item that was submitted while its callback waited stays in the queue.   *)
SendMessage ==
  /\ event = "posted"
  /\ (Starts /\ initialized) \/ work = "waiting"
  /\ queued' = (queued /\ work = "waiting")
  /\ toCloud' = IF websockId /\ server = "up"
                THEN Append(toCloud, [answer |-> answer, message |-> slot])
                ELSE toCloud
  /\ work' = "sending"
  /\ UNCHANGED <<setupVars, receiveVars, arrived, server, answer, slot>>

SendReturns ==
  /\ work = "sending"
  /\ work' = "idle"
  /\ UNCHANGED <<setupVars, receiveVars, arrived, server, answer, slot, queued,
                 toCloud>>

-----------------------------------------------------------------------------
Init ==
  /\ main = "init"
  /\ initialized = FALSE
  /\ addressed = FALSE
  /\ sockId = FALSE
  /\ websockId = FALSE
  /\ event = "none"
  /\ thread = "none"
  /\ more = TRUE
  /\ recvBuf = <<>>
  /\ frame = 1
  /\ taken = 0
  /\ arrived = [k \in 1 .. Len(Commands) |-> 0]
  /\ server = "none"
  /\ dispatched = <<>>
  /\ answer = 0
  /\ slot = <<>>
  /\ queued = FALSE
  /\ work = "idle"
  /\ toCloud = <<>>

Callback == SendRefused \/ SendWaits \/ SendMessage \/ SendReturns

Next ==
  Setup \/ BytesArrive \/ ServerCloses \/ ReceiveThread \/ FillSlot \/ Callback

Spec == Init /\ [][Next]_vars

(* main goes on, the receive thread runs when it can, and a server that is *)
(* there reads what it is sent.                                            *)
Fairness ==
  /\ WF_vars(Setup)
  /\ WF_vars(ReceiveThread)
  /\ WF_vars(Callback)

FairSpec == Spec /\ Fairness

-----------------------------------------------------------------------------
TypeOK ==
  /\ main \in {"init", "connect", "handshake", "opened", "connected", "failed"}
  /\ {initialized, addressed, sockId, websockId, more, queued} \subseteq BOOLEAN
  /\ event \in {"none", "clear", "posted"}
  /\ thread \in {"none", "waiting", "reading", "asleep", "ended"}
  /\ recvBuf \in Seq(Byte)
  /\ frame \in 1 .. Len(Commands) + 1
  /\ taken \in Nat
  /\ arrived \in [1 .. Len(Commands) -> Nat]
  /\ server \in {"none", "up", "closed"}
  /\ dispatched \in Seq(Seq(Byte))
  /\ answer \in 0 .. Len(Answers)
  /\ slot \in Seq(Byte)
  /\ work \in {"idle", "waiting", "sending"}
  /\ toCloud \in Seq([answer : 0 .. Len(Answers), message : Seq(Byte)])

(* A socket that was set up can be connected: init has left an address of  *)
(* the right length.                                                       *)
SocketIsAddressed == initialized => addressed

(***************************************************************************)
(* From the cloud.                                                         *)
(***************************************************************************)

Fits(k) == Len(Frames[k]) <= BufferSize

(* However the bytes of the messages arrive and are received, the packets  *)
(* dispatched are the messages, each whole and in order, until the first   *)
(* that does not fit.                                                      *)
MessagesWhole ==
  \A k \in 1 .. Len(dispatched) :
    k < frame /\ (\A j \in 1 .. k : Fits(j)) => dispatched[k] = Frames[k]

(* And nothing else is dispatched. *)
OnlyMessages == Len(dispatched) < frame

(* The packet thread reads in a packet the command the application sent:   *)
(* for the same instance, of the same type, with the same request id and   *)
(* payload.                                                                *)
CommandsIntact ==
  \A k \in 1 .. Len(dispatched) :
    k < frame /\ (\A j \in 1 .. k : Fits(j)) =>
      LET c == Command(dispatched[k], FALSE)
      IN  /\ Generic(dispatched[k], FALSE).type = CS_PACKET_TYPE_CONTROL
          /\ c = [dest_id |-> Commands[k].dest_id,
                  command_type |-> Commands[k].command_type,
                  request_id |-> Commands[k].request_id,
                  payload |-> Commands[k].payload]

(* A message that has arrived is dispatched, also when the connection is   *)
(* closed behind it.                                                       *)
EveryMessageDispatched ==
  \A k \in 1 .. Len(Commands) :
    (arrived[k] = Len(Frames[k]) /\ \A j \in 1 .. k : Fits(j))
      ~> (\/ \E j \in 1 .. Len(dispatched) : dispatched[j] = Frames[k]
          \/ thread = "ended")

(* However much arrives, the receive thread gives way to the other         *)
(* cooperative threads, the packet thread among them, while the connection *)
(* is open, *)
LetsOthersRun ==
  (thread = "reading") ~> (thread # "reading" \/ server = "closed")

(* and also when it is not. *)
AlwaysLetsOthersRun == []<>(thread # "reading")

(***************************************************************************)
(* To the cloud.                                                           *)
(***************************************************************************)

AnswerFits(k) ==
  GenericSize + Len(Answers[k].payload)
    + (IF Answers[k].request.id > 0 THEN ResultSize ELSE DataSize) <= BufferSize

(* The application finds in a message, where the structures say, the       *)
(* instance's payload with its source, or with the result code and the     *)
(* type and id of the request.                                             *)
Says(message, a) ==
  LET payload == From(message, GenericSize + 1)
  IN  /\ Field(message, cs_router_generic_packet.length) = Len(payload)
      /\ \/ /\ a.request.id = 0
            /\ Field(message, cs_router_generic_packet.type)
                 = CS_PACKET_TYPE_DATA
            /\ Field(payload, cs_router_data_packet.source_id) = a.src_id
            /\ Field(payload, cs_router_data_packet.length) = Len(a.payload)
            /\ From(payload, DataSize + 1) = a.payload
         \/ /\ a.request.id > 0
            /\ Field(message, cs_router_generic_packet.type)
                 = CS_PACKET_TYPE_RESULT
            /\ Field(payload, cs_router_result_packet.command_type)
                 = a.request.type
            /\ Field(payload, cs_router_result_packet.result_code)
                 = a.result_code
            /\ Field(payload, cs_router_result_packet.request_id)
                 = a.request.id
            /\ Field(payload, cs_router_result_packet.length)
                 = Len(a.payload)
            /\ From(payload, ResultSize + 1) = a.payload

(* As long as every answer fits: what the cloud gets are answers in their  *)
(* order, none twice, and it finds everything they say in them.  One may   *)
(* be replaced by the next before it is sent, but the newest gets there    *)
(* while the connection is open.                                           *)
AnswersIntact ==
  (\A j \in 1 .. answer : AnswerFits(j)) =>
    /\ \A k \in 1 .. Len(toCloud) :
         Says(toCloud[k].message, Answers[toCloud[k].answer])
    /\ \A k \in 2 .. Len(toCloud) : toCloud[k - 1].answer < toCloud[k].answer
    /\ server = "up" /\ main = "connected" /\ ~ queued /\ answer > 0
         => toCloud # <<>> /\ toCloud[Len(toCloud)].answer = answer

(* No answer is replaced before it is sent. *)
EveryAnswerSent ==
  server = "up" /\ main = "connected" /\ ~ queued => Len(toCloud) = answer

(* What is wrapped for the cloud fits in the buffer it is wrapped in and   *)
(* in that of the slot.                                                    *)
BufferHolds == Len(slot) <= BufferSize

(* No callback holds the work queue up for ever, unless main failed to     *)
(* connect, *)
CallbackReturns ==
  (queued \/ work # "idle") ~> ((~ queued /\ work = "idle") \/ main = "failed")

(* and not even then. *)
CallbackAlwaysReturns ==
  (queued \/ work # "idle") ~> (~ queued /\ work = "idle")
==============================================================================
