----------------------------- MODULE PacketCodec -----------------------------
(***************************************************************************)
(* The packet layouts of the router protocol, and the functions of the     *)
(* packet handler that write and read them.  A buffer is a sequence of     *)
(* bytes; positions count from 1, so buffer[0] of the code is b[1].        *)
(***************************************************************************)
EXTENDS Integers, Sequences

CONSTANT Crc(_)    \* crc16_ccitt of a sequence of bytes

Byte == 0 .. 255

MaxWord == 65535

Word == 0 .. MaxWord

(* The fields of the packed structures as <<position, size in bytes>>.     *)
cs_router_uart_packet ==
  [start_token |-> <<1, 1>>, length |-> <<2, 2>>,
   protocol_version |-> <<4, 1>>, type |-> <<5, 1>>]

cs_router_generic_packet ==
  [protocol_version |-> <<1, 1>>, type |-> <<2, 1>>, length |-> <<3, 2>>]

cs_router_control_packet ==
  [command_type |-> <<1, 1>>, src_id |-> <<2, 1>>, dest_id |-> <<3, 1>>,
   request_id |-> <<4, 2>>, length |-> <<6, 2>>]

cs_router_result_packet ==
  [command_type |-> <<1, 1>>, result_code |-> <<2, 1>>,
   request_id |-> <<3, 2>>, length |-> <<5, 2>>]

cs_router_data_packet == [source_id |-> <<1, 1>>, length |-> <<2, 2>>]

(* sizeof of each structure without its payload pointer.                   *)
UartSize == 7
GenericSize == 4
ControlSize == 7
ResultSize == 6
DataSize == 3

CS_PROTOCOL_VERSION == 1
CS_UART_PROTOCOL_VERSION == 1
CS_PACKET_UART_START_TOKEN == 126

CS_PACKET_TYPE_GENERIC == 0

CS_PACKET_TYPE_CONTROL == 0
CS_PACKET_TYPE_RESULT == 1
CS_PACKET_TYPE_DATA == 2

-----------------------------------------------------------------------------
(* sys_put_le16 and sys_get_le16.  A packet lies in a buffer that was      *)
(* cleared, so what is read behind its end is zero.                        *)

PutLe16(v) == <<v % 256, (v \div 256) % 256>>

At(b, p) == IF p \in 1 .. Len(b) THEN b[p] ELSE 0

GetLe16(b, p) == At(b, p) + 256 * At(b, p + 1)

From(b, p) == SubSeq(b, p, Len(b))

(* Field f of a packet, as a peer that knows the structures reads it.      *)
Field(b, f) == IF f[2] = 1 THEN At(b, f[1]) ELSE GetLe16(b, f[1])

-----------------------------------------------------------------------------
(* The wrap functions write a packet and return its length. *)

wrapGenericPacket(type, payload) ==
  [bytes |-> <<CS_PROTOCOL_VERSION, type>> \o PutLe16(Len(payload)) \o payload,
   length |-> GenericSize + Len(payload)]

(* Mutant: the structure's length, its payload pointer included. *)
MutantDataLength(payload) == DataSize + 4 + Len(payload)

dataLength(payload) == DataSize + Len(payload)

wrapDataPacket(src_id, payload) ==
  [bytes |-> <<src_id>> \o PutLe16(Len(payload)) \o payload,
   length |-> dataLength(payload)]

(* Mutant: the request id in network byte order. *)
MutantIdBytes(id) == <<(id \div 256) % 256, id % 256>>

IdBytes(id) == PutLe16(id)

wrapResultPacket(command_type, result_code, request_id, payload) ==
  [bytes |-> <<command_type, result_code>> \o IdBytes(request_id)
               \o PutLe16(Len(payload)) \o payload,
   length |-> ResultSize + Len(payload)]

(* Neither start token nor the length itself is counted. *)
uartLength(payload) == UartSize + Len(payload) - 3

(* The checksum is over everything between the length and itself.          *)
wrapUartPacket(type, payload) ==
  LET checked == <<CS_UART_PROTOCOL_VERSION, type>> \o payload
  IN  [bytes |-> <<CS_PACKET_UART_START_TOKEN>>
                   \o PutLe16(uartLength(payload))
                   \o checked \o PutLe16(Crc(checked)),
       length |-> UartSize + Len(payload)]

(* The bytes a length asks for; behind what was written lies other memory. *)
Taken(packet) ==
  [p \in 1 .. packet.length |-> At(packet.bytes, p)]

-----------------------------------------------------------------------------
(* The load functions. *)

loadGenericPacket(b) ==
  [protocol_version |-> At(b, 1), type |-> At(b, 2), length |-> GetLe16(b, 3),
   payload |-> From(b, 5)]

(* Mutant: the length is read where the request id is. *)
MutantControlLength(b) == GetLe16(b, 4)

controlLength(b) == GetLe16(b, 6)

loadControlPacket(b) ==
  [command_type |-> At(b, 1), src_id |-> At(b, 2), dest_id |-> At(b, 3),
   request_id |-> GetLe16(b, 4), length |-> controlLength(b),
   payload |-> From(b, 8)]

(* The checksum is taken over length - 2 bytes, a number that crc16_ccitt  *)
(* takes without its sign: for a length of 0 or 1 it reads on until there  *)
(* is no more memory, and the program faults.                              *)
CrcFaults(b) == GetLe16(b, 2) < 2

(* A wrong checksum is reported and the packet used all the same.  The     *)
(* payload length is negative when the length field is less than 4.        *)
loadUartPacket(b) ==
  LET length == GetLe16(b, 2)
      payload_len == length - 4
  IN  [faults |-> CrcFaults(b),
       start_token |-> At(b, 1), length |-> length,
       protocol_version |-> At(b, 4), type |-> At(b, 5),
       payload |-> From(b, 6), payload_len |-> payload_len,
       check_crc |-> Crc([p \in 1 .. length - 2 |-> At(b, p + 3)]),
       received_crc |-> GetLe16(b, 6 + payload_len)]

-----------------------------------------------------------------------------
(* The two packet handlers, as far as bytes go. *)

(* handleIncomingPacket: the generic packet, unwrapped from a UART packet  *)
(* when it comes from the computer module, *)
Generic(b, fromCm4) ==
  loadGenericPacket(IF fromCm4 THEN loadUartPacket(b).payload ELSE b)

(* and what of a control packet gets into the slot of its destination: as  *)
(* many bytes as the control packet says.                                  *)
Command(b, fromCm4) ==
  LET control == loadControlPacket(Generic(b, fromCm4).payload)
  IN  [dest_id |-> control.dest_id, command_type |-> control.command_type,
       request_id |-> control.request_id,
       payload |-> [p \in 1 .. control.length |-> At(control.payload, p)]]

(* handleOutgoingPacket: what gets into the slot of the cloud or of the    *)
(* computer module.  data is a packet of a peripheral, and result the      *)
(* request that is pending in its slot, with id 0 for none.                *)
Inner(data, result) ==
  IF result.id > 0
  THEN wrapResultPacket(result.type, data.result_code, result.id, data.payload)
  ELSE wrapDataPacket(data.src_id, data.payload)

Outgoing(data, result, toCm4) ==
  LET type == IF result.id > 0 THEN CS_PACKET_TYPE_RESULT
              ELSE CS_PACKET_TYPE_DATA
      generic == wrapGenericPacket(type, Taken(Inner(data, result)))
  IN  IF toCm4
      THEN Taken(wrapUartPacket(CS_PACKET_TYPE_GENERIC, Taken(generic)))
      ELSE Taken(generic)
==============================================================================
