----------------------------- MODULE MCWebSocket -----------------------------
(* Instances of WebSocket for TLC. *)
EXTENDS WebSocket

MCCrc(s) == 0

Ble == 7
Rs485 == 2

(* A command that fills the buffer, shorter ones after it, an id with two  *)
(* bytes.                                                                  *)
MCCommands ==
  << [src_id |-> 5, dest_id |-> Ble, command_type |-> 6, request_id |-> 258,
      payload |-> <<11, 12, 0, 14, 15>>],
     [src_id |-> 5, dest_id |-> Rs485, command_type |-> 7, request_id |-> 0,
      payload |-> <<13>>],
     [src_id |-> 5, dest_id |-> Rs485, command_type |-> 0, request_id |-> 3,
      payload |-> <<>>] >>

NoRequest == [type |-> 0, id |-> 0]

Payload(n) == [p \in 1 .. n |-> 20 + p]

(* Data and results; the longest of each that fits in the buffer. *)
MCAnswers ==
  << [src_id |-> Ble, result_code |-> 1, payload |-> Payload(6),
      request |-> [type |-> 6, id |-> 65280]],
     [src_id |-> Rs485, result_code |-> 0, payload |-> Payload(9),
      request |-> NoRequest],
     [src_id |-> Rs485, result_code |-> 8, payload |-> <<>>,
      request |-> [type |-> 7, id |-> 1]] >>

(* One byte more than fits. *)
MCTooLong ==
  << [src_id |-> Rs485, result_code |-> 0, payload |-> Payload(10),
      request |-> NoRequest] >>
==============================================================================
