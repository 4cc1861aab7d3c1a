--------------------------- MODULE MCRouterSystem ---------------------------
(* An instance of RouterSystem for TLC. *)
EXTENDS RouterSystem

CONSTANTS cloud, ble, rs485, cm4, unknown

Step(op, id) == [op |-> op, id |-> id]

(* The order of main, src/cs_Router.cpp:49-66. *)
MCBootScript ==
  << Step("register", cloud), Step("start", cloud),
     Step("start", ble), Step("register", ble),
     Step("start", rs485), Step("register", rs485) >>
==============================================================================
