-------------------------- MODULE MCHandlerRegister --------------------------
(* Instances of HandlerRegister for TLC. *)
EXTENDS HandlerRegister, SequencesExt

CONSTANTS main, other, third, cloud, ble, rs485, rs232, mesh, cm4

Register(id) == [op |-> "register", id |-> id, target |-> "instance"]

(* main passes the address of its pointer, src/cs_Router.cpp:59. *)
RegisterPointer(id) == [op |-> "register", id |-> id, target |-> "pointer"]

Removal(id) == [op |-> "unregister", id |-> id, target |-> "instance"]

(* Three threads, each with its own instances; cm4 is never registered.    *)
MCShared ==
  {[c \in {main, other, third} |->
      CASE c = main  -> << Register(cloud), RegisterPointer(ble) >>
        [] c = other -> << Register(rs485), Removal(cm4), Register(rs232) >>
        [] c = third -> << Register(mesh) >>]}

(* Three threads, some with the same instances. *)
MCSame ==
  {[c \in {main, other, third} |->
      CASE c = main  -> << Register(cloud), Register(ble), Register(rs485) >>
        [] c = other -> << Register(rs485), Register(cloud) >>
        [] c = third -> << Register(mesh), Register(ble) >>]}

(* The registered ids, latest last, after the calls of s. *)
After(s) ==
  FoldLeft(LAMBDA ids, a :
             IF a.op = "register"
             THEN IF Contains(ids, a.id) THEN ids ELSE Append(ids, a.id)
             ELSE SelectSeq(ids, LAMBDA id : id # a.id),
           <<>>, s)

(* One thread that unregisters the latest instance only. *)
MCReverse ==
  LET ids3 == {cloud, ble, rs485}
      calls == {Register(id) : id \in ids3} \cup {Removal(id) : id \in ids3}
      Reverses(s) ==
        \A k \in 1 .. Len(s) :
          LET ids == After(SubSeq(s, 1, k - 1))
          IN  s[k].op = "unregister" /\ Contains(ids, s[k].id)
                => Last(ids) = s[k].id
  IN  {[c \in {main, other, third} |-> IF c = main THEN s ELSE <<>>] : s \in {t \in [1 .. 5 -> calls] : Reverses(t)}}

MCScripts == MCShared \cup MCSame \cup MCReverse
==============================================================================
