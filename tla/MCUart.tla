-------------------------------- MODULE MCUart --------------------------------
(* Instances of Uart for TLC. *)
EXTENDS Uart

Listening(stream) ==
  [stream |-> stream, lengths |-> <<>>, turns |-> FALSE, stops |-> TRUE]

(* An empty line, a line that does not fit, one with a zero byte in it,    *)
(* and enough others to fill the queue.                                    *)
MCLines ==
  Listening(<<"char", "eol", "eol", "char", "char", "char", "char", "char",
              "eol", "start", "char", "nul", "eol", "char", "char", "char",
              "eol", "char", "eol">>)

(* Whatever the peer says in five bytes. *)
MCAnyBytes == {Listening(stream) : stream \in [1 .. 5 -> Kind]}

(* n characters and a line end. *)
LineOf(n) == Append([p \in 1 .. n |-> "char"], "eol")

(* Three messages, each answered by a line, empty ones among both. *)
MCDialogues ==
  {[stream |-> LineOf(lines[1]) \o LineOf(lines[2]) \o LineOf(lines[3]),
    lengths |-> lengths, turns |-> TRUE, stops |-> FALSE] :
     lengths \in [1 .. 3 -> {0, 1, 3}], lines \in [1 .. 3 -> 0 .. 2]}

(* One message, and a line that is not an answer to it. *)
MCInterruption ==
  [stream |-> <<"char", "char", "eol">>,
   lengths |-> <<3>>, turns |-> FALSE, stops |-> FALSE]

MCOrderly == {MCLines} \cup MCAnyBytes \cup MCDialogues

MCTalk == {MCInterruption}
==============================================================================
