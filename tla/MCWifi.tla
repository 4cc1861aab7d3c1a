------------------------------- MODULE MCWifi -------------------------------
(* Instances of Wifi for TLC. *)
EXTENDS Wifi

CONSTANTS home, twin, guest, other, short

(* Two access points of one network, one whose SSID continues ours, one    *)
(* that begins as ours does, and one that is shorter.                      *)
MCSsidOf ==
  home :> <<"n", "e", "t">> @@ twin :> <<"n", "e", "t">>
    @@ guest :> <<"n", "e", "t", "g">> @@ other :> <<"n", "o", "t">>
    @@ short :> <<"n", "e">>

MCSsid == <<"n", "e", "t">>
==============================================================================
