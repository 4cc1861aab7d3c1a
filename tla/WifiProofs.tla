----------------------------- MODULE WifiProofs -----------------------------
(***************************************************************************)
(* Proofs about Wifi, for all networks, SSIDs and faults.                  *)
(***************************************************************************)
EXTENDS Wifi, TLAPS

(* Where the connection has not been asked for yet. *)
Before == {"init", "connect", "await_ssid", "found", "request"}

Fields == [{"security", "channel"} -> Network \cup {NoNetwork}]

(* What main and the two events know of each other: the event "found" and  *)
(* the parameters go together, and nothing is connected without a request. *)
BringUpInv ==
  /\ main \in Before \cup {"wait", "websocket", "crashed"}
  /\ request \in Fields
  /\ requests \in Seq(Fields)
  /\ cnxParams \in Network \cup {NoNetwork}
  /\ main \in Before => requests = <<>>
  /\ "found" \in events => Matches(cnxParams)
  /\ main \in {"found", "request"} => "found" \in events
  /\ main = "request" => Matches(request.security)
  /\ link # "idle" => Len(requests) > 0
  /\ "connected" \in events => Len(requests) > 0
  /\ main = "websocket" /\ ret = "ok" => "connected" \in events
  /\ RequestOfMatch
  /\ OneRequest

(* After a refused or timed-out scan main scans again or waits. *)
LEMMA AfterWhere == \A code : After(code) \in {"connect", "wait"}
  BY DEF After

(* The invariant holds at the start. *)
LEMMA BringUpInit == Init => BringUpInv
  BY DEF Init, BringUpInv, Before, Fields, RequestOfMatch, OneRequest

(* Every step of main keeps the invariant; only the request needs an       *)
(* argument.                                                               *)
LEMMA MainKeeps == BringUpInv /\ Main => BringUpInv'
<1> SUFFICES ASSUME BringUpInv, Main PROVE BringUpInv'
  OBVIOUS
<1> USE DEF BringUpInv, Before, Fields, RequestOfMatch, OneRequest
<1>1. CASE InitWifi
  BY <1>1 DEF InitWifi, driverVars
<1>2. CASE ScanRequest
  BY <1>2, AfterWhere DEF ScanRequest
<1>3. CASE SsidFound
  BY <1>3 DEF SsidFound, driverVars
<1>4. CASE ScanTimeout
  BY <1>4, AfterWhere DEF ScanTimeout, driverVars
<1>5. CASE ReadSecurity
  BY <1>5 DEF ReadSecurity, driverVars
<1>6. CASE ConnectRequest
  <2>1. main' = "wait"
    BY <1>6 DEF ConnectRequest, After, Repeats
  <2>2. Matches(request'.security) /\ Matches(request'.channel)
    BY <1>6 DEF ConnectRequest
  <2>3. request' \in Fields
    BY <1>6 DEF ConnectRequest
  <2>4. CASE requests' = Append(requests, request')
    <3>1. requests' = <<request'>>
      BY <1>6, <2>4, <2>3 DEF ConnectRequest
    <3> QED
      BY <1>6, <2>1, <2>2, <2>3, <3>1 DEF ConnectRequest
  <2>5. CASE UNCHANGED <<requests, link>>
    BY <1>6, <2>1, <2>3, <2>5 DEF ConnectRequest
  <2> QED
    BY <1>6, <2>4, <2>5 DEF ConnectRequest
<1>7. CASE WaitConnected
  BY <1>7 DEF WaitConnected, Awaited, driverVars
<1>8. CASE WaitTimesOut
  BY <1>8 DEF WaitTimesOut, TimeoutResult, driverVars
<1> QED
  BY <1>1, <1>2, <1>3, <1>4, <1>5, <1>6, <1>7, <1>8 DEF Main

(* Results, the driver and the network keep it too. *)
LEMMA DriverKeeps ==
  BringUpInv /\ (\/ \E n \in Network : ScanResult(n)
                 \/ ScanEnds \/ Associated \/ LinkFails \/ AddressAssigned)
    => BringUpInv'
<1> USE DEF BringUpInv, Before, Fields, RequestOfMatch, OneRequest
<1>1. ASSUME BringUpInv, NEW n \in Network, ScanResult(n) PROVE BringUpInv'
  BY <1>1 DEF ScanResult, ParamsAfter, driverVars
<1>2. ASSUME BringUpInv, ScanEnds PROVE BringUpInv'
  BY <1>2 DEF ScanEnds
<1>3. ASSUME BringUpInv, Associated PROVE BringUpInv'
  BY <1>3 DEF Associated
<1>4. ASSUME BringUpInv, LinkFails PROVE BringUpInv'
  BY <1>4 DEF LinkFails
<1>5. ASSUME BringUpInv, AddressAssigned PROVE BringUpInv'
  BY <1>5 DEF AddressAssigned
<1> QED
  BY <1>1, <1>2, <1>3, <1>4, <1>5

(* The invariant holds in every behaviour. *)
THEOREM BringUpInvHolds == Spec => []BringUpInv
<1>1. BringUpInv /\ [Next]_vars => BringUpInv'
  <2> SUFFICES ASSUME BringUpInv, [Next]_vars PROVE BringUpInv'
    OBVIOUS
  <2>1. CASE Next
    BY <2>1, MainKeeps, DriverKeeps DEF Next
  <2>2. CASE UNCHANGED vars
    BY <2>2 DEF vars, driverVars, BringUpInv, RequestOfMatch, OneRequest
  <2> QED
    BY <2>1, <2>2
<1> QED
  BY BringUpInit, <1>1, PTL DEF Spec

(* Each field of a request is of a network that matches, whenever results  *)
(* of the scan interrupt main.                                             *)
THEOREM RequestsMatch == Spec => []RequestOfMatch
<1>1. BringUpInv => RequestOfMatch
  BY DEF BringUpInv
<1> QED
  BY <1>1, BringUpInvHolds, PTL

(* The driver is asked for one connection at most. *)
THEOREM RequestedOnce == Spec => []OneRequest
<1>1. BringUpInv => OneRequest
  BY DEF BringUpInv
<1> QED
  BY <1>1, BringUpInvHolds, PTL

(* main takes its wait for a success only if it asked for a connection and *)
(* got an address.                                                         *)
THEOREM OkIsConnected == Spec => []OkMeansConnected
<1>1. BringUpInv => OkMeansConnected
  BY DEF BringUpInv, OkMeansConnected
<1> QED
  BY <1>1, BringUpInvHolds, PTL
==============================================================================
