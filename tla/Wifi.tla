-------------------------------- MODULE Wifi --------------------------------
(***************************************************************************)
(* The Wi-Fi bring-up: main scans until the configured network is heard,   *)
(* asks for a connection with what the scan said of it, and waits for an   *)
(* address.  Results of the network management arrive on its own thread,   *)
(* which preempts main anywhere, and meet main in two events that are      *)
(* posted and never cleared.                                               *)
(***************************************************************************)
EXTENDS Integers, SequencesExt

CONSTANTS
  Network,     \* the networks in the air
  NoNetwork,   \* the source of parameters nobody has set
  SsidOf,      \* the SSID of each network, a sequence of characters
  Ssid,        \* the SSID given to init
  SsidMaxLen,  \* WIFI_SSID_MAX_LEN
  Faults,      \* what may go wrong
  MaxFaults    \* bound on how often

FaultKind == {"device", "interface", "scan", "connect", "associate", "loss"}

ASSUME ConstantsAssumption ==
  /\ NoNetwork \notin Network
  /\ SsidMaxLen \in Nat \ {0}
  /\ Faults \subseteq FaultKind
  /\ MaxFaults \in Nat

VARIABLES
  main,        \* where main is in the bring-up
  ret,         \* main's result so far
  events,      \* _wifi_evts: "found" and "connected"
  cnxParams,   \* the network _cnx_params tells of
  request,     \* the request being copied, by the source of each field
  requests,    \* history: the requests the driver accepted
  scanning,    \* the driver scans
  link,        \* the driver's connection
  timely,      \* scans end within CS_WIFI_SCAN_TIMEOUT, addresses in time
  faults       \* how often something went wrong

driverVars == <<scanning, link>>

vars == <<main, ret, events, cnxParams, request, requests, driverVars,
          timely, faults>>

SYS_FOREVER_MS == -1

Fault(kind) ==
  /\ kind \in Faults
  /\ faults < MaxFaults
  /\ faults' = faults + 1

(* init keeps what fits of the SSID, and a result is compared over the     *)
(* length kept: longer SSIDs that begin the same match too.                *)
Stored == SubSeq(Ssid, 1, Min({Len(Ssid), SsidMaxLen}))

Matches(n) == n \in Network /\ IsPrefix(Stored, SsidOf[n])

(* Mutant: the timeout keeps its sign. *)
MutantWide == SYS_FOREVER_MS

(* waitConnected takes its timeout in 16 bits. *)
WaitMillis == SYS_FOREVER_MS % 2 ^ 16

-----------------------------------------------------------------------------
(* main, and the functions it calls. *)

(* Mutants: the loop goes on whatever connect returned, or never. *)
MutantAlwaysRepeats(code) == TRUE

MutantNeverRepeats(code) == FALSE

Repeats(code) == code = "scan_result_timeout"

After(code) == IF Repeats(code) THEN "connect" ELSE "wait"

(* Without a device init returns before k_event_init, and waitConnected,   *)
(* which main calls all the same, links main into the wait queue of an     *)
(* event that is all zeros: a store through NULL.                          *)
(* Without an interface init logs a name that it reads through NULL.       *)
InitWifi ==
  /\ main = "init"
  /\ \/ main' = "connect" /\ UNCHANGED faults
     \/ main' = "crashed" /\ (Fault("device") \/ Fault("interface"))
  /\ UNCHANGED <<ret, events, cnxParams, request, requests, driverVars, timely>>

(* The driver refuses a scan while one is running. *)
ScanRequest ==
  /\ main = "connect"
  /\ \/ /\ ~ scanning
        /\ scanning' = TRUE
        /\ main' = "await_ssid"
        /\ UNCHANGED faults
     \/ /\ (scanning /\ UNCHANGED faults) \/ Fault("scan")
        /\ main' = After("scan_request_failed")
        /\ UNCHANGED scanning
  /\ UNCHANGED <<ret, events, cnxParams, request, requests, link, timely>>

SsidFound ==
  /\ main = "await_ssid"
  /\ "found" \in events
  /\ main' = "found"
  /\ UNCHANGED <<ret, events, cnxParams, request, requests, driverVars, timely,
                 faults>>

ScanTimeout ==
  /\ main = "await_ssid"
  /\ "found" \notin events
  /\ timely => ~ scanning
  /\ main' = After("scan_result_timeout")
  /\ UNCHANGED <<ret, events, cnxParams, request, requests, driverVars, timely,
                 faults>>

(* The driver copies the parameters one after the other, in main's thread: *)
(* security first, *)
ReadSecurity ==
  /\ main = "found"
  /\ request' = [request EXCEPT !.security = cnxParams]
  /\ main' = "request"
  /\ UNCHANGED <<ret, events, cnxParams, requests, driverVars, timely, faults>>

(* then channel.  A refusal is logged, and connect succeeds all the same.  *)
ConnectRequest ==
  /\ main = "request"
  /\ request' = [request EXCEPT !.channel = cnxParams]
  /\ \/ /\ requests' = Append(requests, request')
        /\ link' = "asked"
        /\ UNCHANGED faults
     \/ /\ Fault("connect")
        /\ UNCHANGED <<requests, link>>
  /\ main' = After("ok")
  /\ UNCHANGED <<ret, events, cnxParams, scanning, timely>>

(* Mutant: main waits for the other event. *)
MutantOtherEvent == "found"

Awaited == "connected"

WaitConnected ==
  /\ main = "wait"
  /\ Awaited \in events
  /\ main' = "websocket"
  /\ UNCHANGED <<ret, events, cnxParams, request, requests, driverVars, timely,
                 faults>>

TimeoutResult == "timeout"

WaitTimesOut ==
  /\ main = "wait"
  /\ Awaited \notin events
  /\ WaitMillis # SYS_FOREVER_MS
  /\ timely => link = "idle"
  /\ ret' = TimeoutResult
  /\ main' = "websocket"
  /\ UNCHANGED <<events, cnxParams, request, requests, driverVars, timely, faults>>

-----------------------------------------------------------------------------
(* The network management's thread and the driver. *)

(* Mutant: the parameters are stored before the SSIDs are compared. *)
MutantStoreAll(n) == n

ParamsAfter(n) == IF Matches(n) THEN n ELSE cnxParams

(* The parameters of the latest match are kept; others change nothing.     *)
ScanResult(n) ==
  /\ scanning
  /\ cnxParams' = ParamsAfter(n)
  /\ events' = IF Matches(n) THEN events \cup {"found"} ELSE events
  /\ UNCHANGED <<main, ret, request, requests, driverVars, timely, faults>>

ScanEnds ==
  /\ scanning
  /\ scanning' = FALSE
  /\ UNCHANGED <<main, ret, events, cnxParams, request, requests, link, timely,
                 faults>>

(* A result of status 0 starts DHCP. *)
Associated ==
  /\ link = "asked"
  /\ link' = "associated"
  /\ UNCHANGED <<main, ret, events, cnxParams, request, requests, scanning,
                 timely, faults>>

(* Failures and losses are logged; the driver tries again by itself        *)
(* (CONFIG_ESP32_WIFI_STA_RECONNECT).                                      *)
LinkFails ==
  /\ \/ link = "asked" /\ Fault("associate")
     \/ link \in {"associated", "online"} /\ Fault("loss")
  /\ link' = "asked"
  /\ UNCHANGED <<main, ret, events, cnxParams, request, requests, scanning,
                 timely>>

AddressAssigned ==
  /\ link = "associated"
  /\ link' = "online"
  /\ events' = events \cup {"connected"}
  /\ UNCHANGED <<main, ret, cnxParams, request, requests, scanning, timely,
                 faults>>

-----------------------------------------------------------------------------
Init ==
  /\ main = "init"
  /\ ret = "ok"
  /\ events = {}
  /\ cnxParams = NoNetwork
  /\ request = [security |-> NoNetwork, channel |-> NoNetwork]
  /\ requests = <<>>
  /\ scanning = FALSE
  /\ link = "idle"
  /\ timely \in BOOLEAN
  /\ faults = 0

Main ==
  \/ InitWifi
  \/ ScanRequest
  \/ SsidFound
  \/ ScanTimeout
  \/ ReadSecurity
  \/ ConnectRequest
  \/ WaitConnected
  \/ WaitTimesOut

Next ==
  \/ Main
  \/ \E n \in Network : ScanResult(n)
  \/ ScanEnds
  \/ Associated
  \/ LinkFails
  \/ AddressAssigned

Spec == Init /\ [][Next]_vars

(* main goes on, scans end, and the driver connects.  A network in reach   *)
(* is missed by one scan or another, not by all of them.                   *)
Fairness ==
  /\ WF_vars(Main)
  /\ WF_vars(ScanEnds)
  /\ WF_vars(Associated)
  /\ WF_vars(AddressAssigned)
  /\ SF_vars(\E n \in Network : Matches(n) /\ ScanResult(n))

FairSpec == Spec /\ Fairness

-----------------------------------------------------------------------------
(* Whatever results arrive while main copies the parameters, each field of *)
(* a request was heard of a network that matches the configured SSID.      *)
RequestOfMatch ==
  \A a \in 1 .. Len(requests) :
    Matches(requests[a].security) /\ Matches(requests[a].channel)

(* The driver is asked for a connection once, however many scans it took   *)
(* and although neither event is ever cleared.                             *)
OneRequest == Len(requests) <= 1

(* main takes the wait for a success only if a connection was asked for    *)
(* and an address has been assigned.                                       *)
OkMeansConnected ==
  main = "websocket" /\ ret = "ok"
    => Len(requests) > 0 /\ "connected" \in events

(* If init finds its device and interface, main gets past the bring-up, be *)
(* the scan refused, the request refused or the connection lost.  It is    *)
(* the width of waitConnected's timeout that ends the wait when no         *)
(* connection was asked for, and the fairness of the air that ends the     *)
(* loop.                                                                   *)
MovesOn == [](main # "crashed") => <>(main = "websocket")

(* If nothing fails and nothing takes too long, main goes on with a        *)
(* connection, however many scans miss the network.                        *)
ComesOnline == timely /\ [](faults = 0) => <>(main = "websocket" /\ ret = "ok")

(* All fields of a request tell of one network.  With two that match, a    *)
(* result may arrive between the copies.                                   *)
RequestOfOneNetwork ==
  \A a \in 1 .. Len(requests) : requests[a].security = requests[a].channel

(* The router connects to a network of the configured name.                *)
RequestOfSsid ==
  \A a \in 1 .. Len(requests) : SsidOf[requests[a].channel] = Stored

(* main opens the websocket only after the Wi-Fi connection is             *)
(* established, as its comment says.  The wait is over after 65535 ms.     *)
WebsocketAfterWifi == main = "websocket" => "connected" \in events
==============================================================================
